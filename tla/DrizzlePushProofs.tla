------------------------- MODULE DrizzlePushProofs -------------------------
(***************************************************************************)
(* What the outbound half of the drizzle engine guarantees for every       *)
(* number of rows, calls and nested transactions, every batch size and     *)
(* retry setting, every set of faults, other devices included, and any     *)
(* number of crashes: no mutation is forgotten, the outbox implements      *)
(* Delivery, a row's version follows the row, except in the ways that are  *)
(* named, and what one transact run wrote is stored whole.                 *)
(***************************************************************************)
EXTENDS DrizzlePush, Extrema, SequenceTheorems

-----------------------------------------------------------------------------
(* The inductive invariant.                                                *)

(* The tables and what a call holds in memory have their types.            *)
Tables ==
  /\ config \in Configs
  /\ rows \in [Keys -> [val : Versions, live : BOOLEAN]]
  /\ Partial(outbox, Ids, Row) /\ Partial(dead, Ids, Row) /\ Partial(pending, Ids, Row)
  /\ heads \in [Keys -> Versions]
  /\ nextId \in 1..(MaxIds + 1)
  /\ unstamped \subseteq DOMAIN outbox \cup DOMAIN dead
  /\ lost \subseteq Ids /\ cutOff \subseteq Ids
  /\ replayed \subseteq ForeignIds /\ halfway \in Versions

Tx == [id : 1..(MaxIds + config.runs + 1), phase : {"open", "stamping"}, entries : SUBSET Ids]

(* The entries of an open transaction wait for its commit, and for no      *)
(* other.                                                                  *)
Entries(st, i) == IF st[i].phase = "open" THEN st[i].entries ELSE {}
StackInOrder ==
  /\ stack \in Seq(Tx)
  /\ txs \in 0..config.runs
  /\ \A i \in 1..Len(stack) : Entries(stack, i) \subseteq DOMAIN pending
  /\ \A i, j \in 1..Len(stack) : i # j => Entries(stack, i) \cap Entries(stack, j) = {}

(* Ids are drawn in order; what waits for its commit is nowhere else.      *)
PendingApart ==
  /\ DOMAIN pending \cup Held \subseteq 1..(nextId - 1)
  /\ DOMAIN pending \cap Held = {}
  /\ \A e \in DOMAIN pending : ~pending[e].synced

(* A request is made of events the device has committed.                   *)
Sent(r, H) == \A g \in r : g # {} /\ \A b \in g : b.seq \in Nat /\ b.eid \in H

(* What a push has in hand is queued; what it was told is confirmed is on  *)
(* the server.                                                             *)
Sending ==
  /\ push = [phase |-> push.phase, due |-> push.due, open |-> push.open, answer |-> push.answer]
  /\ push.answer = [e \in DOMAIN push.answer |-> push.answer[e]]
  /\ push.phase \in {"idle", "waiting", "apply", "pull"}
  /\ push.phase = "apply" => push.open = {}
  /\ Sent(push.open, Held) /\ Eids(Events(push.open)) \subseteq Unsynced
  /\ push.due \subseteq Unsynced /\ DOMAIN push.answer \subseteq Unsynced
  /\ push.due \cap (DOMAIN push.answer \cup Eids(Events(push.open))) = {}
  /\ \A e \in DOMAIN push.answer : push.answer[e] = "confirmed" => e \in DOMAIN log

LateSent == \A r \in late : r # {} /\ Sent(r, Held)

Inv == Tables /\ StackInOrder /\ PendingApart /\ Sending /\ LateSent /\ MutationsDurable

(* The invariant has the types of all variables in it.                     *)
LEMMA InvTypes == Inv => TypeOK
<1> SUFFICES ASSUME Inv PROVE TypeOK
  OBVIOUS
<1>1. ASSUME NEW i \in DOMAIN stack
      PROVE  stack[i].phase \in {"open", "stamping"} /\ stack[i].entries \subseteq Ids
  <2>1. stack \in Seq(Tx)
    BY DEF Inv, StackInOrder
  <2>2. stack[i] \in Tx
    BY <2>1
  <2>3. QED
    BY <2>2 DEF Tx
<1>2. QED
  BY <1>1 DEF Inv, Tables, Sending, TypeOK

-----------------------------------------------------------------------------
(* Operators.                                                              *)

(* config never changes, and with it the rows and the types.               *)
LEMMA ConfigKept ==
  ASSUME config' = config
  PROVE  Row' = Row /\ Keys' = Keys /\ Tx' = Tx
BY DEF Row, Keys, Tx

(* A configuration is one of the type.                                     *)
LEMMA ConfigTyped ==
  ASSUME Tables
  PROVE  /\ config \in ConfigType /\ config.ids \in 0..MaxIds /\ config.runs \in Nat
         /\ config.foreign \subseteq ForeignIds /\ MaxIds \in Nat
BY ConfigsAssumption DEF Tables, ConfigType

(* The greatest of a non-empty set of ids is in it.                        *)
LEMMA LastIn ==
  ASSUME NEW S, S \subseteq Ids, S # {}
  PROVE  Last(S) \in S /\ \A f \in S : f <= Last(S)
<1>1. \E x \in S : \A y \in S : y <= x
  BY ConfigsAssumption, MaxExists DEF Ids
<1>2. QED
  BY <1>1 DEF Last

(* Other devices' ids are not this device's.                               *)
LEMMA ForeignApart == ForeignIds \cap Ids = {} /\ NoEvent \notin Ids
BY ConfigsAssumption DEF Ids, NoEvent

(* Partial functions put together, and cut.                                *)
LEMMA JoinType ==
  ASSUME NEW f, NEW g, NEW S, NEW T, Partial(f, S, T), Partial(g, S, T)
  PROVE  /\ Partial(Join(f, g), S, T)
         /\ DOMAIN Join(f, g) = DOMAIN f \cup DOMAIN g
         /\ \A e \in DOMAIN g : Join(f, g)[e] = g[e]
         /\ \A e \in DOMAIN f \ DOMAIN g : Join(f, g)[e] = f[e]
BY DEF Join, Partial

(* The part of a table that a set selects has its type, and its values.    *)
LEMMA OnlyType ==
  ASSUME NEW f, NEW S, NEW T, NEW U, Partial(f, S, T)
  PROVE  /\ Partial(Only(f, U), S, T) /\ DOMAIN Only(f, U) = DOMAIN f \cap U
         /\ \A e \in DOMAIN f \cap U : Only(f, U)[e] = f[e]
BY DEF Only, Partial

(* One element of a sequence taken out.                                    *)
LEMMA PoppedSeq ==
  ASSUME NEW T, stack \in Seq(T), NEW i \in 1..Len(stack)
  PROVE  /\ Popped(i) \in Seq(T)
         /\ Len(Popped(i)) = Len(stack) - 1
         /\ \A j \in 1..(Len(stack) - 1) :
              Popped(i)[j] = stack[IF j < i THEN j ELSE j + 1]
<1>0. Len(stack) \in Nat /\ i \in Nat /\ i >= 1 /\ i <= Len(stack)
      /\ \A j \in 1..Len(stack) : stack[j] \in T
  OBVIOUS
<1>1. SubSeq(stack, 1, i - 1) \in Seq(T) /\ Len(SubSeq(stack, 1, i - 1)) = i - 1
      /\ \A j \in 1..(i - 1) : SubSeq(stack, 1, i - 1)[j] = stack[j]
  <2>1. \A j \in 1..(i - 1) : stack[j] \in T
    BY <1>0
  <2>2. QED
    BY <1>0, <2>1, SubSeqProperties
<1>2. SubSeq(stack, i + 1, Len(stack)) \in Seq(T)
      /\ Len(SubSeq(stack, i + 1, Len(stack))) = Len(stack) - i
      /\ \A j \in 1..(Len(stack) - i) : SubSeq(stack, i + 1, Len(stack))[j] = stack[i + j]
  <2>1. \A j \in (i + 1)..Len(stack) : stack[j] \in T
    BY <1>0
  <2>2. QED
    BY <1>0, <2>1, SubSeqProperties
<1> DEFINE a == SubSeq(stack, 1, i - 1)
           b == SubSeq(stack, i + 1, Len(stack))
<1>3. Popped(i) = a \o b
  BY DEF Popped
<1>4. /\ a \in Seq(T) /\ Len(a) = i - 1 /\ \A j \in 1..(i - 1) : a[j] = stack[j]
      /\ b \in Seq(T) /\ Len(b) = Len(stack) - i
      /\ \A j \in 1..(Len(stack) - i) : b[j] = stack[i + j]
  BY <1>1, <1>2
<1> HIDE DEF a, b
<1>5. /\ a \o b \in Seq(T) /\ Len(a \o b) = Len(stack) - 1
      /\ \A j \in 1..(Len(stack) - 1) :
           (a \o b)[j] = IF j <= i - 1 THEN a[j] ELSE b[j - (i - 1)]
  <2>1. Len(a) + Len(b) = Len(stack) - 1
    BY <1>0, <1>4
  <2>2. /\ a \o b \in Seq(T) /\ Len(a \o b) = Len(a) + Len(b)
        /\ \A j \in 1..(Len(a) + Len(b)) :
             (a \o b)[j] = IF j <= Len(a) THEN a[j] ELSE b[j - Len(a)]
    BY <1>4, ConcatProperties
  <2>3. QED
    BY <1>4, <2>1, <2>2
<1>6. ASSUME NEW j \in 1..(Len(stack) - 1)
      PROVE  (a \o b)[j] = stack[IF j < i THEN j ELSE j + 1]
  <2>1. CASE j < i
    BY <1>0, <1>4, <1>5, <2>1
  <2>2. CASE ~(j < i)
    <3>1. j - (i - 1) \in 1..(Len(stack) - i) /\ i + (j - (i - 1)) = j + 1
      BY <1>0, <2>2
    <3>2. (a \o b)[j] = b[j - (i - 1)]
      BY <1>0, <1>5, <2>2
    <3>3. b[j - (i - 1)] = stack[i + (j - (i - 1))]
      BY <1>4, <3>1
    <3>4. QED
      BY <2>2, <3>1, <3>2, <3>3
  <2>3. QED
    BY <2>1, <2>2
<1>7. QED
  BY <1>3, <1>5, <1>6

(* The first group of a request is one of its groups.                      *)
LEMMA Head1In ==
  ASSUME NEW r, r # {}, NEW H, Sent(r, H)
  PROVE  Head1(r) \in r
<1>1. ASSUME NEW g \in r PROVE First(g).seq \in Nat
  <2>1. {b.seq : b \in g} \subseteq Nat /\ {b.seq : b \in g} # {}
    BY DEF Sent
  <2>2. PICK x \in {b.seq : b \in g} : \A y \in {b.seq : b \in g} : x <= y
    BY <2>1, MinExists
  <2>3. \E b \in g : \A c \in g : b.seq <= c.seq
    BY <2>2
  <2>4. First(g) \in g
    BY <2>3 DEF First
  <2>5. QED
    BY <2>4 DEF Sent
<1>2. {First(g).seq : g \in r} \subseteq Nat /\ {First(g).seq : g \in r} # {}
  BY <1>1
<1>3. PICK x \in {First(g).seq : g \in r} : \A y \in {First(g).seq : g \in r} : x <= y
  BY <1>2, MinExists
<1>4. \E g \in r : \A h \in r : First(g).seq <= First(h).seq
  BY <1>3
<1>5. QED
  BY <1>4 DEF Head1

(* The server keeps what it has, stores no more than the group, and        *)
(* confirms what it stores.                                                *)
LEMMA ServerKeeps ==
  ASSUME NEW group, NEW faults, NEW result \in ServerResults(group, faults)
  PROVE  /\ DOMAIN log \subseteq DOMAIN result.log
         /\ DOMAIN result.log \subseteq DOMAIN log \cup Eids(group)
         /\ DOMAIN result.answer = Eids(group)
         /\ \A e \in Eids(group) : result.answer[e] = "confirmed" => e \in DOMAIN result.log
<1>1. CASE result = Result(Appended(group), AllConfirmed(group))
  BY <1>1 DEF Result, Appended, AllConfirmed
<1>2. ASSUME NEW refused, NEW code, code # "confirmed", result = Result(log, Aborted(group, refused, code))
      PROVE  /\ result.log = log
             /\ DOMAIN result.answer = Eids(group)
             /\ \A e \in Eids(group) : result.answer[e] = "confirmed" => e \in DOMAIN result.log
  BY <1>2 DEF Result, Aborted
<1>3. CASE result = Result(log, AllTransient(group))
  BY <1>3 DEF Result, AllTransient
<1>4. \/ result = Result(Appended(group), AllConfirmed(group))
      \/ result = Result(log, Aborted(group, Conflicting(group), "conflict"))
      \/ \E b \in Fresh(group) : result = Result(log, Aborted(group, {b}, "rejected"))
      \/ result = Result(log, AllTransient(group))
  BY DEF ServerResults
<1>5. QED
  BY <1>1, <1>2, <1>3, <1>4

(* A retry delay is below the cap.                                         *)
LEMMA DelayType ==
  ASSUME NEW n \in Nat
  PROVE  Delay(n) \in 0..MaxDelay
<1>1. (IF n >= 1 THEN n - 1 ELSE 0) \in Nat
  OBVIOUS
<1>2. 2 ^ (IF n >= 1 THEN n - 1 ELSE 0) \in Nat
  BY <1>1, PowerOfTwo
<1>3. QED
  BY <1>2, ConfigsAssumption DEF Delay

-----------------------------------------------------------------------------
(* The steps of Delivery, in the terms of the outbox.                      *)

Confirmed == DOMAIN outbox \ Unsynced

(* A step that queues new events.                                          *)
LEMMA WriteStep ==
  ASSUME Held' \subseteq Ids, Held \subseteq Held',
         Unsynced' \subseteq Unsynced \cup (Held' \ Held),
         Confirmed' = Confirmed, dead' = dead, log' = log
  PROVE  D!Write
<1>1. Held' = Held \cup (Held' \ Held) /\ Held' \ Held \in SUBSET (Ids \ Held)
  OBVIOUS
<1>2. Stored' = Stored
  BY DEF Stored
<1>3. QED
  BY <1>1, <1>2 DEF D!Write, Confirmed

(* A step in which only the server's log grows.                            *)
LEMMA StoreStep ==
  ASSUME outbox' = outbox, dead' = dead, Held' = Held,
         Stored \subseteq Stored', Stored' \subseteq Held
  PROVE  D!Store
<1>1. Stored' = Stored \cup (Stored' \ Stored) /\ Stored' \ Stored \in SUBSET (Held \ Stored)
  OBVIOUS
<1>2. Unsynced' = Unsynced
  BY DEF Unsynced
<1>3. QED
  BY <1>1, <1>2 DEF D!Store

(* A step in which queued events are confirmed or parked.                  *)
LEMMA SettleStep ==
  ASSUME NEW yes \in SUBSET (Unsynced \cap Stored), NEW no \in SUBSET (Unsynced \ yes),
         NEW gone \in SUBSET no, Unsynced' = (Unsynced \ yes) \ gone,
         Confirmed' = Confirmed \cup yes, DOMAIN dead' = DOMAIN dead \cup no,
         Held' = Held, Stored' = Stored
  PROVE  D!Settle
BY DEF D!Settle, Confirmed

(* A step that neither queues, stores nor settles anything.                *)
LEMMA QuietStep ==
  ASSUME Held' = Held, Stored' = Stored, DOMAIN dead' = DOMAIN dead,
         DOMAIN outbox' = DOMAIN outbox, Unsynced' = Unsynced
  PROVE  UNCHANGED D!dvars
BY DEF D!dvars

StepOK == Inv' /\ [D!Next]_(D!dvars)

-----------------------------------------------------------------------------
(* What the steps of one side leave to the other.                          *)

(* A push has nothing to do with the calls under way.                      *)
LEMMA CallsKept ==
  ASSUME Inv, Aside, Held' = Held,
         DOMAIN outbox' \cup DOMAIN dead' = DOMAIN outbox \cup DOMAIN dead,
         Partial(outbox', Ids, Row), Partial(dead', Ids, Row), heads' \in [Keys -> Versions]
  PROVE  Tables' /\ StackInOrder' /\ PendingApart' /\ MutationsDurable'
<1>1. config' = config /\ rows' = rows /\ nextId' = nextId /\ pending' = pending /\ stack' = stack
      /\ txs' = txs /\ unstamped' = unstamped /\ lost' = lost /\ cutOff' = cutOff
      /\ replayed' = replayed /\ halfway' = halfway
  BY DEF Aside, calls
<1>2. Row' = Row /\ Keys' = Keys /\ Tx' = Tx
  BY <1>1, ConfigKept
<1>3. Tables'
  BY <1>1, <1>2 DEF Inv, Tables
<1>4. StackInOrder'
  BY <1>1, <1>2 DEF Inv, StackInOrder
<1>5. PendingApart' /\ MutationsDurable'
  BY <1>1 DEF Inv, PendingApart, MutationsDurable
<1>6. QED
  BY <1>3, <1>4, <1>5

(* The calls have nothing to do with the push in progress.                 *)
LEMMA PushKept ==
  ASSUME Sending, LateSent, push' = push, late' = late, Unsynced \subseteq Unsynced',
         Held \subseteq Held', DOMAIN log \subseteq DOMAIN log'
  PROVE  Sending' /\ LateSent'
<1>1. Sending'
  BY DEF Sending, Sent
<1>2. LateSent'
  BY DEF LateSent, Sent
<1>3. QED
  BY <1>1, <1>2

(* Where the rows stay, so does what is held.                              *)
LEMMA HeldSame ==
  ASSUME DOMAIN outbox' \cup DOMAIN dead' = DOMAIN outbox \cup DOMAIN dead, log' = log
  PROVE  Held' = Held /\ Stored' = Stored
BY DEF Held, Stored

-----------------------------------------------------------------------------
(* The stack of transactions.                                              *)

(* The stack stays, and so do the entries of its open transactions.        *)
LEMMA StackSame ==
  ASSUME StackInOrder, stack' = stack, txs' = txs, config' = config,
         DOMAIN pending \cap Waiting \subseteq DOMAIN pending'
  PROVE  StackInOrder'
<1>1. Tx' = Tx
  BY ConfigKept
<1>2. ASSUME NEW i \in 1..Len(stack) PROVE Entries(stack, i) \subseteq DOMAIN pending'
  <2>1. Entries(stack, i) \subseteq DOMAIN pending
    BY DEF StackInOrder
  <2>2. stack[i].entries \subseteq Waiting
    BY DEF StackInOrder, Waiting
  <2>3. QED
    BY <2>1, <2>2 DEF Entries
<1>3. QED
  BY <1>1, <1>2 DEF StackInOrder

(* A transaction ends, and only its own entries stop waiting.              *)
LEMMA StackPopped ==
  ASSUME StackInOrder, NEW i \in 1..Len(stack), stack' = Popped(i), txs' = txs,
         config' = config, DOMAIN pending \ Entries(stack, i) \subseteq DOMAIN pending'
  PROVE  StackInOrder'
<1> DEFINE from(j) == IF j < i THEN j ELSE j + 1
<1>1. Tx' = Tx /\ stack \in Seq(Tx) /\ Len(stack) \in Nat
  BY ConfigKept DEF StackInOrder
<1>2. stack' \in Seq(Tx) /\ Len(stack') = Len(stack) - 1
      /\ \A j \in 1..(Len(stack) - 1) : stack'[j] = stack[from(j)]
  <2>1. /\ Popped(i) \in Seq(Tx) /\ Len(Popped(i)) = Len(stack) - 1
        /\ \A j \in 1..(Len(stack) - 1) : Popped(i)[j] = stack[IF j < i THEN j ELSE j + 1]
    BY <1>1, PoppedSeq
  <2> HIDE DEF from
  <2>2. \A j \in 1..(Len(stack) - 1) : from(j) = IF j < i THEN j ELSE j + 1
    BY DEF from
  <2>3. QED
    BY <2>1, <2>2
<1>3. ASSUME NEW j \in 1..Len(stack')
      PROVE  /\ from(j) \in 1..Len(stack) /\ from(j) # i
             /\ Entries(stack', j) = Entries(stack, from(j))
  <2>1. j \in 1..(Len(stack) - 1)
    BY <1>2
  <2>2. from(j) \in 1..Len(stack) /\ from(j) # i
    BY <1>1, <2>1
  <2> HIDE DEF from
  <2>3. stack'[j] = stack[from(j)]
    BY <1>2, <2>1
  <2>4. QED
    BY <2>2, <2>3 DEF Entries
<1>4. ASSUME NEW j \in 1..Len(stack'), NEW k \in 1..Len(stack'), j # k
      PROVE  from(j) # from(k)
  <2>1. j \in 1..(Len(stack) - 1) /\ k \in 1..(Len(stack) - 1)
    BY <1>2
  <2>2. QED
    BY <1>1, <2>1, <1>4
<1> HIDE DEF from
<1>5. ASSUME NEW j \in 1..Len(stack') PROVE Entries(stack', j) \subseteq DOMAIN pending'
  <2>1. Entries(stack, from(j)) \subseteq DOMAIN pending
        /\ Entries(stack, from(j)) \cap Entries(stack, i) = {}
    BY <1>3 DEF StackInOrder
  <2>2. QED
    BY <1>3, <2>1
<1>6. ASSUME NEW j \in 1..Len(stack'), NEW k \in 1..Len(stack'), j # k
      PROVE  Entries(stack', j) \cap Entries(stack', k) = {}
  BY <1>3, <1>4, <1>6 DEF StackInOrder
<1>7. QED
  BY <1>1, <1>2, <1>5, <1>6 DEF StackInOrder

(* A transaction changes in its place, and only entries that waited for it *)
(* alone stop waiting.                                                     *)
LEMMA StackAt ==
  ASSUME StackInOrder, NEW i \in 1..Len(stack), NEW t \in Tx, stack' = At(i, t), txs' = txs,
         config' = config,
         IF t.phase = "open" THEN t.entries \subseteq DOMAIN pending' ELSE TRUE,
         \A j \in 1..Len(stack) : j # i =>
           /\ Entries(stack, j) \subseteq DOMAIN pending'
           /\ t.phase = "open" => Entries(stack, j) \cap t.entries = {}
  PROVE  StackInOrder'
<1>1. Tx' = Tx /\ stack \in Seq(Tx) /\ Len(stack) \in Nat
  BY ConfigKept DEF StackInOrder
<1>2. stack' \in Seq(Tx) /\ Len(stack') = Len(stack) /\ stack'[i] = t
      /\ \A j \in 1..Len(stack) : j # i => stack'[j] = stack[j]
  BY <1>1 DEF At
<1>3. Entries(stack', i) = (IF t.phase = "open" THEN t.entries ELSE {})
      /\ \A j \in 1..Len(stack) : j # i => Entries(stack', j) = Entries(stack, j)
  BY <1>2 DEF Entries
<1>4. \A j \in 1..Len(stack') : Entries(stack', j) \subseteq DOMAIN pending'
  BY <1>2, <1>3
<1>5. \A j, k \in 1..Len(stack') : j # k => Entries(stack', j) \cap Entries(stack', k) = {}
  BY <1>2, <1>3 DEF StackInOrder
<1>6. QED
  BY <1>1, <1>2, <1>4, <1>5 DEF StackInOrder

(* A transaction begins.                                                   *)
LEMMA StackBegun ==
  ASSUME StackInOrder, NEW t \in Tx, t.entries = {}, stack' = Append(stack, t),
         txs' \in 0..config.runs, config' = config, pending' = pending
  PROVE  StackInOrder'
<1>1. Tx' = Tx /\ stack \in Seq(Tx) /\ Len(stack) \in Nat
  BY ConfigKept DEF StackInOrder
<1>2. stack' \in Seq(Tx) /\ Len(stack') = Len(stack) + 1 /\ stack'[Len(stack) + 1] = t
      /\ \A j \in 1..Len(stack) : stack'[j] = stack[j]
  BY <1>1
<1>3. Entries(stack', Len(stack) + 1) = {}
      /\ \A j \in 1..Len(stack) : Entries(stack', j) = Entries(stack, j)
  BY <1>2 DEF Entries
<1>4. \A j \in 1..Len(stack') : j = Len(stack) + 1 \/ j \in 1..Len(stack)
  BY <1>1, <1>2
<1>5. QED
  BY <1>1, <1>2, <1>3, <1>4 DEF StackInOrder

-----------------------------------------------------------------------------
(* The calls.                                                              *)

(* resolveBaseVersion reads an eventId.                                    *)
LEMMA BaseVersionType ==
  ASSUME Tables, NEW k \in Keys
  PROVE  BaseVersion(k) \in Versions
<1> DEFINE mine == UNION {OfRow(k, t.entries) : t \in Ambient}
<1>1. mine \subseteq Ids
  BY DEF OfRow, Tables, Partial
<1>2. mine # {} => Last(mine) \in Ids
  BY <1>1, LastIn
<1> HIDE DEF mine
<1>3. heads[k] \in Versions
  BY DEF Tables
<1>4. BaseVersion(k) = IF ~config.versions THEN NoEvent
                       ELSE IF mine # {} THEN Last(mine) ELSE heads[k]
  BY DEF BaseVersion, mine
<1>5. QED
  BY <1>2, <1>3, <1>4 DEF Versions, EventIds

(* A call: its event waits, with an id nobody has had.                     *)
LEMMA CallStep ==
  ASSUME Inv, NEW k \in Keys, NEW type \in MutationTypes, Call(k, type)
  PROVE  StepOK
<1> DEFINE tx  == IF stack = <<>> THEN nextId ELSE stack[Len(stack)].id
           row == [tx |-> tx, key |-> k, type |-> type, base |-> BaseVersion(k),
                   synced |-> FALSE, attempts |-> 0, wait |-> 0]
           new == [e \in {nextId} |-> row]
<1>1. /\ nextId <= config.ids /\ pending' = Join(pending, new) /\ nextId' = nextId + 1
      /\ UNCHANGED <<log, config, rows, outbox, dead, heads, stack, txs, unstamped, lost, cutOff,
                     push, late, replayed, halfway>>
  BY DEF Call
<1>2. /\ config \in ConfigType /\ config.ids \in 0..MaxIds /\ config.runs \in Nat
      /\ MaxIds \in Nat /\ nextId \in 1..(MaxIds + 1)
  BY ConfigTyped DEF Inv, Tables
<1>3. nextId \in Ids
  BY <1>1, <1>2 DEF Ids
<1>4. tx \in 1..(MaxIds + config.runs + 1)
  <2>1. CASE stack = <<>>
    BY <1>2, <2>1
  <2>2. CASE stack # <<>>
    <3>1. stack \in Seq(Tx)
      BY DEF Inv, StackInOrder
    <3>2. stack[Len(stack)] \in Tx
      BY <2>2, <3>1
    <3>3. QED
      BY <2>2, <3>2 DEF Tx
  <2>3. QED
    BY <2>1, <2>2
<1>5. row \in Row
  <2>1. BaseVersion(k) \in Versions
    BY BaseVersionType DEF Inv
  <2>2. 0 \in 0..MaxDelay
    BY ConfigsAssumption
  <2> HIDE DEF tx
  <2>3. QED
    BY <1>4, <2>1, <2>2 DEF Row
<1>6. ~row.synced
  OBVIOUS
<1> HIDE DEF tx, row
<1>7. Partial(pending, Ids, Row) /\ Partial(new, Ids, Row) /\ DOMAIN new = {nextId}
      /\ new[nextId] = row
  BY <1>3, <1>5 DEF Inv, Tables, Partial
<1> HIDE DEF new
<1>8. /\ Partial(pending', Ids, Row) /\ DOMAIN pending' = DOMAIN pending \cup {nextId}
      /\ pending'[nextId] = row /\ \A e \in DOMAIN pending \ {nextId} : pending'[e] = pending[e]
  <2>1. /\ Partial(Join(pending, new), Ids, Row)
        /\ DOMAIN Join(pending, new) = DOMAIN pending \cup DOMAIN new
        /\ \A e \in DOMAIN new : Join(pending, new)[e] = new[e]
        /\ \A e \in DOMAIN pending \ DOMAIN new : Join(pending, new)[e] = pending[e]
    BY <1>7, JoinType
  <2>2. QED
    BY <1>1, <1>7, <2>1
<1>9. Row' = Row /\ Keys' = Keys /\ Unsynced' = Unsynced /\ Held' = Held /\ Stored' = Stored
  BY <1>1, ConfigKept DEF Unsynced, Held, Stored
<1>10. Tables'
  <2>1. nextId' \in 1..(MaxIds + 1)
    BY <1>1, <1>2
  <2>2. QED
    BY <1>1, <1>8, <1>9, <2>1 DEF Inv, Tables
<1>11. StackInOrder'
  BY <1>1, <1>8, StackSame DEF Inv
<1>12. 1..(nextId' - 1) = 1..(nextId - 1) \cup {nextId} /\ nextId \notin 1..(nextId - 1)
  BY <1>1, <1>2
<1>13. PendingApart'
  BY <1>6, <1>8, <1>9, <1>12 DEF Inv, PendingApart
<1>14. MutationsDurable'
  BY <1>1, <1>8, <1>9, <1>12 DEF Inv, MutationsDurable
<1>15. Sending' /\ LateSent'
  BY <1>1, <1>9, PushKept DEF Inv
<1>16. UNCHANGED D!dvars
  BY <1>1, <1>9, QuietStep
<1>17. QED
  BY <1>10, <1>11, <1>13, <1>14, <1>15, <1>16 DEF StepOK, Inv

(* A row of the domain table shows the last write of the transaction.      *)
LEMMA WrittenType ==
  ASSUME Tables, NEW S
  PROVE  Written(S) \in [Keys -> [val : Versions, live : BOOLEAN]]
<1>1. ASSUME NEW k \in Keys, OfRow(k, S) # {}
      PROVE  [val |-> Last(OfRow(k, S)), live |-> pending[Last(OfRow(k, S))].type # "delete"]
               \in [val : Versions, live : BOOLEAN]
  <2>1. OfRow(k, S) \subseteq Ids
    BY DEF OfRow, Tables, Partial
  <2>2. Last(OfRow(k, S)) \in Ids
    BY <1>1, <2>1, LastIn
  <2>3. QED
    BY <2>2 DEF Versions, EventIds
<1>2. \A k \in Keys : rows[k] \in [val : Versions, live : BOOLEAN]
  BY DEF Tables
<1>3. QED
  BY <1>1, <1>2 DEF Written

(* The database transaction of the events S: they leave the memory of the  *)
(* calls and are queued.                                                   *)
LEMMA InsertAllStep ==
  ASSUME Inv, NEW S, S \subseteq DOMAIN pending, InsertAll(S), Rest, heads' = heads
  PROVE  /\ Tables' /\ PendingApart' /\ MutationsDurable' /\ Sending' /\ LateSent'
         /\ DOMAIN pending' = DOMAIN pending \ S /\ D!Write
<1>1. /\ rows' = Written(S) /\ outbox' = Join(outbox, Only(pending, S))
      /\ pending' = Without(pending, S) /\ unstamped' \subseteq unstamped \cup S /\ lost' = lost
      /\ UNCHANGED <<log, config, dead, nextId, cutOff, push, late, replayed, halfway>>
  BY DEF InsertAll, Rest
<1>2. Partial(outbox, Ids, Row) /\ Partial(pending, Ids, Row)
  BY DEF Inv, Tables
<1>3. /\ Partial(pending', Ids, Row) /\ DOMAIN pending' = DOMAIN pending \ S
      /\ \A e \in DOMAIN pending \ S : pending'[e] = pending[e]
      /\ Partial(Only(pending, S), Ids, Row) /\ DOMAIN Only(pending, S) = S
      /\ \A e \in S : Only(pending, S)[e] = pending[e]
  <2>1. DOMAIN pending \cap S = S
    OBVIOUS
  <2>2. /\ Partial(Without(pending, S), Ids, Row) /\ DOMAIN Without(pending, S) = DOMAIN pending \ S
        /\ \A e \in DOMAIN pending \ S : Without(pending, S)[e] = pending[e]
    BY <1>2 DEF Without, Partial
  <2>3. /\ Partial(Only(pending, S), Ids, Row) /\ DOMAIN Only(pending, S) = DOMAIN pending \cap S
        /\ \A e \in DOMAIN pending \cap S : Only(pending, S)[e] = pending[e]
    BY <1>2, OnlyType
  <2>4. QED
    BY <1>1, <2>1, <2>2, <2>3
<1>4. /\ Partial(outbox', Ids, Row) /\ DOMAIN outbox' = DOMAIN outbox \cup S
      /\ \A e \in S : outbox'[e] = pending[e]
      /\ \A e \in DOMAIN outbox \ S : outbox'[e] = outbox[e]
  <2> DEFINE new == Only(pending, S)
  <2>1. Partial(new, Ids, Row) /\ DOMAIN new = S /\ \A e \in S : new[e] = pending[e]
    BY <1>3
  <2> HIDE DEF new
  <2>2. /\ Partial(Join(outbox, new), Ids, Row)
        /\ DOMAIN Join(outbox, new) = DOMAIN outbox \cup DOMAIN new
        /\ \A e \in DOMAIN new : Join(outbox, new)[e] = new[e]
        /\ \A e \in DOMAIN outbox \ DOMAIN new : Join(outbox, new)[e] = outbox[e]
    BY <1>2, <2>1, JoinType
  <2>3. outbox' = Join(outbox, new)
    BY <1>1 DEF new
  <2>4. QED
    BY <2>1, <2>2, <2>3
<1>5. S \cap Held = {} /\ \A e \in S : ~pending[e].synced
  BY DEF Inv, PendingApart
<1>6. Held' = Held \cup S /\ Stored' = Stored
  BY <1>1, <1>4 DEF Held, Stored
<1>7. Unsynced' = Unsynced \cup S /\ Confirmed' = Confirmed
  BY <1>4, <1>5 DEF Unsynced, Confirmed, Held
<1>8. Row' = Row /\ Keys' = Keys
  BY <1>1, ConfigKept
<1>9. rows' \in [Keys -> [val : Versions, live : BOOLEAN]]
  BY <1>1, WrittenType DEF Inv
<1>10. Tables'
  BY <1>1, <1>3, <1>4, <1>8, <1>9 DEF Inv, Tables
<1>11. PendingApart' /\ MutationsDurable'
  BY <1>1, <1>3, <1>5, <1>6 DEF Inv, PendingApart, MutationsDurable
<1>12. Sending' /\ LateSent'
  BY <1>1, <1>6, <1>7, PushKept DEF Inv
<1>13. D!Write
  <2>1. Held' \subseteq Ids
    BY <1>2, <1>6 DEF Held, Stored, Inv, Tables, Partial
  <2>2. QED
    BY <1>1, <1>5, <1>6, <1>7, <2>1, WriteStep
<1>14. QED
  BY <1>3, <1>10, <1>11, <1>12, <1>13

(* The events S will never be: their calls have failed.                    *)
LEMMA FailAllStep ==
  ASSUME Inv, NEW S, S \subseteq DOMAIN pending,
         pending' = Without(pending, S), lost' = lost \cup S, heads' \in [Keys -> Versions],
         UNCHANGED <<rows, outbox, unstamped>>, Rest
  PROVE  /\ Tables' /\ PendingApart' /\ MutationsDurable' /\ Sending' /\ LateSent'
         /\ DOMAIN pending' = DOMAIN pending \ S /\ UNCHANGED D!dvars
<1>1. UNCHANGED <<log, config, dead, nextId, cutOff, push, late, replayed, halfway>>
  BY DEF Rest
<1>2. Partial(pending, Ids, Row)
  BY DEF Inv, Tables
<1>3. /\ Partial(pending', Ids, Row) /\ DOMAIN pending' = DOMAIN pending \ S
      /\ \A e \in DOMAIN pending \ S : pending'[e] = pending[e]
  <2>1. /\ Partial(Without(pending, S), Ids, Row) /\ DOMAIN Without(pending, S) = DOMAIN pending \ S
        /\ \A e \in DOMAIN pending \ S : Without(pending, S)[e] = pending[e]
    BY <1>2 DEF Without, Partial
  <2>2. QED
    BY <2>1
<1>4. Row' = Row /\ Keys' = Keys /\ Unsynced' = Unsynced /\ Held' = Held /\ Stored' = Stored
  BY <1>1, ConfigKept DEF Unsynced, Held, Stored
<1>5. lost' \subseteq Ids
  BY <1>2 DEF Inv, Tables, Partial
<1>6. Tables'
  BY <1>1, <1>3, <1>4, <1>5 DEF Inv, Tables
<1>7. PendingApart' /\ MutationsDurable'
  BY <1>1, <1>3, <1>4 DEF Inv, PendingApart, MutationsDurable
<1>8. Sending' /\ LateSent'
  BY <1>1, <1>4, PushKept DEF Inv
<1>9. UNCHANGED D!dvars
  BY <1>1, <1>4, QuietStep
<1>10. QED
  BY <1>3, <1>6, <1>7, <1>8, <1>9

(* A call outside any transaction commits, or fails.                       *)
LEMMA CommitCallStep ==
  ASSUME Inv, NEW e \in Ids, CommitCall(e)
  PROVE  StepOK
<1>1. /\ {e} \subseteq DOMAIN pending \ Waiting
      /\ InsertAll({e}) \/ FailAll({e})
      /\ heads' = heads /\ stack' = stack /\ txs' = txs /\ config' = config /\ Rest
  BY DEF CommitCall, Rest
<1>2. /\ Tables' /\ PendingApart' /\ MutationsDurable' /\ Sending' /\ LateSent'
      /\ DOMAIN pending' = DOMAIN pending \ {e}
      /\ D!Write \/ UNCHANGED D!dvars
  <2>1. CASE InsertAll({e})
    BY <1>1, <2>1, InsertAllStep
  <2>2. CASE FailAll({e})
    <3>1. heads' \in [Keys -> Versions]
      BY <1>1 DEF Inv, Tables
    <3>2. QED
      BY <1>1, <2>2, <3>1, FailAllStep DEF FailAll
  <2>3. QED
    BY <1>1, <2>1, <2>2
<1>3. StackInOrder'
  BY <1>1, <1>2, StackSame DEF Inv
<1>4. QED
  BY <1>2, <1>3 DEF StepOK, Inv, D!Next

(* writeRowVersion: the version of one row, and perhaps the end of a run.  *)
LEMMA StampStep ==
  ASSUME Inv, NEW e \in Ids, Stamp(e)
  PROVE  StepOK
<1>1. /\ heads' = [heads EXCEPT ![RowOf(e).key] = e]
      /\ unstamped' = unstamped \ {e}
      /\ stack' = IF Ending(e) = {} THEN stack ELSE Popped(CHOOSE i \in Ending(e) : TRUE)
      /\ UNCHANGED <<rows, outbox, pending, txs, lost>>
      /\ UNCHANGED <<log, config, dead, nextId, cutOff, push, late, replayed, halfway>>
  BY DEF Stamp, Rest
<1>2. Row' = Row /\ Keys' = Keys /\ Unsynced' = Unsynced /\ Held' = Held /\ Stored' = Stored
  BY <1>1, ConfigKept DEF Unsynced, Held, Stored
<1>3. heads' \in [Keys -> Versions]
  BY <1>1 DEF Inv, Tables, Versions, EventIds
<1>4. Tables'
  BY <1>1, <1>2, <1>3 DEF Inv, Tables
<1>5. PendingApart' /\ MutationsDurable'
  BY <1>1, <1>2 DEF Inv, PendingApart, MutationsDurable
<1>6. Sending' /\ LateSent'
  BY <1>1, <1>2, PushKept DEF Inv
<1>7. StackInOrder'
  <2>1. CASE Ending(e) = {}
    BY <1>1, <2>1, StackSame DEF Inv
  <2>2. CASE Ending(e) # {}
    <3>1. PICK i \in Ending(e) : stack' = Popped(i)
      BY <1>1, <2>2
    <3>2. i \in DOMAIN stack
      BY DEF Ending
    <3>3. i \in 1..Len(stack)
      BY <3>2 DEF Inv, StackInOrder
    <3>4. QED
      BY <1>1, <3>1, <3>3, StackPopped DEF Inv
  <2>3. QED
    BY <2>1, <2>2
<1>8. UNCHANGED D!dvars
  BY <1>1, <1>2, QuietStep
<1>9. QED
  BY <1>4, <1>5, <1>6, <1>7, <1>8 DEF StepOK, Inv

(* The stack is a sequence of transactions.                                *)
LEMMA StackOf ==
  ASSUME StackInOrder, NEW i \in DOMAIN stack
  PROVE  i \in 1..Len(stack) /\ stack[i] \in Tx /\ stack[i].entries \subseteq Waiting
<1>1. stack \in Seq(Tx)
  BY DEF StackInOrder
<1>2. i \in 1..Len(stack) /\ stack[i] \in Tx
  BY <1>1
<1>3. QED
  BY <1>2 DEF Waiting

(* Only the stack, or only what waits for nobody, changes.                 *)
LEMMA MemoryStep ==
  ASSUME Inv, StackInOrder', UNCHANGED <<rows, outbox, heads, pending, unstamped, lost>>, Rest
  PROVE  StepOK
<1>1. UNCHANGED <<log, config, dead, nextId, cutOff, push, late, replayed, halfway>>
  BY DEF Rest
<1>2. Row' = Row /\ Keys' = Keys /\ Unsynced' = Unsynced /\ Held' = Held /\ Stored' = Stored
  BY <1>1, ConfigKept DEF Unsynced, Held, Stored
<1>3. Tables'
  BY <1>1, <1>2 DEF Inv, Tables
<1>4. PendingApart' /\ MutationsDurable'
  BY <1>1, <1>2 DEF Inv, PendingApart, MutationsDurable
<1>5. Sending' /\ LateSent'
  BY <1>1, <1>2, PushKept DEF Inv
<1>6. UNCHANGED D!dvars
  BY <1>1, <1>2, QuietStep
<1>7. QED
  BY <1>3, <1>4, <1>5, <1>6 DEF StepOK, Inv

(* A transaction begins.                                                   *)
LEMMA BeginTxStep ==
  ASSUME Inv, BeginTx
  PROVE  StepOK
<1> DEFINE t == [id |-> TxName(txs + 1), phase |-> "open", entries |-> {}]
<1>1. /\ txs < config.runs /\ stack' = Append(stack, t) /\ txs' = txs + 1
      /\ UNCHANGED <<rows, outbox, heads, pending, unstamped, lost>> /\ Rest /\ config' = config
  BY DEF BeginTx, Rest
<1>2. config.runs \in Nat /\ MaxIds \in Nat /\ txs \in 0..config.runs
  BY ConfigTyped DEF Inv, StackInOrder
<1>3. TxName(txs + 1) \in 1..(MaxIds + config.runs + 1) /\ txs' \in 0..config.runs
  BY <1>1, <1>2 DEF TxName
<1>4. t \in Tx /\ t.entries = {}
  BY <1>3 DEF Tx
<1> HIDE DEF t
<1>5. StackInOrder'
  BY <1>1, <1>3, <1>4, StackBegun DEF Inv
<1>6. QED
  BY <1>1, <1>5, MemoryStep

(* A call's entry joins an open transaction.                               *)
LEMMA AddEntryStep ==
  ASSUME Inv, NEW e \in Ids, AddEntry(e)
  PROVE  StepOK
<1>1. /\ e \in DOMAIN pending \ Waiting
      /\ UNCHANGED <<rows, outbox, heads, pending, txs, unstamped, lost>> /\ Rest /\ config' = config
  BY DEF AddEntry, Arriving, Rest
<1>2. PICK i \in Found(e, "open") : stack' = At(i, [stack[i] EXCEPT !.entries = @ \cup {e}])
  BY DEF AddEntry
<1>3. i \in DOMAIN stack /\ stack[i].phase = "open"
  BY DEF Found
<1>4. i \in 1..Len(stack) /\ stack[i] \in Tx
  BY <1>3, StackOf DEF Inv
<1> DEFINE t == [stack[i] EXCEPT !.entries = @ \cup {e}]
<1>5. t \in Tx /\ t.phase = "open" /\ t.entries = Entries(stack, i) \cup {e}
  BY <1>3, <1>4 DEF Tx, Entries
<1>6. stack' = At(i, t)
  BY <1>2
<1> HIDE DEF t
<1>7. StackInOrder
  BY DEF Inv
<1>8. ASSUME NEW j \in 1..Len(stack), j # i
      PROVE  Entries(stack, j) \subseteq DOMAIN pending' /\ Entries(stack, j) \cap t.entries = {}
  <2>1. Entries(stack, j) \subseteq DOMAIN pending /\ Entries(stack, j) \cap Entries(stack, i) = {}
    BY <1>4, <1>7, <1>8 DEF StackInOrder
  <2>2. stack[j].entries \subseteq Waiting
    <3>1. j \in DOMAIN stack
      BY <1>7 DEF StackInOrder
    <3>2. QED
      BY <1>7, <3>1, StackOf
  <2>3. e \notin Entries(stack, j)
    BY <1>1, <2>2 DEF Entries
  <2>4. QED
    BY <1>1, <1>5, <2>1, <2>3
<1>9. t.entries \subseteq DOMAIN pending'
  BY <1>1, <1>4, <1>5, <1>7 DEF StackInOrder
<1>10. StackInOrder'
  BY <1>1, <1>4, <1>5, <1>6, <1>7, <1>8, <1>9, StackAt
<1>11. QED
  BY <1>1, <1>10, MemoryStep

(* A call whose transaction is over: nobody inserts its event.             *)
LEMMA AddTooLateStep ==
  ASSUME Inv, NEW e \in Ids, AddTooLate(e)
  PROVE  StepOK
<1>1. /\ {e} \subseteq DOMAIN pending \ Waiting
      /\ pending' = Without(pending, {e}) /\ lost' = lost \cup {e}
      /\ UNCHANGED <<rows, outbox, unstamped>> /\ stack' = stack /\ txs' = txs
      /\ Rest /\ config' = config
  BY DEF AddTooLate, Arriving, Rest
<1>2. heads' \in [Keys -> Versions]
  BY DEF AddTooLate, Inv, Tables, Versions, EventIds
<1>3. /\ Tables' /\ PendingApart' /\ MutationsDurable' /\ Sending' /\ LateSent'
      /\ DOMAIN pending' = DOMAIN pending \ {e} /\ UNCHANGED D!dvars
  BY <1>1, <1>2, FailAllStep
<1>4. StackInOrder'
  BY <1>1, <1>3, StackSame DEF Inv
<1>5. QED
  BY <1>3, <1>4 DEF StepOK, Inv

(* The callback has returned: the entries commit together, or fail.        *)
LEMMA CommitTxStep ==
  ASSUME Inv, NEW i \in DOMAIN stack, CommitTx(i)
  PROVE  StepOK
<1> DEFINE S == stack[i].entries
           t == [stack[i] EXCEPT !.phase = "stamping", !.entries = {Last(S)}]
<1>1. /\ stack[i].phase = "open" /\ heads' = heads /\ txs' = txs /\ config' = config /\ Rest
      /\ \/ /\ InsertAll(S)
            /\ stack' = Popped(i) \/ (S # {} /\ stack' = At(i, t))
         \/ FailAll(S) /\ stack' = Popped(i)
  BY DEF CommitTx, Rest
<1>2. StackInOrder /\ i \in 1..Len(stack) /\ stack[i] \in Tx
  BY StackOf DEF Inv
<1>3. S = Entries(stack, i) /\ S \subseteq DOMAIN pending /\ S \subseteq Ids
  BY <1>1, <1>2 DEF Entries, StackInOrder, Tx
<1>4. S # {} => t \in Tx /\ t.phase = "stamping"
  BY <1>2, <1>3, LastIn DEF Tx
<1> HIDE DEF S, t
<1>5. /\ Tables' /\ PendingApart' /\ MutationsDurable' /\ Sending' /\ LateSent'
      /\ DOMAIN pending' = DOMAIN pending \ S
      /\ D!Write \/ UNCHANGED D!dvars
  <2>1. CASE InsertAll(S)
    BY <1>1, <1>3, <2>1, InsertAllStep
  <2>2. CASE FailAll(S)
    <3>1. heads' \in [Keys -> Versions]
      BY <1>1 DEF Inv, Tables
    <3>2. QED
      BY <1>1, <1>3, <2>2, <3>1, FailAllStep DEF FailAll
  <2>3. QED
    BY <1>1, <2>1, <2>2
<1>6. StackInOrder'
  <2>1. CASE stack' = Popped(i)
    BY <1>1, <1>2, <1>3, <1>5, <2>1, StackPopped
  <2>2. CASE S # {} /\ stack' = At(i, t)
    <3>1. \A j \in 1..Len(stack) : j # i => Entries(stack, j) \subseteq DOMAIN pending'
      BY <1>2, <1>3, <1>5 DEF StackInOrder
    <3>2. QED
      BY <1>1, <1>2, <1>4, <2>2, <3>1, StackAt
  <2>3. QED
    BY <1>1, <2>1, <2>2
<1>7. QED
  BY <1>5, <1>6 DEF StepOK, Inv, D!Next

(* The callback throws: its entries are dropped.                           *)
LEMMA FailTxStep ==
  ASSUME Inv, NEW i \in DOMAIN stack, FailTx(i)
  PROVE  StepOK
<1> DEFINE S == stack[i].entries
<1>1. /\ stack[i].phase = "open" /\ heads' = heads /\ txs' = txs /\ config' = config /\ Rest
      /\ FailAll(S) /\ stack' = Popped(i)
  BY DEF FailTx, Rest
<1>2. StackInOrder /\ i \in 1..Len(stack)
  BY StackOf DEF Inv
<1>3. S = Entries(stack, i) /\ S \subseteq DOMAIN pending
  BY <1>1, <1>2 DEF Entries, StackInOrder
<1> HIDE DEF S
<1>4. heads' \in [Keys -> Versions]
  BY <1>1 DEF Inv, Tables
<1>5. /\ Tables' /\ PendingApart' /\ MutationsDurable' /\ Sending' /\ LateSent'
      /\ DOMAIN pending' = DOMAIN pending \ S /\ UNCHANGED D!dvars
  BY <1>1, <1>3, <1>4, FailAllStep DEF FailAll
<1>6. StackInOrder'
  BY <1>1, <1>2, <1>3, <1>5, StackPopped
<1>7. QED
  BY <1>5, <1>6 DEF StepOK, Inv

-----------------------------------------------------------------------------
(* pushOutbox.                                                             *)

(* A batch is made of whole groups of committed events.                    *)
LEMMA NextBatchSent ==
  ASSUME Tables, NEW S, S \subseteq DOMAIN outbox
  PROVE  /\ Sent(NextBatch(S), Held)
         /\ Eids(Events(NextBatch(S))) \subseteq S
<1> DEFINE events == {Body(e) : e \in S}
<1>1. \A e \in S : Body(e).eid = e /\ Body(e).seq = e /\ e \in Nat /\ e \in Held
  BY ConfigsAssumption DEF Body, Tables, Partial, Ids, Held
<1>2. \A b \in events : b.eid \in S /\ b.seq \in Nat /\ b.eid \in Held
  BY <1>1
<1>3. \A b, c \in events : b.seq = c.seq => b = c
  BY <1>1
<1> HIDE DEF events
<1>4. ASSUME NEW b \in events PROVE SameRun(events, b, b)
  BY <1>2, <1>3 DEF SameRun
<1>5. \A g \in Groups(events) : g # {} /\ g \subseteq events
  BY <1>4 DEF Groups
<1>6. NextBatch(S) \subseteq Groups(events)
  BY DEF NextBatch, events
<1>7. QED
  BY <1>2, <1>5, <1>6 DEF Sent, Eids, Events

(* A charged row is a row.                                                 *)
LEMMA ChargedType ==
  ASSUME NEW e, Partial(outbox, Ids, Row), e \in DOMAIN outbox
  PROVE  /\ Charged(outbox[e]) \in Row /\ Charged(outbox[e]).synced = outbox[e].synced
         /\ [Charged(outbox[e]) EXCEPT !.wait = 0] \in Row
         /\ [Charged(outbox[e]) EXCEPT !.wait = 0].synced = outbox[e].synced
<1>1. outbox[e] \in Row /\ 0 \in 0..MaxDelay /\ MaxAttempts \in Nat
  BY ConfigsAssumption DEF Partial
<1>2. Charged(outbox[e]) \in Row /\ Charged(outbox[e]).synced = outbox[e].synced
  BY <1>1 DEF Charged, Row
<1>3. QED
  BY <1>1, <1>2 DEF Row

(* Rows that only wait or are charged differently are as queued as before. *)
LEMMA SameQueue ==
  ASSUME DOMAIN outbox' = DOMAIN outbox,
         \A e \in DOMAIN outbox : outbox'[e].synced = outbox[e].synced
  PROVE  Unsynced' = Unsynced
BY DEF Unsynced

(* A step in which rows wait or are charged, and the push goes on.         *)
LEMMA RowsStep ==
  ASSUME Inv, Aside, log' = log, dead' = dead, heads' = heads, Sending', LateSent',
         DOMAIN outbox' = DOMAIN outbox, Partial(outbox', Ids, Row), Unsynced' = Unsynced
  PROVE  StepOK
<1>1. Held' = Held /\ Stored' = Stored
  BY HeldSame
<1>2. Partial(dead', Ids, Row) /\ heads' \in [Keys -> Versions]
  BY DEF Inv, Tables
<1>3. Tables' /\ StackInOrder' /\ PendingApart' /\ MutationsDurable'
  BY <1>1, <1>2, CallsKept
<1>4. UNCHANGED D!dvars
  BY <1>1, QuietStep
<1>5. QED
  BY <1>3, <1>4 DEF StepOK, Inv

(* Nothing in hand.                                                        *)
LEMMA NothingInHand ==
  ASSUME push' = PushIn("idle") \/ push' = PushIn("pull")
  PROVE  Sending'
<1>0. PICK phase \in {"idle", "pull"} : push' = PushIn(phase)
  OBVIOUS
<1>1. /\ push' = [phase |-> phase, due |-> {}, open |-> {}, answer |-> Empty]
      /\ DOMAIN Empty = {}
  BY <1>0 DEF PushIn, Empty
<1>2. /\ push'.phase = phase /\ push'.due = {} /\ push'.open = {} /\ DOMAIN push'.answer = {}
  BY <1>1
<1>3. Eids(Events({})) = {}
  BY DEF Eids, Events
<1>4. QED
  BY <1>1, <1>2, <1>3 DEF Sending, Sent

(* The requests given up on stay what they are.                            *)
LEMMA LateKept ==
  ASSUME Inv, \A r \in late' : r \in late \/ (r # {} /\ r = push.open), Held \subseteq Held'
  PROVE  LateSent'
<1>1. \A r \in late' : r # {} /\ Sent(r, Held)
  BY DEF Inv, Sending, LateSent
<1>2. QED
  BY <1>1 DEF LateSent, Sent

(* The next batch is charged and on its way.                               *)
LEMMA SendOrPullStep ==
  ASSUME Inv, NEW S \in SUBSET Unsynced, SendOrPull(S), Aside,
         UNCHANGED <<log, dead, heads, late>>
  PROVE  StepOK
<1>1. Partial(outbox, Ids, Row)
  BY DEF Inv, Tables
<1>2. CASE S = {}
  <2>1. push' = PushIn("pull") /\ outbox' = outbox
    BY <1>2 DEF SendOrPull, Pulling
  <2>2. Unsynced' = Unsynced /\ Held' = Held
    BY <2>1, HeldSame DEF Unsynced
  <2>3. Sending' /\ LateSent'
    BY <2>1, <2>2, NothingInHand, LateKept
  <2>4. QED
    BY <1>1, <2>1, <2>2, <2>3, RowsStep
<1>3. CASE S # {}
  <2> DEFINE batch == NextBatch(S)
             sent  == Eids(Events(batch))
  <2>1. /\ outbox' = [e \in DOMAIN outbox |->
                        IF e \in sent THEN [Charged(outbox[e]) EXCEPT !.wait = 0] ELSE outbox[e]]
        /\ push' = [phase |-> "waiting", due |-> S \ sent, open |-> batch, answer |-> Empty]
    BY <1>3 DEF SendOrPull, SendBatch
  <2>2. S \subseteq DOMAIN outbox
    BY DEF Unsynced
  <2>3. Sent(batch, Held) /\ sent \subseteq S
    BY <2>2, NextBatchSent DEF Inv
  <2> HIDE DEF sent
  <2>4. \A e \in DOMAIN outbox : outbox'[e] \in Row /\ outbox'[e].synced = outbox[e].synced
    BY <1>1, <2>1, ChargedType DEF Partial
  <2>5. DOMAIN outbox' = DOMAIN outbox /\ Partial(outbox', Ids, Row)
    BY <1>1, <2>1, <2>4 DEF Partial
  <2>6. Unsynced' = Unsynced /\ Held' = Held
    BY <2>4, <2>5, SameQueue, HeldSame
  <2> HIDE DEF batch
  <2>7. /\ push'.phase = "waiting" /\ push'.due = S \ sent /\ push'.open = batch
        /\ DOMAIN push'.answer = {}
    BY <2>1 DEF Empty
  <2>8. Eids(Events(push'.open)) = sent
    BY <2>7 DEF sent, batch
  <2>9. Sending'
    BY <2>1, <2>3, <2>6, <2>7, <2>8 DEF Sending
  <2>10. LateSent'
    BY <2>6, LateKept
  <2>11. QED
    BY <2>5, <2>6, <2>9, <2>10, RowsStep
<1>4. QED
  BY <1>2, <1>3

(* The engine begins a sync, and goes on to the next batch.                *)
LEMMA NextBatchStep ==
  ASSUME Inv, StartPush \/ ContinuePush
  PROVE  StepOK
<1>1. CASE StartPush
  <2>1. Due \in SUBSET Unsynced
    BY DEF Due
  <2>2. QED
    BY <1>1, <2>1, SendOrPullStep DEF StartPush
<1>2. CASE ContinuePush
  <2>1. push.due \in SUBSET Unsynced
    BY DEF Inv, Sending
  <2>2. QED
    BY <1>2, <2>1, SendOrPullStep DEF ContinuePush
<1>3. QED
  BY <1>1, <1>2

(* A step of the push that leaves the outbox alone.                        *)
LEMMA InHandStep ==
  ASSUME Inv, Aside, UNCHANGED <<log, outbox, dead, heads>>, Sending', LateSent'
  PROVE  StepOK
<1>1. Unsynced' = Unsynced /\ Partial(outbox', Ids, Row)
  BY DEF Unsynced, Inv, Tables
<1>2. QED
  BY <1>1, RowsStep

(* The end of a sync, and a push that a record left behind breaks off.     *)
LEMMA OverStep ==
  ASSUME Inv, EndSync \/ (\E e \in Ids : ParkThrows(e))
  PROVE  StepOK
<1>1. /\ push' = PushIn("idle") \/ push' = PushIn("pull")
      /\ Aside /\ UNCHANGED <<log, outbox, dead, heads, late>>
  BY DEF EndSync, ParkThrows, Resting, Pulling
<1>2. Held' = Held
  BY <1>1, HeldSame
<1>3. Sending' /\ LateSent'
  BY <1>1, <1>2, NothingInHand, LateKept
<1>4. QED
  BY <1>1, <1>3, InHandStep

(* The answer is complete, or the transport threw.                         *)
LEMMA AnsweredStep ==
  ASSUME Inv, ReceiveReply \/ TransportError
  PROVE  StepOK
<1>1. /\ Aside /\ UNCHANGED <<log, outbox, dead, heads>>
      /\ push.phase = "waiting" /\ (late' = late \/ late' \in Abandoned)
  BY DEF ReceiveReply, TransportError
<1>2. Held' = Held /\ Unsynced' = Unsynced /\ DOMAIN log' = DOMAIN log
  BY <1>1, HeldSame DEF Unsynced
<1>3. LateSent'
  <2>1. \A r \in late' : r \in late \/ (r # {} /\ r = push.open)
    BY <1>1 DEF Abandoned
  <2>2. QED
    BY <1>2, <2>1, LateKept
<1>4. Sending
  BY DEF Inv
<1>5. CASE ReceiveReply
  <2>1. /\ push.open = {}
        /\ push' = [phase |-> "apply", due |-> push.due, open |-> push.open, answer |-> push.answer]
    BY <1>4, <1>5 DEF ReceiveReply, Sending
  <2>2. push'.phase = "apply" /\ push'.due = push.due /\ push'.open = push.open
        /\ push'.answer = push.answer
    BY <2>1
  <2>3. Sending'
    BY <1>2, <1>4, <2>1, <2>2 DEF Sending
  <2>4. QED
    BY <1>1, <1>3, <2>3, InHandStep
<1>6. CASE TransportError
  <2> DEFINE S == DOMAIN push.answer \cup Eids(Events(push.open))
  <2>1. push' = [phase |-> "apply", due |-> {}, open |-> {}, answer |-> [e \in S |-> "unsent"]]
    BY <1>6 DEF TransportError
  <2>2. S \subseteq Unsynced
    BY <1>4 DEF Sending
  <2> HIDE DEF S
  <2>3. /\ push'.phase = "apply" /\ push'.due = {} /\ push'.open = {} /\ DOMAIN push'.answer = S
        /\ \A e \in S : push'.answer[e] = "unsent"
    BY <2>1
  <2>4. Eids(Events({})) = {}
    BY DEF Eids, Events
  <2>5. Sending'
    BY <1>2, <2>1, <2>2, <2>3, <2>4 DEF Sending, Sent
  <2>6. QED
    BY <1>1, <1>3, <2>5, InHandStep
<1>7. QED
  BY <1>5, <1>6

(* The server takes a group of a request: it stores what was committed.    *)
LEMMA ServedStep ==
  ASSUME Inv, NEW group, Eids(group) \subseteq Held,
         NEW result \in ServerResults(group, config.faults), log' = result.log,
         Aside, UNCHANGED <<outbox, dead, heads>>, Sending', LateSent'
  PROVE  StepOK
<1>1. DOMAIN log \subseteq DOMAIN log' /\ DOMAIN log' \subseteq DOMAIN log \cup Eids(group)
  BY ServerKeeps
<1>2. Stored \subseteq Stored' /\ Stored' \subseteq Held
  BY <1>1 DEF Stored, Held
<1>3. Held' = Held
  BY <1>2 DEF Held
<1>4. Tables' /\ StackInOrder' /\ PendingApart' /\ MutationsDurable'
  <2>1. Partial(outbox', Ids, Row) /\ Partial(dead', Ids, Row) /\ heads' \in [Keys -> Versions]
    BY DEF Inv, Tables
  <2>2. QED
    BY <1>3, <2>1, CallsKept
<1>5. D!Store
  BY <1>2, <1>3, StoreStep
<1>6. QED
  BY <1>4, <1>5 DEF StepOK, Inv, D!Next

(* What a group of a request carries.                                      *)
LEMMA GroupHeld ==
  ASSUME NEW r, NEW H, Sent(r, H), NEW g \in r
  PROVE  /\ Eids(g) \subseteq H /\ Eids(g) \subseteq Eids(Events(r))
         /\ Sent(r \ {g}, H) /\ Eids(Events(r \ {g})) \subseteq Eids(Events(r))
<1>1. Eids(g) \subseteq H /\ Sent(r \ {g}, H)
  BY DEF Sent, Eids
<1>2. Eids(g) \subseteq Eids(Events(r))
  BY DEF Eids, Events
<1>3. Eids(Events(r \ {g})) \subseteq Eids(Events(r))
  BY DEF Eids, Events
<1>4. QED
  BY <1>1, <1>2, <1>3

(* The server takes the next group of the request on its way.              *)
LEMMA ServePushStep ==
  ASSUME Inv, ServePush
  PROVE  StepOK
<1> DEFINE g == Head1(push.open)
<1>1. /\ push.phase = "waiting" /\ push.open # {} /\ Aside
      /\ UNCHANGED <<outbox, dead, heads, late>>
  BY DEF ServePush
<1>2. PICK result \in ServerResults(g, config.faults) :
        /\ log' = result.log
        /\ push' = [push EXCEPT !.open = @ \ {g}, !.answer = Join(@, result.answer)]
  BY DEF ServePush
<1>3. Sending /\ Sent(push.open, Held)
  BY DEF Inv, Sending
<1>4. g \in push.open
  BY <1>1, <1>3, Head1In
<1> HIDE DEF g
<1>5. /\ Eids(g) \subseteq Held /\ Eids(g) \subseteq Eids(Events(push.open))
      /\ Sent(push.open \ {g}, Held)
      /\ Eids(Events(push.open \ {g})) \subseteq Eids(Events(push.open))
  BY <1>3, <1>4, GroupHeld
<1>6. /\ DOMAIN log \subseteq DOMAIN log' /\ DOMAIN log' \subseteq DOMAIN log \cup Eids(g)
      /\ DOMAIN result.answer = Eids(g)
      /\ \A e \in Eids(g) : result.answer[e] = "confirmed" => e \in DOMAIN log'
  BY <1>2, ServerKeeps
<1>7. Held' = Held /\ Unsynced' = Unsynced
  BY <1>1, <1>5, <1>6 DEF Held, Stored, Unsynced
<1> DEFINE answer == Join(push.answer, result.answer)
<1>8. /\ DOMAIN answer = DOMAIN push.answer \cup Eids(g)
      /\ \A e \in DOMAIN answer : answer[e] = IF e \in Eids(g) THEN result.answer[e]
                                                              ELSE push.answer[e]
  BY <1>6 DEF Join
<1>9. push' = [phase |-> "waiting", due |-> push.due, open |-> push.open \ {g}, answer |-> answer]
  BY <1>1, <1>2, <1>3 DEF Sending
<1> HIDE DEF answer
<1>10. /\ push'.phase = "waiting" /\ push'.due = push.due /\ push'.open = push.open \ {g}
       /\ push'.answer = answer
  BY <1>9
<1>11. \A e \in DOMAIN answer : answer[e] = "confirmed" => e \in DOMAIN log'
  BY <1>3, <1>6, <1>8 DEF Sending
<1>12. Sending'
  <2>1. Eids(Events(push'.open)) \subseteq Eids(Events(push.open))
    BY <1>5, <1>10
  <2>2. DOMAIN push'.answer \subseteq Unsynced
        /\ push'.due \cap (DOMAIN push'.answer \cup Eids(Events(push'.open))) = {}
    BY <1>3, <1>5, <1>8, <1>10, <2>1 DEF Sending
  <2>3. /\ push' = [phase |-> push'.phase, due |-> push'.due, open |-> push'.open,
                    answer |-> push'.answer]
        /\ push'.phase = "waiting" /\ Sent(push'.open, Held') /\ push'.due \subseteq Unsynced'
    BY <1>3, <1>5, <1>7, <1>9, <1>10 DEF Sending
  <2>4. Eids(Events(push'.open)) \subseteq Unsynced' /\ DOMAIN push'.answer \subseteq Unsynced'
    BY <1>3, <1>7, <2>1, <2>2 DEF Sending
  <2>5. \A e \in DOMAIN push'.answer : push'.answer[e] = "confirmed" => e \in DOMAIN log'
    BY <1>10, <1>11
  <2>6. push'.answer = [e \in DOMAIN push'.answer |-> push'.answer[e]]
    BY <1>10 DEF answer, Join
  <2>7. QED
    BY <2>2, <2>3, <2>4, <2>5, <2>6 DEF Sending
<1>13. LateSent'
  BY <1>1, <1>7, LateKept
<1>14. QED
  BY <1>1, <1>2, <1>5, <1>12, <1>13, ServedStep

(* A request given up on reaches the server.                               *)
LEMMA ServeLateStep ==
  ASSUME Inv, ServeLate
  PROVE  StepOK
<1>1. Aside /\ UNCHANGED <<outbox, dead, heads, push>>
  BY DEF ServeLate
<1>2. PICK r \in late :
        /\ late' = (late \ {r}) \cup (IF r = {Head1(r)} THEN {} ELSE {r \ {Head1(r)}})
        /\ \E result \in ServerResults(Head1(r), config.faults) : log' = result.log
  BY DEF ServeLate
<1>3. PICK result \in ServerResults(Head1(r), config.faults) : log' = result.log
  BY <1>2
<1>4. r # {} /\ Sent(r, Held) /\ Sending /\ LateSent
  BY DEF Inv, LateSent
<1>5. Head1(r) \in r
  BY <1>4, Head1In
<1>6. Eids(Head1(r)) \subseteq Held /\ Sent(r \ {Head1(r)}, Held)
  BY <1>4, <1>5, GroupHeld
<1>7. DOMAIN log \subseteq DOMAIN log' /\ DOMAIN log' \subseteq DOMAIN log \cup Eids(Head1(r))
  BY <1>3, ServerKeeps
<1>8. Held' = Held /\ Unsynced' = Unsynced
  BY <1>1, <1>6, <1>7 DEF Held, Stored, Unsynced
<1>9. \A q \in late' : q # {} /\ Sent(q, Held)
  BY <1>2, <1>4, <1>5, <1>6 DEF LateSent
<1>10. LateSent'
  BY <1>8, <1>9 DEF LateSent
<1>11. Sending'
  BY <1>1, <1>4, <1>7, <1>8 DEF Sending
<1>12. QED
  BY <1>1, <1>3, <1>6, <1>10, <1>11, ServedStep

(* The event to apply has an answer.                                       *)
LEMMA ToApplyIn ==
  ASSUME Inv, NEW e, Applying(e)
  PROVE  e \in DOMAIN push.answer /\ e \in Unsynced /\ e \in DOMAIN outbox
<1> DEFINE yes == {x \in DOMAIN push.answer : push.answer[x] = "confirmed"}
           S   == IF yes # {} THEN yes ELSE DOMAIN push.answer
<1>1. DOMAIN push.answer \subseteq Unsynced /\ Unsynced \subseteq Ids
  BY DEF Inv, Sending, Tables, Partial, Unsynced
<1>2. S \subseteq DOMAIN push.answer
  OBVIOUS
<1>3. e = CHOOSE x \in S : \A y \in S : x <= y
  BY DEF Applying, ToApply
<1> HIDE DEF S
<1>4. Ids \subseteq Nat
  BY ConfigsAssumption DEF Ids
<1>5. S # {} => \E x \in S : \A y \in S : x <= y
  BY <1>1, <1>2, <1>4, MinExists
<1>6. S # {}
  <2>1. push.answer # Empty /\ push.answer = [x \in DOMAIN push.answer |-> push.answer[x]]
    BY DEF Applying, Inv, Sending
  <2>2. DOMAIN push.answer # {}
    BY <2>1 DEF Empty
  <2>3. QED
    BY <2>2 DEF S
<1>7. e \in S
  BY <1>3, <1>5, <1>6
<1>8. QED
  BY <1>1, <1>2, <1>7 DEF Unsynced

(* The answer for one event is struck off.                                 *)
LEMMA StruckOff ==
  ASSUME Inv, NEW e, Applying(e), Applied(e), log' = log, Held' = Held,
         Unsynced \ {e} \subseteq Unsynced'
  PROVE  Sending'
<1> DEFINE answer == Without(push.answer, {e})
<1>1. Sending /\ push.phase = "apply" /\ push.open = {}
  BY DEF Inv, Sending, Applying
<1>2. /\ DOMAIN answer = DOMAIN push.answer \ {e}
      /\ \A x \in DOMAIN answer : answer[x] = push.answer[x]
      /\ answer = [x \in DOMAIN answer |-> answer[x]]
  BY DEF Without
<1>3. e \in DOMAIN push.answer
  BY ToApplyIn
<1>4. push' = [phase |-> "apply", due |-> push.due, open |-> push.open, answer |-> answer]
  BY <1>1 DEF Applied, Sending
<1> HIDE DEF answer
<1>5. push'.phase = "apply" /\ push'.due = push.due /\ push'.open = {} /\ push'.answer = answer
  BY <1>1, <1>4
<1>6. Eids(Events({})) = {}
  BY DEF Eids, Events
<1>7. push.due \subseteq Unsynced' /\ DOMAIN answer \subseteq Unsynced'
  BY <1>1, <1>2, <1>3 DEF Sending
<1>8. push.due \cap DOMAIN answer = {}
  BY <1>1, <1>2 DEF Sending
<1>9. \A x \in DOMAIN answer : answer[x] = "confirmed" => x \in DOMAIN log'
  BY <1>1, <1>2 DEF Sending
<1>10. push' = [phase |-> push'.phase, due |-> push'.due, open |-> push'.open,
                answer |-> push'.answer]
  BY <1>1, <1>4, <1>5
<1>11. QED
  BY <1>2, <1>5, <1>6, <1>7, <1>8, <1>9, <1>10 DEF Sending, Sent

(* markOutboxSynced: the server holds the event.                           *)
LEMMA ConfirmStep ==
  ASSUME Inv, NEW e \in Ids, Confirm(e)
  PROVE  StepOK
<1>1. /\ Applying(e) /\ push.answer[e] = "confirmed"
      /\ outbox' = [outbox EXCEPT ![e].synced = TRUE, ![e].wait = 0]
      /\ Applied(e) /\ UNCHANGED <<log, dead, heads, late>> /\ Aside
  BY DEF Confirm
<1>2. e \in DOMAIN push.answer /\ e \in Unsynced /\ e \in DOMAIN outbox
  BY <1>1, ToApplyIn
<1>3. Partial(outbox, Ids, Row)
  BY DEF Inv, Tables
<1>4. outbox[e] \in Row /\ 0 \in 0..MaxDelay
  BY <1>2, <1>3, ConfigsAssumption DEF Partial
<1>5. /\ DOMAIN outbox' = DOMAIN outbox /\ outbox'[e].synced /\ outbox'[e] \in Row
      /\ \A f \in DOMAIN outbox \ {e} : outbox'[f] = outbox[f]
  BY <1>1, <1>2, <1>4 DEF Row
<1>6. Partial(outbox', Ids, Row)
  BY <1>3, <1>5 DEF Partial
<1>7. Unsynced' = Unsynced \ {e} /\ Confirmed' = Confirmed \cup {e}
  BY <1>2, <1>5 DEF Unsynced, Confirmed
<1>8. Held' = Held /\ Stored' = Stored
  BY <1>1, <1>5, HeldSame
<1>9. Tables' /\ StackInOrder' /\ PendingApart' /\ MutationsDurable'
  <2>1. Partial(dead', Ids, Row) /\ heads' \in [Keys -> Versions]
    BY <1>1 DEF Inv, Tables
  <2>2. QED
    BY <1>1, <1>5, <1>6, <1>8, <2>1, CallsKept
<1>10. Sending' /\ LateSent'
  BY <1>1, <1>7, <1>8, StruckOff, LateKept
<1>11. e \in Stored
  BY <1>1, <1>2 DEF Inv, Sending, Stored
<1>12. D!Settle
  <2> DEFINE no == {}
  <2>1. /\ {e} \in SUBSET (Unsynced \cap Stored) /\ no \in SUBSET (Unsynced \ {e})
        /\ no \in SUBSET no
        /\ Unsynced' = (Unsynced \ {e}) \ no /\ DOMAIN dead' = DOMAIN dead \cup no
    BY <1>1, <1>2, <1>7, <1>11
  <2> HIDE DEF no
  <2>2. QED
    BY <1>7, <1>8, <2>1, SettleStep
<1>13. QED
  BY <1>9, <1>10, <1>12 DEF StepOK, Inv, D!Next

(* backoffBatch: the event waits.                                          *)
LEMMA BackOffStep ==
  ASSUME Inv, NEW e \in Ids, BackOff(e)
  PROVE  StepOK
<1>1. /\ Applying(e) /\ outbox' = [outbox EXCEPT ![e].wait = Delay(outbox[e].attempts)]
      /\ Applied(e) /\ UNCHANGED <<log, dead, heads, late>> /\ Aside
  BY DEF BackOff
<1>2. e \in DOMAIN outbox /\ Partial(outbox, Ids, Row)
  BY <1>1, ToApplyIn DEF Inv, Tables
<1>3. outbox[e] \in Row /\ Delay(outbox[e].attempts) \in 0..MaxDelay
  <2>1. outbox[e] \in Row
    BY <1>2 DEF Partial
  <2>2. outbox[e].attempts \in Nat
    BY <2>1 DEF Row
  <2>3. Delay(outbox[e].attempts) \in 0..MaxDelay
    BY <2>2, DelayType
  <2>4. QED
    BY <2>1, <2>3
<1>4. /\ DOMAIN outbox' = DOMAIN outbox /\ outbox'[e] \in Row
      /\ outbox'[e].synced = outbox[e].synced
      /\ \A f \in DOMAIN outbox \ {e} : outbox'[f] = outbox[f]
  BY <1>1, <1>2, <1>3 DEF Row
<1>5. Partial(outbox', Ids, Row)
  BY <1>2, <1>4 DEF Partial
<1>6. Unsynced' = Unsynced /\ Held' = Held
  BY <1>1, <1>4, SameQueue, HeldSame
<1>7. Sending' /\ LateSent'
  BY <1>1, <1>6, StruckOff, LateKept
<1>8. QED
  BY <1>1, <1>4, <1>5, <1>6, <1>7, RowsStep

(* deadLetter: the record holds what leaves the outbox.                    *)
LEMMA RecordedType ==
  ASSUME Tables, NEW e \in DOMAIN outbox
  PROVE  /\ Partial(Recorded(e), Ids, Row) /\ DOMAIN Recorded(e) = DOMAIN dead \cup {e}
         /\ Partial(Without(outbox, {e}), Ids, Row)
         /\ DOMAIN Without(outbox, {e}) = DOMAIN outbox \ {e}
         /\ \A f \in DOMAIN outbox \ {e} : Without(outbox, {e})[f] = outbox[f]
<1>1. Partial(dead, Ids, Row) /\ Partial(outbox, Ids, Row)
  BY DEF Tables
<1>2. /\ Partial(Only(outbox, {e}), Ids, Row) /\ DOMAIN Only(outbox, {e}) = {e}
  BY <1>1 DEF Only, Partial
<1>3. Partial(Recorded(e), Ids, Row) /\ DOMAIN Recorded(e) = DOMAIN dead \cup {e}
  BY <1>1, <1>2 DEF Recorded, Join, Partial
<1>4. /\ Partial(Without(outbox, {e}), Ids, Row)
      /\ DOMAIN Without(outbox, {e}) = DOMAIN outbox \ {e}
      /\ \A f \in DOMAIN outbox \ {e} : Without(outbox, {e})[f] = outbox[f]
  BY <1>1 DEF Without, Partial
<1>5. QED
  BY <1>3, <1>4

(* A queued event is parked; the row goes, or a crash leaves it.           *)
LEMMA ParkedStep ==
  ASSUME Inv, NEW e \in Unsynced, dead' = Recorded(e), log' = log,
         outbox' = outbox \/ outbox' = Without(outbox, {e})
  PROVE  /\ Partial(outbox', Ids, Row) /\ Partial(dead', Ids, Row)
         /\ DOMAIN outbox' \cup DOMAIN dead' = DOMAIN outbox \cup DOMAIN dead
         /\ Held' = Held /\ Unsynced \ {e} \subseteq Unsynced' /\ D!Settle
<1>1. e \in DOMAIN outbox /\ ~outbox[e].synced
  BY DEF Unsynced
<1>2. /\ Partial(Recorded(e), Ids, Row) /\ DOMAIN Recorded(e) = DOMAIN dead \cup {e}
      /\ Partial(Without(outbox, {e}), Ids, Row)
      /\ DOMAIN Without(outbox, {e}) = DOMAIN outbox \ {e}
      /\ \A f \in DOMAIN outbox \ {e} : Without(outbox, {e})[f] = outbox[f]
  BY <1>1, RecordedType DEF Inv
<1>3. Partial(outbox', Ids, Row) /\ Partial(dead', Ids, Row)
  BY <1>2 DEF Inv, Tables
<1>4. DOMAIN outbox' \cup DOMAIN dead' = DOMAIN outbox \cup DOMAIN dead
  BY <1>1, <1>2
<1>5. Held' = Held /\ Stored' = Stored
  BY <1>4, HeldSame
<1>6. PICK gone \in SUBSET {e} : DOMAIN outbox' = DOMAIN outbox \ gone
                                 /\ \A f \in DOMAIN outbox' : outbox'[f] = outbox[f]
  <2>1. CASE outbox' = outbox
    <3>1. {} \in SUBSET {e} /\ DOMAIN outbox' = DOMAIN outbox \ {}
          /\ \A f \in DOMAIN outbox' : outbox'[f] = outbox[f]
      BY <2>1
    <3>2. QED
      BY <3>1
  <2>2. CASE outbox' = Without(outbox, {e})
    <3>1. {e} \in SUBSET {e} /\ DOMAIN outbox' = DOMAIN outbox \ {e}
          /\ \A f \in DOMAIN outbox' : outbox'[f] = outbox[f]
      BY <1>2, <2>2
    <3>2. QED
      BY <3>1
  <2>3. QED
    BY <2>1, <2>2
<1>7. Unsynced' = (Unsynced \ {}) \ gone /\ Confirmed' = Confirmed \cup {}
  BY <1>1, <1>6 DEF Unsynced, Confirmed
<1>8. D!Settle
  <2>1. {} \in SUBSET (Unsynced \cap Stored) /\ {e} \in SUBSET (Unsynced \ {})
        /\ DOMAIN dead' = DOMAIN dead \cup {e}
    BY <1>2
  <2>2. QED
    BY <1>5, <1>6, <1>7, <2>1, SettleStep
<1>9. QED
  BY <1>3, <1>4, <1>5, <1>6, <1>7, <1>8

(* restoreRowVersion writes an eventId or "".                              *)
LEMMA RestoredType ==
  ASSUME Tables, NEW e \in DOMAIN outbox
  PROVE  Restored(e) \in [Keys -> Versions]
<1>1. outbox[e].base \in Versions
  BY DEF Tables, Partial, Row
<1>2. QED
  BY <1>1 DEF Restored, Tables

(* A refused event is parked.                                              *)
LEMMA ParkStep ==
  ASSUME Inv, NEW e \in Ids, Park(e)
  PROVE  StepOK
<1>1. /\ Applying(e) /\ dead' = Recorded(e) /\ outbox' = Without(outbox, {e})
      /\ heads' = Restored(e) /\ Applied(e) /\ UNCHANGED <<log, late>> /\ Aside
  BY DEF Park
<1>2. e \in Unsynced /\ e \in DOMAIN outbox
  BY <1>1, ToApplyIn
<1>3. /\ Partial(outbox', Ids, Row) /\ Partial(dead', Ids, Row)
      /\ DOMAIN outbox' \cup DOMAIN dead' = DOMAIN outbox \cup DOMAIN dead
      /\ Held' = Held /\ Unsynced \ {e} \subseteq Unsynced' /\ D!Settle
  BY <1>1, <1>2, ParkedStep
<1>4. heads' \in [Keys -> Versions]
  BY <1>1, <1>2, RestoredType DEF Inv
<1>5. Tables' /\ StackInOrder' /\ PendingApart' /\ MutationsDurable'
  BY <1>1, <1>3, <1>4, CallsKept
<1>6. Sending' /\ LateSent'
  BY <1>1, <1>3, StruckOff, LateKept
<1>7. QED
  BY <1>3, <1>5, <1>6 DEF StepOK, Inv, D!Next

(* Time passes.                                                            *)
LEMMA BackoffTickStep ==
  ASSUME Inv, BackoffTick
  PROVE  StepOK
<1>1. /\ outbox' = [e \in DOMAIN outbox |->
                     [outbox[e] EXCEPT !.wait = IF @ > 0 THEN @ - 1 ELSE 0]]
      /\ UNCHANGED <<log, dead, heads, push, late>> /\ Aside
  BY DEF BackoffTick
<1>2. Partial(outbox, Ids, Row)
  BY DEF Inv, Tables
<1>3. ASSUME NEW e \in DOMAIN outbox
      PROVE  outbox'[e] \in Row /\ outbox'[e].synced = outbox[e].synced
  <2>1. outbox[e] \in Row /\ MaxDelay \in Nat
    BY <1>2, ConfigsAssumption DEF Partial
  <2>2. (IF outbox[e].wait > 0 THEN outbox[e].wait - 1 ELSE 0) \in 0..MaxDelay
    BY <2>1 DEF Row
  <2>3. QED
    BY <1>1, <2>1, <2>2 DEF Row
<1>4. DOMAIN outbox' = DOMAIN outbox /\ Partial(outbox', Ids, Row)
  BY <1>1, <1>2, <1>3 DEF Partial
<1>5. Unsynced' = Unsynced /\ Held' = Held
  BY <1>1, <1>3, <1>4, SameQueue, HeldSame
<1>6. Sending' /\ LateSent'
  BY <1>1, <1>5, PushKept DEF Inv
<1>7. QED
  BY <1>1, <1>4, <1>5, <1>6, RowsStep

-----------------------------------------------------------------------------
(* Other devices, and crashes.                                             *)

(* Another device's event is not one of this device's.                     *)
LEMMA ForeignStep ==
  ASSUME Inv, NEW f \in ForeignIds, NEW k \in Keys, Foreign(f, k)
  PROVE  StepOK
<1>1. UNCHANGED <<outbox, dead, heads, push, late>> /\ Aside
  BY DEF Foreign
<1>2. PICK type \in MutationTypes :
        log' = Appended({[eid |-> f, tx |-> f, key |-> k, type |-> type, val |-> f,
                          base |-> NoEvent, seq |-> f]})
  BY DEF Foreign
<1>3. DOMAIN log' = DOMAIN log \cup {f}
  BY <1>2 DEF Appended, Eids
<1>4. f \notin Ids
  BY ForeignApart
<1>5. Stored' = Stored /\ Held' = Held /\ Unsynced' = Unsynced
  BY <1>1, <1>3, <1>4 DEF Stored, Held, Unsynced
<1>6. Tables' /\ StackInOrder' /\ PendingApart' /\ MutationsDurable'
  <2>1. Partial(outbox', Ids, Row) /\ Partial(dead', Ids, Row) /\ heads' \in [Keys -> Versions]
    BY <1>1 DEF Inv, Tables
  <2>2. QED
    BY <1>1, <1>5, <2>1, CallsKept
<1>7. Sending' /\ LateSent'
  BY <1>1, <1>3, <1>5, PushKept DEF Inv
<1>8. UNCHANGED D!dvars
  BY <1>1, <1>5, QuietStep
<1>9. QED
  BY <1>6, <1>7, <1>8 DEF StepOK, Inv

(* A replay writes the domain table and the versions only.                 *)
LEMMA ReplayStep ==
  ASSUME Inv, (\E f \in ForeignIds : ReplayRow(f)) \/ ReplayVersion
  PROVE  StepOK
<1>1. UNCHANGED <<log, config, outbox, dead, nextId, calls, push, late>>
  BY DEF ReplayRow, ReplayVersion
<1>2. /\ pending' = pending /\ stack' = stack /\ txs' = txs /\ unstamped' = unstamped
      /\ lost' = lost /\ cutOff' = cutOff
  BY <1>1 DEF calls
<1>3. Row' = Row /\ Keys' = Keys /\ Tx' = Tx /\ Unsynced' = Unsynced /\ Held' = Held
      /\ Stored' = Stored
  BY <1>1, ConfigKept DEF Unsynced, Held, Stored
<1>4. /\ rows' \in [Keys -> [val : Versions, live : BOOLEAN]]
      /\ heads' \in [Keys -> Versions]
      /\ replayed' \subseteq ForeignIds /\ halfway' \in Versions
  <2>1. CASE ReplayVersion
    <3>1. rows' = rows /\ replayed' = replayed /\ halfway' = NoEvent
          /\ heads' = [heads EXCEPT ![log[halfway].key] = halfway]
      BY <2>1 DEF ReplayVersion
    <3>2. QED
      BY <3>1 DEF Inv, Tables, Versions
  <2>2. ASSUME NEW f \in ForeignIds, ReplayRow(f)
        PROVE  /\ rows' \in [Keys -> [val : Versions, live : BOOLEAN]]
               /\ heads' \in [Keys -> Versions]
               /\ replayed' \subseteq ForeignIds /\ halfway' \in Versions
    <3> DEFINE row == [val |-> f, live |-> log[f].type # "delete"]
    <3>1. /\ rows' = rows \/ rows' = [rows EXCEPT ![log[f].key] = row]
          /\ halfway' \in {f, NoEvent} /\ replayed' = replayed \cup {f} /\ heads' = heads
      BY <2>2 DEF ReplayRow
    <3>2. row \in [val : Versions, live : BOOLEAN]
      BY DEF Versions, EventIds
    <3> HIDE DEF row
    <3>3. QED
      BY <3>1, <3>2 DEF Inv, Tables, Versions, EventIds
  <2>3. QED
    BY <2>1, <2>2
<1>5. Tables'
  BY <1>1, <1>2, <1>3, <1>4 DEF Inv, Tables
<1>6. StackInOrder' /\ PendingApart' /\ MutationsDurable'
  <2>1. StackInOrder'
    BY <1>1, <1>2, <1>3 DEF Inv, StackInOrder
  <2>2. PendingApart' /\ MutationsDurable'
    BY <1>1, <1>2, <1>3 DEF Inv, PendingApart, MutationsDurable
  <2>3. QED
    BY <2>1, <2>2
<1>7. Sending' /\ LateSent'
  BY <1>1, <1>3, PushKept DEF Inv
<1>8. UNCHANGED D!dvars
  BY <1>1, <1>3, QuietStep
<1>9. QED
  BY <1>5, <1>6, <1>7, <1>8 DEF StepOK, Inv

(* A restart: what was not committed is gone, and known to be.             *)
LEMMA RestartInv ==
  ASSUME Inv, Restart, Partial(outbox', Ids, Row), Partial(dead', Ids, Row),
         heads' = heads,
         DOMAIN outbox' \cup DOMAIN dead' = DOMAIN outbox \cup DOMAIN dead
  PROVE  Inv'
<1>1. /\ pending' = Empty /\ stack' = <<>> /\ unstamped' = {} /\ lost' = lost \cup DOMAIN pending
      /\ cutOff' = cutOff \cup unstamped
      /\ push' = PushIn("idle") /\ (late' = late \/ late' \in Abandoned)
      /\ UNCHANGED <<log, config, rows, nextId, txs, replayed, halfway>>
  BY DEF Restart, Resting
<1>2. Held' = Held /\ DOMAIN pending' = {} /\ Partial(pending', Ids, Row)
  BY <1>1, HeldSame DEF Empty, Partial
<1>3. Row' = Row /\ Keys' = Keys /\ Tx' = Tx
  BY <1>1, ConfigKept
<1>4. lost' \subseteq Ids /\ cutOff' \subseteq Ids
  BY <1>1 DEF Inv, Tables, Partial
<1>5. Tables'
  BY <1>1, <1>2, <1>3, <1>4 DEF Inv, Tables
<1>6. StackInOrder'
  <2>1. stack' \in Seq(Tx') /\ Len(stack') = 0
    BY <1>1
  <2>2. txs' \in 0..config'.runs
    BY <1>1 DEF Inv, StackInOrder
  <2>3. QED
    BY <2>1, <2>2 DEF StackInOrder
<1>7. PendingApart' /\ MutationsDurable'
  BY <1>1, <1>2 DEF Inv, PendingApart, MutationsDurable
<1>8. \A r \in late' : r \in late \/ (r # {} /\ r = push.open)
  BY <1>1 DEF Abandoned
<1>9. Sending' /\ LateSent'
  <2>1. Sending'
    BY <1>1, NothingInHand
  <2>2. \A r \in late' : r # {} /\ Sent(r, Held)
    BY <1>8 DEF Inv, Sending, LateSent
  <2>3. LateSent'
    BY <1>2, <2>2 DEF LateSent
  <2>4. QED
    BY <2>1, <2>3
<1>10. QED
  BY <1>5, <1>6, <1>7, <1>9 DEF Inv

(* A crash between the steps of the engine.                                *)
LEMMA CrashStep ==
  ASSUME Inv, Crash
  PROVE  StepOK
<1>1. Restart /\ UNCHANGED <<outbox, dead, heads>> /\ log' = log
  BY DEF Crash, Restart
<1>2. Inv'
  BY <1>1, RestartInv DEF Inv, Tables
<1>3. Held' = Held /\ Stored' = Stored /\ Unsynced' = Unsynced
  BY <1>1, HeldSame DEF Unsynced
<1>4. QED
  BY <1>1, <1>2, <1>3, QuietStep DEF StepOK

(* A crash while a dead letter is written.                                 *)
LEMMA CrashInParkStep ==
  ASSUME Inv, CrashInPark
  PROVE  StepOK
<1>1. PICK e \in Ids : /\ Applying(e) /\ dead' = Recorded(e)
                       /\ outbox' \in {outbox, Without(outbox, {e})}
  BY DEF CrashInPark
<1>2. Restart /\ heads' = heads /\ log' = log
  BY DEF CrashInPark, Restart
<1>3. e \in Unsynced
  BY <1>1, ToApplyIn
<1>4. /\ Partial(outbox', Ids, Row) /\ Partial(dead', Ids, Row)
      /\ DOMAIN outbox' \cup DOMAIN dead' = DOMAIN outbox \cup DOMAIN dead /\ D!Settle
  BY <1>1, <1>2, <1>3, ParkedStep
<1>5. Inv'
  BY <1>2, <1>4, RestartInv
<1>6. QED
  BY <1>4, <1>5 DEF StepOK, D!Next

(* A crash while a batch is charged its attempts.                          *)
LEMMA CrashInMarkStep ==
  ASSUME Inv, CrashInMark
  PROVE  StepOK
<1>1. Restart /\ dead' = dead /\ heads' = heads /\ log' = log
  BY DEF CrashInMark, Restart
<1>2. PICK T \in SUBSET Ids :
        outbox' = [f \in DOMAIN outbox |-> IF f \in T THEN Charged(outbox[f]) ELSE outbox[f]]
  <2> DEFINE sent == Eids(Events(NextBatch(ToMark)))
  <2>1. PICK e \in sent :
          outbox' = [f \in DOMAIN outbox |->
                       IF f \in sent /\ f <= e THEN Charged(outbox[f]) ELSE outbox[f]]
    BY DEF CrashInMark
  <2>2. ToMark \subseteq DOMAIN outbox /\ DOMAIN outbox \subseteq Ids
    BY DEF ToMark, Due, Unsynced, Inv, Tables, Partial, Sending
  <2>3. sent \subseteq Ids
    BY <2>2, NextBatchSent DEF Inv
  <2> HIDE DEF sent
  <2>4. {f \in sent : f <= e} \in SUBSET Ids
    BY <2>3
  <2>5. outbox' = [f \in DOMAIN outbox |->
                     IF f \in {g \in sent : g <= e} THEN Charged(outbox[f]) ELSE outbox[f]]
    BY <2>1
  <2>6. QED
    BY <2>4, <2>5
<1>3. Partial(outbox, Ids, Row) /\ Partial(dead, Ids, Row)
  BY DEF Inv, Tables
<1>4. \A f \in DOMAIN outbox : outbox'[f] \in Row /\ outbox'[f].synced = outbox[f].synced
  BY <1>2, <1>3, ChargedType DEF Partial
<1>5. DOMAIN outbox' = DOMAIN outbox /\ Partial(outbox', Ids, Row)
  BY <1>2, <1>3, <1>4 DEF Partial
<1>6. Inv'
  BY <1>1, <1>3, <1>5, RestartInv
<1>7. UNCHANGED D!dvars
  <2>1. Held' = Held /\ Stored' = Stored /\ Unsynced' = Unsynced
    BY <1>1, <1>4, <1>5, HeldSame, SameQueue
  <2>2. QED
    BY <1>1, <1>5, <2>1, QuietStep
<1>8. QED
  BY <1>6, <1>7 DEF StepOK

-----------------------------------------------------------------------------
(* The theorems.                                                           *)

(* A database that was never used promises what Delivery promises.         *)
LEMMA InitOK == Init => Inv /\ D!Init
<1> SUFFICES ASSUME Init PROVE Inv /\ D!Init
  OBVIOUS
<1>1. /\ DOMAIN log = {} /\ config \in Configs
      /\ rows = [k \in Keys |-> [val |-> NoEvent, live |-> FALSE]]
      /\ outbox = Empty /\ dead = Empty /\ heads = [k \in Keys |-> NoEvent] /\ nextId = 1
      /\ pending = Empty /\ stack = <<>> /\ txs = 0 /\ unstamped = {} /\ lost = {} /\ cutOff = {}
      /\ push = PushIn("idle") /\ late = {} /\ replayed = {} /\ halfway = NoEvent
  BY DEF Init, LogInit, Resting
<1>2. DOMAIN Empty = {} /\ Partial(Empty, Ids, Row)
  BY DEF Empty, Partial
<1>3. Held = {} /\ Stored = {} /\ Unsynced = {}
  BY <1>1, <1>2 DEF Held, Stored, Unsynced
<1>4. Tables
  <2>1. nextId \in 1..(MaxIds + 1)
    BY <1>1, ConfigsAssumption
  <2>2. rows \in [Keys -> [val : Versions, live : BOOLEAN]] /\ heads \in [Keys -> Versions]
        /\ halfway \in Versions
    BY <1>1 DEF Versions
  <2>3. QED
    BY <1>1, <1>2, <2>1, <2>2 DEF Tables
<1>5. StackInOrder
  <2>1. config.runs \in Nat
    BY <1>4, ConfigTyped
  <2>2. stack \in Seq(Tx) /\ Len(stack) = 0 /\ txs \in 0..config.runs
    BY <1>1, <2>1
  <2>3. QED
    BY <2>2 DEF StackInOrder
<1>6. PendingApart /\ MutationsDurable
  <2>1. 1..(nextId - 1) = {}
    BY <1>1
  <2>2. QED
    BY <1>1, <1>2, <1>3, <2>1 DEF PendingApart, MutationsDurable
<1>7. Sending /\ LateSent
  <2>1. push = [phase |-> "idle", due |-> {}, open |-> {}, answer |-> Empty]
    BY <1>1 DEF PushIn
  <2>2. push.phase = "idle" /\ push.due = {} /\ push.open = {} /\ push.answer = Empty
    BY <2>1
  <2>3. Eids(Events({})) = {} /\ Empty = [e \in DOMAIN Empty |-> Empty[e]]
    BY DEF Eids, Events, Empty
  <2>4. Sending
    BY <1>2, <2>1, <2>2, <2>3 DEF Sending, Sent
  <2>5. QED
    BY <1>1, <2>4 DEF LateSent
<1>8. D!Init
  BY <1>1, <1>2, <1>3 DEF D!Init
<1>9. QED
  BY <1>4, <1>5, <1>6, <1>7, <1>8 DEF Inv

(* Every step keeps the invariant and is a step of Delivery or none.       *)
LEMMA NextOK == Inv /\ [Next]_vars => Inv' /\ [D!Next]_(D!dvars)
<1> SUFFICES ASSUME Inv, [Next]_vars PROVE StepOK
  BY DEF StepOK
<1>1. CASE Mutate
  BY <1>1, CallStep DEF Mutate
<1>2. CASE Settling
  BY <1>2, CommitCallStep, StampStep, AddEntryStep, AddTooLateStep DEF Settling
<1>3. CASE BeginTx
  BY <1>3, BeginTxStep
<1>4. CASE Finish
  BY <1>4, CommitTxStep, FailTxStep DEF Finish
<1>5. CASE Apply
  BY <1>5, ConfirmStep, BackOffStep, ParkStep, OverStep DEF Apply
<1>6. CASE StartPush \/ ContinuePush \/ ServePush \/ ReceiveReply \/ EndSync
  BY <1>6, NextBatchStep, ServePushStep, AnsweredStep, OverStep
<1>7. CASE TransportError \/ ServeLate \/ BackoffTick
  BY <1>7, AnsweredStep, ServeLateStep, BackoffTickStep
<1>8. CASE Others
  BY <1>8, ForeignStep, ReplayStep DEF Others
<1>9. CASE Crash \/ CrashInPark \/ CrashInMark
  BY <1>9, CrashStep, CrashInParkStep, CrashInMarkStep
<1>10. CASE UNCHANGED vars
  <2>1. UNCHANGED <<rows, outbox, heads, pending, unstamped, lost>> /\ Rest
        /\ stack' = stack /\ txs' = txs /\ config' = config
    BY <1>10 DEF vars, calls, Rest
  <2>2. StackInOrder'
    BY <2>1, StackSame DEF Inv
  <2>3. QED
    BY <2>1, <2>2, MemoryStep
<1>11. QED
  BY <1>1, <1>2, <1>3, <1>4, <1>5, <1>6, <1>7, <1>8, <1>9, <1>10 DEF Next, Pushing

(* The inductive invariant of the drizzle engine's outbound half.          *)
THEOREM Invariance == Spec => []Inv
<1>1. Init => Inv
  BY InitOK
<1>2. Inv /\ [Next]_vars => Inv'
  BY NextOK
<1>3. QED
  BY <1>1, <1>2, PTL DEF Spec

(* Every variable keeps its type, nested transactions included: a run      *)
(* taken off the stack is the one that ended.                              *)
THEOREM TypeCorrect == Spec => []TypeOK
BY Invariance, InvTypes, PTL

(* A mutation whose call succeeded is never forgotten: it waits for the    *)
(* commit of its transaction, is queued, parked or on the server, unless   *)
(* its transaction was over, it failed, or a crash cut it off.             *)
THEOREM Durable == Spec => []MutationsDurable
<1>1. Inv => MutationsDurable
  BY DEF Inv
<1>2. QED
  BY <1>1, Invariance, PTL

(* The outbox of the drizzle engine keeps the promise of Delivery, other   *)
(* devices, late requests and crashes between two writes included.         *)
THEOREM Delivers == Spec => ImplementsDelivery
<1>1. Init => D!Init /\ Inv
  BY InitOK
<1>2. Inv /\ [Next]_vars => Inv' /\ [D!Next]_(D!dvars)
  BY NextOK
<1>3. QED
  BY <1>1, <1>2, PTL DEF Spec, ImplementsDelivery, D!Spec
-----------------------------------------------------------------------------
(* The rows and their versions.  What the domain table and rowversions     *)
(* show rests on how the events of one row follow each other.              *)

(* What is committed is in one of the two tables, or for a moment in both, *)
(* with the same contents; the server knows nothing else.                  *)
Committed == DOMAIN outbox \cup DOMAIN dead
KeyOf(e)  == RowOf(e).key
RunOf(e)  == RowOf(e).tx

TablesAgree ==
  /\ Stored \subseteq Committed
  /\ \A e \in DOMAIN outbox \cap DOMAIN dead :
       outbox[e].key = dead[e].key /\ outbox[e].tx = dead[e].tx

(* A run has a name of its own, which its entries carry; the name of a     *)
(* call outside any run is its event.                                      *)
RunIds == (MaxIds + 1)..(MaxIds + txs)
RunNames ==
  /\ \A i \in 1..Len(stack) : stack[i].id \in RunIds
  /\ \A i, j \in 1..Len(stack) : i # j => stack[i].id # stack[j].id
  /\ \A e \in DOMAIN pending : pending[e].tx = e \/ pending[e].tx \in RunIds
  /\ \A i \in 1..Len(stack) : \A e \in Entries(stack, i) : pending[e].tx = stack[i].id
  /\ \A i \in 1..Len(stack) :
       stack[i].phase = "stamping" => stack[i].entries \subseteq Committed

(* The entry of a run; an event that may still be committed.               *)
Joined(e) == \E i \in 1..Len(stack) : e \in Entries(stack, i)
OpenRuns  == {stack[i].id : i \in {j \in 1..Len(stack) : stack[j].phase = "open"}}
Alive(e)  == pending[e].tx = e \/ pending[e].tx \in OpenRuns

(* The events of one row that wait belong to one run, and all but the last *)
(* have joined it.                                                         *)
OneRunPerRow ==
  \A e, f \in DOMAIN pending :
    pending[e].key = pending[f].key /\ e < f => pending[e].tx = pending[f].tx /\ Joined(e)

(* What waits is newer than what is committed.                             *)
PendingNewer ==
  \A e \in DOMAIN pending, f \in Committed : KeyOf(f) = pending[e].key => f < e

(* The next event of a row to be committed suits the row.                  *)
NoOverlap == config.foreign = {} \/ ~config.busy
Leads(e)  == \A f \in OfRow(pending[e].key, DOMAIN pending) : e <= f
Fitting ==
  NoOverlap => \A e \in DOMAIN pending :
    Alive(e) /\ Leads(e) => (pending[e].type # "insert") = rows[pending[e].key].live

(* The domain table shows the newest event.                                *)
CommittedOf(k) == {e \in Committed : KeyOf(e) = k}
Newest(S)      == IF S = {} THEN NoEvent ELSE Last(S)
NewestShown ==
  config.foreign = {} => \A k \in Keys : rows[k].val = Newest(CommittedOf(k))

(* The versions of a row that are still to be written come from one run,   *)
(* and nothing that waits can be committed before they are.                *)
Unwritten(k) == {e \in unstamped : KeyOf(e) = k}
OneRunStamps ==
  /\ \A e, f \in unstamped : KeyOf(e) = KeyOf(f) => RunOf(e) = RunOf(f)
  /\ \A e \in unstamped, f \in DOMAIN pending : KeyOf(e) = pending[f].key => ~Alive(f)

(* An application that does not edit while it syncs.                       *)
Calm == ~config.busy /\ Syncing => DOMAIN pending = {} /\ unstamped = {}

(* A replay that is half done.                                             *)
Halfway ==
  halfway # NoEvent => /\ push.phase = "pull" /\ config.foreign # {}
                       /\ halfway \in DOMAIN log /\ halfway \in replayed

(* A row's version follows the row, as soon as the writes under way have   *)
(* written it, or it is known why not.                                     *)
Excused(k) == heads[k] \in lost \/ rows[k].val \in cutOff \/ Reverted(k)
InStep(k) ==
  IF halfway # NoEvent /\ log[halfway].key = k
  THEN rows[k].val = halfway \/ ~rows[k].live
  ELSE IF Unwritten(k) # {} THEN rows[k].val = Last(Unwritten(k))
  ELSE heads[k] = rows[k].val \/ (~rows[k].live /\ heads[k] \in replayed) \/ Excused(k)
VersionsInStep == config.versions /\ NoOverlap => \A k \in Keys : InStep(k)

(* Only a crash cuts a version off.                                        *)
CutByCrash == crashes = 0 => cutOff = {}

RowInv ==
  /\ crashes \in Nat
  /\ TablesAgree /\ RunNames /\ OneRunPerRow /\ PendingNewer /\ Fitting /\ NewestShown
  /\ OneRunStamps /\ Calm /\ Halfway /\ VersionsInStep /\ CutByCrash

(* The greatest of a set of ids is one thing.                              *)
LEMMA LastIs ==
  ASSUME NEW S, S \subseteq Ids, NEW x \in S, \A f \in S : f <= x
  PROVE  Last(S) = x
<1>1. Last(S) \in S /\ \A f \in S : f <= Last(S)
  BY LastIn
<1>2. Last(S) \in Nat /\ x \in Nat
  <2>1. Ids \subseteq Nat
    BY ConfigsAssumption DEF Ids
  <2>2. QED
    BY <1>1, <2>1
<1>3. Last(S) <= x /\ x <= Last(S)
  BY <1>1
<1>4. QED
  BY <1>2, <1>3

(* Later events decide.                                                    *)
LEMMA LastOfLater ==
  ASSUME NEW S, NEW T, S \subseteq Ids, T \subseteq Ids, T # {},
         \A s \in S, t \in T : s < t
  PROVE  Last(S \cup T) = Last(T)
<1>1. Last(T) \in T /\ \A f \in T : f <= Last(T)
  BY LastIn
<1>2. Last(T) \in S \cup T
  BY <1>1
<1>3. Ids \subseteq Nat
  BY ConfigsAssumption DEF Ids
<1>4. ASSUME NEW f \in S \cup T PROVE f <= Last(T)
  <2>1. f \in Nat /\ Last(T) \in Nat
    BY <1>1, <1>3
  <2>2. f \in T \/ f < Last(T)
    BY <1>1
  <2>3. QED
    BY <1>1, <2>1, <2>2
<1>5. S \cup T \subseteq Ids
  OBVIOUS
<1>6. QED
  BY <1>2, <1>4, <1>5, LastIs

(* What the invariants say of the ids.                                     *)
LEMMA IdFacts ==
  ASSUME Inv
  PROVE  /\ MaxIds \in Nat /\ Ids \subseteq 1..MaxIds /\ txs \in Nat
         /\ DOMAIN pending \subseteq Ids /\ Committed \subseteq Ids
         /\ unstamped \subseteq Committed /\ Committed \subseteq Held
         /\ DOMAIN pending \cap Committed = {}
         /\ \A e \in DOMAIN pending \cup Committed : e < nextId
         /\ nextId \in Nat /\ Len(stack) \in Nat
<1>1. Tables /\ PendingApart /\ StackInOrder
  BY DEF Inv
<1>2. MaxIds \in Nat /\ Ids \subseteq 1..MaxIds /\ nextId \in Nat
  BY <1>1, ConfigsAssumption DEF Ids, Tables
<1>3. config.runs \in Nat
  BY <1>1, ConfigTyped
<1>4. txs \in Nat /\ Len(stack) \in Nat
  BY <1>1, <1>3 DEF StackInOrder
<1>5. DOMAIN pending \subseteq Ids /\ Committed \subseteq Ids
      /\ unstamped \subseteq Committed /\ Committed \subseteq Held
  BY <1>1 DEF Tables, Partial, Committed, Held
<1>6. DOMAIN pending \cap Committed = {}
  BY <1>1, <1>5 DEF PendingApart
<1>7. DOMAIN pending \cup Committed \subseteq 1..(nextId - 1)
  BY <1>1, <1>5 DEF PendingApart
<1>8. \A e \in DOMAIN pending \cup Committed : e < nextId
  <2> HIDE <1>1
  <2>1. \A e \in 1..(nextId - 1) : e < nextId
    BY <1>2
  <2>2. QED
    BY <1>7, <2>1
<1>9. QED
  BY <1>2, <1>4, <1>5, <1>6, <1>8

(* An event of a row, and what else of the row waits.                      *)
LEMMA JoinedPending ==
  ASSUME Inv, NEW i \in 1..Len(stack), NEW e \in Entries(stack, i)
  PROVE  e \in DOMAIN pending /\ stack[i].phase = "open" /\ e \in stack[i].entries
         /\ stack[i] \in Tx /\ i \in DOMAIN stack
BY DEF Inv, StackInOrder, Entries

-----------------------------------------------------------------------------
(* Runs that go on, and runs that end.                                     *)

(* What waits stays or goes.                                               *)
Fewer == /\ DOMAIN pending' \subseteq DOMAIN pending
         /\ \A e \in DOMAIN pending' : pending'[e] = pending[e]

(* What waits still waits for the same run.                                *)
StillWaiting == \A e \in DOMAIN pending' : (Joined(e) => Joined(e)') /\ (Alive(e)' => Alive(e))

(* Less may wait for a row, never more.                                    *)
LEMMA FewerOfRow ==
  ASSUME OneRunPerRow, Fewer, StillWaiting
  PROVE  OneRunPerRow'
BY DEF OneRunPerRow, Fewer, StillWaiting

(* The stack stays.                                                        *)
LEMMA SameRuns ==
  ASSUME RunNames, StackInOrder', Fewer, stack' = stack, txs' = txs,
         Committed \subseteq Committed'
  PROVE  RunNames' /\ StillWaiting
<1>1. (RunIds' = RunIds) /\ (OpenRuns' = OpenRuns)
  BY DEF RunIds, OpenRuns
<1>2. \A e \in DOMAIN pending' : Joined(e) => Joined(e)'
  BY DEF Joined, Entries
<1>3. \A e \in DOMAIN pending' : Alive(e)' => Alive(e)
  BY <1>1 DEF Alive, Fewer
<1>4. RunNames'
  <2>1. \A i \in 1..Len(stack') : stack'[i].id \in RunIds'
    BY <1>1 DEF RunNames
  <2>2. \A e \in DOMAIN pending' : pending'[e].tx = e \/ pending'[e].tx \in RunIds'
    BY <1>1 DEF RunNames, Fewer
  <2>3. \A i \in 1..Len(stack') : \A e \in Entries(stack', i) : pending'[e].tx = stack'[i].id
    BY DEF RunNames, Fewer, StackInOrder
  <2>4. \A i, j \in 1..Len(stack') : i # j => stack'[i].id # stack'[j].id
    BY DEF RunNames
  <2>5. \A i \in 1..Len(stack') :
          stack'[i].phase = "stamping" => stack'[i].entries \subseteq Committed'
    BY DEF RunNames
  <2>6. QED
    BY <2>1, <2>2, <2>3, <2>4, <2>5 DEF RunNames
<1>5. QED
  BY <1>2, <1>3, <1>4 DEF StillWaiting

(* A run ends, and nothing waits for it any more: an event with its name   *)
(* will never be.                                                          *)
LEMMA PoppedRuns ==
  ASSUME Inv, RunNames, StackInOrder', Fewer, NEW i \in 1..Len(stack),
         stack' = Popped(i), txs' = txs, Committed \subseteq Committed',
         DOMAIN pending' \cap Entries(stack, i) = {}
  PROVE  /\ RunNames' /\ StillWaiting
         /\ \A e \in DOMAIN pending' : Alive(e)' => pending[e].tx # stack[i].id
<1> DEFINE from(j) == IF j < i THEN j ELSE j + 1
<1>1. stack \in Seq(Tx) /\ Len(stack) \in Nat /\ txs \in Nat /\ MaxIds \in Nat
      /\ DOMAIN pending \subseteq Ids /\ Ids \subseteq 1..MaxIds
  BY IdFacts DEF Inv, StackInOrder
<1>2. /\ Len(stack') = Len(stack) - 1
      /\ \A j \in 1..(Len(stack) - 1) : stack'[j] = stack[IF j < i THEN j ELSE j + 1]
  BY <1>1, PoppedSeq
<1>3. ASSUME NEW j \in 1..Len(stack')
      PROVE  from(j) \in 1..Len(stack) /\ from(j) # i /\ stack'[j] = stack[from(j)]
             /\ Entries(stack', j) = Entries(stack, from(j))
  <2>1. j \in 1..(Len(stack) - 1)
    BY <1>2
  <2>2. from(j) \in 1..Len(stack) /\ from(j) # i
    BY <1>1, <2>1
  <2>3. stack'[j] = stack[from(j)]
    BY <1>2, <2>1
  <2> HIDE DEF from
  <2>4. QED
    BY <2>2, <2>3 DEF Entries
<1>4. ASSUME NEW j \in 1..Len(stack), j # i
      PROVE  \E m \in 1..Len(stack') : from(m) = j
  <2>1. CASE j < i
    <3>1. j \in 1..Len(stack') /\ from(j) = j
      BY <1>1, <1>2, <2>1
    <3>2. QED
      BY <3>1
  <2>2. CASE ~(j < i)
    <3>1. (j - 1) \in 1..Len(stack') /\ from(j - 1) = j
      BY <1>1, <1>2, <1>4, <2>2
    <3>2. QED
      BY <3>1
  <2>3. QED
    BY <2>1, <2>2
<1>5. ASSUME NEW j \in 1..Len(stack'), NEW m \in 1..Len(stack'), j # m
      PROVE  from(j) # from(m)
  <2>1. j \in 1..(Len(stack) - 1) /\ m \in 1..(Len(stack) - 1)
    BY <1>2
  <2>2. QED
    BY <1>1, <2>1, <1>5
<1> HIDE DEF from
<1>6. RunIds' = RunIds
  BY DEF RunIds
<1>7. ASSUME NEW n \in OpenRuns' PROVE n \in OpenRuns /\ n # stack[i].id
  <2>1. PICK j \in 1..Len(stack') : stack'[j].phase = "open" /\ stack'[j].id = n
    BY <1>7 DEF OpenRuns
  <2>2. from(j) \in 1..Len(stack) /\ from(j) # i /\ stack'[j] = stack[from(j)]
    BY <1>3
  <2>3. stack[from(j)].id # stack[i].id
    BY <2>2 DEF RunNames
  <2>4. QED
    BY <2>1, <2>2, <2>3 DEF OpenRuns
<1>8. ASSUME NEW e \in DOMAIN pending', Joined(e) PROVE Joined(e)'
  <2>1. PICK j \in 1..Len(stack) : e \in Entries(stack, j)
    BY <1>8 DEF Joined
  <2>2. j # i
    BY <2>1
  <2>3. PICK m \in 1..Len(stack') : from(m) = j
    BY <1>4, <2>2
  <2>4. e \in Entries(stack', m)
    BY <1>3, <2>1, <2>3
  <2>5. QED
    BY <2>4 DEF Joined
<1>9. ASSUME NEW e \in DOMAIN pending', Alive(e)'
      PROVE  Alive(e) /\ pending[e].tx # stack[i].id
  <2>1. e \in DOMAIN pending /\ pending'[e] = pending[e]
    BY DEF Fewer
  <2>2. CASE pending[e].tx = e
    <3>1. stack[i].id \in RunIds
      BY DEF RunNames
    <3>2. e \in 1..MaxIds /\ stack[i].id \in (MaxIds + 1)..(MaxIds + txs)
      BY <1>1, <2>1, <3>1 DEF RunIds
    <3> DEFINE n == stack[i].id
    <3>3. n \in (MaxIds + 1)..(MaxIds + txs)
      BY <3>2
    <3> HIDE DEF n
    <3>4. e # n
      BY <1>1, <3>2, <3>3
    <3>5. QED
      BY <2>2, <3>4 DEF Alive, n
  <2>3. CASE pending'[e].tx \in OpenRuns'
    BY <1>7, <2>1, <2>3 DEF Alive
  <2>4. QED
    BY <1>9, <2>1, <2>2, <2>3 DEF Alive
<1>10. RunNames'
  <2>1. \A j \in 1..Len(stack') : stack'[j].id \in RunIds'
    BY <1>3, <1>6 DEF RunNames
  <2>2. \A e \in DOMAIN pending' : pending'[e].tx = e \/ pending'[e].tx \in RunIds'
    BY <1>6 DEF RunNames, Fewer
  <2>3. ASSUME NEW j \in 1..Len(stack'), NEW e \in Entries(stack', j)
        PROVE  pending'[e].tx = stack'[j].id
    <3>1. e \in DOMAIN pending'
      BY DEF StackInOrder
    <3>2. e \in Entries(stack, from(j)) /\ from(j) \in 1..Len(stack)
      BY <1>3
    <3>3. pending[e].tx = stack[from(j)].id
      BY <3>2 DEF RunNames
    <3>4. QED
      BY <1>3, <3>1, <3>3 DEF Fewer
  <2>4. ASSUME NEW j \in 1..Len(stack'), NEW m \in 1..Len(stack'), j # m
        PROVE  stack'[j].id # stack'[m].id
    <3>1. from(j) # from(m)
      BY <1>5, <2>4
    <3>2. from(j) \in 1..Len(stack) /\ from(m) \in 1..Len(stack)
          /\ stack'[j] = stack[from(j)] /\ stack'[m] = stack[from(m)]
      BY <1>3
    <3>3. stack[from(j)].id # stack[from(m)].id
      BY <3>1, <3>2 DEF RunNames
    <3>4. QED
      BY <3>2, <3>3
  <2>5. ASSUME NEW j \in 1..Len(stack'), stack'[j].phase = "stamping"
        PROVE  stack'[j].entries \subseteq Committed'
    BY <1>3, <2>5 DEF RunNames
  <2>6. QED
    BY <2>1, <2>2, <2>3, <2>4, <2>5 DEF RunNames
<1>11. QED
  BY <1>8, <1>9, <1>10 DEF StillWaiting

(* A run has committed and writes its versions.                            *)
LEMMA StampingRuns ==
  ASSUME Inv, RunNames, StackInOrder', Fewer, NEW i \in 1..Len(stack), NEW t \in Tx,
         stack' = At(i, t), t.id = stack[i].id, t.phase = "stamping",
         t.entries \subseteq Committed', txs' = txs, Committed \subseteq Committed',
         DOMAIN pending' \cap Entries(stack, i) = {}
  PROVE  /\ RunNames' /\ StillWaiting
         /\ \A e \in DOMAIN pending' : Alive(e)' => pending[e].tx # stack[i].id
<1>1. stack \in Seq(Tx) /\ Len(stack) \in Nat /\ txs \in Nat /\ MaxIds \in Nat
      /\ DOMAIN pending \subseteq Ids /\ Ids \subseteq 1..MaxIds
  BY IdFacts DEF Inv, StackInOrder
<1>2. /\ Len(stack') = Len(stack) /\ stack'[i] = t
      /\ \A j \in 1..Len(stack) : j # i => stack'[j] = stack[j]
  BY <1>1 DEF At
<1>3. \A j \in 1..Len(stack) : j # i => Entries(stack', j) = Entries(stack, j)
  BY <1>2 DEF Entries
<1>4. \A j \in 1..Len(stack) : stack'[j].id = stack[j].id
  BY <1>2
<1>6. RunIds' = RunIds
  BY DEF RunIds
<1>7. ASSUME NEW n \in OpenRuns' PROVE n \in OpenRuns /\ n # stack[i].id
  <2>1. PICK j \in 1..Len(stack') : stack'[j].phase = "open" /\ stack'[j].id = n
    BY <1>7 DEF OpenRuns
  <2>2. j \in 1..Len(stack) /\ j # i /\ stack'[j] = stack[j]
    BY <1>2, <2>1
  <2>3. stack[j].id # stack[i].id
    BY <2>2 DEF RunNames
  <2>4. QED
    BY <2>1, <2>2, <2>3 DEF OpenRuns
<1>8. ASSUME NEW e \in DOMAIN pending', Joined(e) PROVE Joined(e)'
  <2>1. PICK j \in 1..Len(stack) : e \in Entries(stack, j)
    BY <1>8 DEF Joined
  <2>2. j # i
    BY <2>1
  <2>3. QED
    BY <1>2, <1>3, <2>1, <2>2 DEF Joined
<1>9. ASSUME NEW e \in DOMAIN pending', Alive(e)'
      PROVE  Alive(e) /\ pending[e].tx # stack[i].id
  <2>1. e \in DOMAIN pending /\ pending'[e] = pending[e]
    BY DEF Fewer
  <2>2. CASE pending[e].tx = e
    <3>1. stack[i].id \in RunIds
      BY DEF RunNames
    <3>2. e \in 1..MaxIds /\ stack[i].id \in (MaxIds + 1)..(MaxIds + txs)
      BY <1>1, <2>1, <3>1 DEF RunIds
    <3> DEFINE n == stack[i].id
    <3>3. n \in (MaxIds + 1)..(MaxIds + txs)
      BY <3>2
    <3> HIDE DEF n
    <3>4. e # n
      BY <1>1, <3>2, <3>3
    <3>5. QED
      BY <2>2, <3>4 DEF Alive, n
  <2>3. CASE pending'[e].tx \in OpenRuns'
    BY <1>7, <2>1, <2>3 DEF Alive
  <2>4. QED
    BY <1>9, <2>1, <2>2, <2>3 DEF Alive
<1>10. RunNames'
  <2>1. \A j \in 1..Len(stack') : stack'[j].id \in RunIds'
    BY <1>2, <1>4, <1>6 DEF RunNames
  <2>2. \A e \in DOMAIN pending' : pending'[e].tx = e \/ pending'[e].tx \in RunIds'
    BY <1>6 DEF RunNames, Fewer
  <2>3. ASSUME NEW j \in 1..Len(stack'), NEW e \in Entries(stack', j)
        PROVE  pending'[e].tx = stack'[j].id
    <3>1. e \in DOMAIN pending'
      BY DEF StackInOrder
    <3>2. j \in 1..Len(stack) /\ j # i
      BY <1>2 DEF Entries
    <3>3. pending[e].tx = stack[j].id
      BY <1>3, <3>2 DEF RunNames
    <3>4. QED
      BY <1>2, <3>1, <3>2, <3>3 DEF Fewer
  <2>4. \A j, m \in 1..Len(stack') : j # m => stack'[j].id # stack'[m].id
    BY <1>2, <1>4 DEF RunNames
  <2>5. ASSUME NEW j \in 1..Len(stack'), stack'[j].phase = "stamping"
        PROVE  stack'[j].entries \subseteq Committed'
    <3>1. CASE j = i
      BY <1>2, <3>1
    <3>2. CASE j # i
      BY <1>2, <2>5, <3>2 DEF RunNames
    <3>3. QED
      BY <3>1, <3>2
  <2>6. QED
    BY <2>1, <2>2, <2>3, <2>4, <2>5 DEF RunNames
<1>11. QED
  BY <1>8, <1>9, <1>10 DEF StillWaiting

-----------------------------------------------------------------------------
(* What commits, and what fails.                                           *)

(* The rest of a row, when the events S leave it: nothing older stays, and *)
(* nothing that stays can still be committed.                              *)
Leaving(S) ==
  \A e \in S, f \in DOMAIN pending' :
    pending'[f].key = pending[e].key => e < f /\ ~Alive(f)'

(* The events S go from the memory of the calls to the outbox.             *)
LEMMA InsertedTables ==
  ASSUME Inv, NEW S, S \subseteq DOMAIN pending, InsertAll(S), Rest, TablesAgree
  PROVE  /\ Fewer /\ DOMAIN pending' = DOMAIN pending \ S
         /\ Committed' = Committed \cup S /\ TablesAgree'
         /\ \A e \in S : KeyOf(e)' = pending[e].key /\ RunOf(e)' = pending[e].tx
         /\ \A e \in Committed : KeyOf(e)' = KeyOf(e) /\ RunOf(e)' = RunOf(e)
<1>1. /\ outbox' = Join(outbox, Only(pending, S)) /\ pending' = Without(pending, S)
      /\ dead' = dead /\ log' = log
  BY DEF InsertAll, Rest
<1>2. /\ DOMAIN pending' = DOMAIN pending \ S
      /\ \A e \in DOMAIN pending \ S : pending'[e] = pending[e]
  BY <1>1 DEF Without
<1>3. /\ DOMAIN outbox' = DOMAIN outbox \cup S
      /\ \A e \in S : outbox'[e] = pending[e]
      /\ \A e \in DOMAIN outbox \ S : outbox'[e] = outbox[e]
  BY <1>1 DEF Join, Only
<1>4. S \cap Committed = {}
  BY IdFacts
<1>5. \A e \in S : RowOf(e)' = pending[e]
  BY <1>3 DEF RowOf
<1>6. \A e \in Committed : RowOf(e)' = RowOf(e)
  BY <1>1, <1>3, <1>4 DEF RowOf, Committed
<1>7. Committed' = Committed \cup S
  BY <1>1, <1>3 DEF Committed
<1>8. TablesAgree'
  <2>1. Stored' = Stored
    BY <1>1 DEF Stored
  <2>2. \A e \in DOMAIN outbox' \cap DOMAIN dead' :
          outbox'[e].key = dead'[e].key /\ outbox'[e].tx = dead'[e].tx
    BY <1>1, <1>3, <1>4 DEF TablesAgree, Committed
  <2>3. QED
    BY <1>7, <2>1, <2>2 DEF TablesAgree
<1>9. QED
  BY <1>2, <1>5, <1>6, <1>7, <1>8 DEF Fewer, KeyOf, RunOf

(* A row that events of S are about shows the last of them: the first of   *)
(* them suits the row.                                                     *)
LEMMA WrittenRow ==
  ASSUME Inv, NEW S, S \subseteq DOMAIN pending, Fitting, NoOverlap,
         DOMAIN pending' = DOMAIN pending \ S, Fewer,
         \A e \in S : Alive(e), Leaving(S), NEW k \in Keys, OfRow(k, S) # {}
  PROVE  /\ Written(S)[k].val = Last(OfRow(k, S))
         /\ Written(S)[k].live = (pending[Last(OfRow(k, S))].type # "delete")
<1> DEFINE mine == OfRow(k, S)
<1>1. mine \subseteq S /\ mine # {} /\ \A e \in mine : pending[e].key = k
  BY DEF OfRow
<1>2. S \subseteq Nat /\ DOMAIN pending \subseteq Nat
  BY IdFacts
<1>3. mine \subseteq Nat
  BY <1>1, <1>2
<1>4. PICK m \in mine : \A f \in mine : m <= f
  BY <1>1, <1>3, MinExists
<1>5. ASSUME NEW f \in OfRow(k, DOMAIN pending) PROVE m <= f
  <2>1. f \in DOMAIN pending /\ pending[f].key = k
    BY DEF OfRow
  <2>2. CASE f \in S
    <3>1. f \in mine
      BY <2>1, <2>2 DEF OfRow
    <3>2. QED
      BY <1>4, <3>1
  <2>3. CASE f \notin S
    <3>1. f \in DOMAIN pending' /\ pending'[f].key = pending[m].key /\ m \in S
      BY <1>1, <2>1, <2>3 DEF Fewer
    <3>2. m < f
      BY <3>1 DEF Leaving
    <3>3. m \in Nat /\ f \in Nat
      BY <1>2, <1>3, <2>1
    <3>4. QED
      BY <3>2, <3>3
  <2>4. QED
    BY <2>2, <2>3
<1>6. m \in DOMAIN pending /\ Alive(m) /\ Leads(m) /\ pending[m].key = k
  BY <1>1, <1>5 DEF Leads
<1>7. (pending[m].type # "insert") = rows[k].live
  BY <1>6 DEF Fitting
<1>8. ~(mine = {} \/ (~rows[k].live /\ \A e \in mine : pending[e].type # "insert"))
  <2>1. rows[k].live \in BOOLEAN
    BY DEF Inv, Tables
  <2>2. QED
    BY <1>1, <1>7, <2>1
<1>9. Written(S)[k] = IF mine = {} \/ (~rows[k].live /\ \A e \in mine : pending[e].type # "insert")
                      THEN rows[k]
                      ELSE [val |-> Last(mine), live |-> pending[Last(mine)].type # "delete"]
  BY DEF Written
<1> HIDE DEF mine
<1>10. Written(S)[k] = [val |-> Last(mine), live |-> pending[Last(mine)].type # "delete"]
  BY <1>8, <1>9
<1>11. QED
  BY <1>10 DEF mine

(* A row that no event of S is about stays as it is.                       *)
LEMMA UnwrittenRow ==
  ASSUME NEW S, NEW k \in Keys, OfRow(k, S) = {}
  PROVE  Written(S)[k] = rows[k]
BY DEF Written

(* What commits leaves the invariants of the rows as they were.            *)
LEMMA InsertedRows ==
  ASSUME Inv, RowInv, NEW S, S \subseteq DOMAIN pending, InsertAll(S), Rest, heads' = heads,
         \A e \in S : Alive(e), Leaving(S), StillWaiting, RunNames'
  PROVE  RowInv'
<1>1. /\ Fewer /\ DOMAIN pending' = DOMAIN pending \ S
      /\ Committed' = Committed \cup S /\ TablesAgree'
      /\ \A e \in S : KeyOf(e)' = pending[e].key /\ RunOf(e)' = pending[e].tx
      /\ \A e \in Committed : KeyOf(e)' = KeyOf(e) /\ RunOf(e)' = RunOf(e)
  BY InsertedTables DEF RowInv
<1>2. /\ rows' = Written(S) /\ lost' = lost
      /\ unstamped' = IF config.versions THEN unstamped \cup S ELSE unstamped
      /\ UNCHANGED <<log, config, dead, nextId, cutOff, push, late, replayed, halfway, crashes>>
  BY DEF InsertAll, Rest
<1>3. /\ DOMAIN pending \subseteq Ids /\ Committed \subseteq Ids /\ Ids \subseteq Nat
      /\ unstamped \subseteq Committed /\ DOMAIN pending \cap Committed = {}
  BY IdFacts
<1>4. \A e \in DOMAIN pending' : pending'[e].key = pending[e].key /\ pending'[e].type = pending[e].type
  BY <1>1 DEF Fewer
<1>5. ASSUME NEW k \in Keys, OfRow(k, S) = {}
      PROVE  rows'[k] = rows[k]
  BY <1>2, <1>5, UnwrittenRow
<1>6. ASSUME NEW k \in Keys, OfRow(k, S) # {}, NoOverlap
      PROVE  rows'[k].val = Last(OfRow(k, S))
  BY <1>1, <1>2, <1>6, WrittenRow DEF RowInv
<1>7. OneRunPerRow'
  BY <1>1, FewerOfRow DEF RowInv
<1>8. PendingNewer'
  <2>1. ASSUME NEW e \in DOMAIN pending', NEW f \in Committed',
               KeyOf(f)' = pending'[e].key
        PROVE  f < e
    <3>1. CASE f \in Committed
      BY <1>1, <1>4, <2>1, <3>1 DEF RowInv, PendingNewer
    <3>2. CASE f \in S
      BY <1>1, <1>4, <2>1, <3>2 DEF Leaving
    <3>3. QED
      BY <1>1, <3>1, <3>2
  <2>2. QED
    BY <2>1 DEF PendingNewer
<1>9. NoOverlap' = NoOverlap
  BY <1>2 DEF NoOverlap
<1>10. Fitting'
  <2>1. ASSUME NoOverlap, NEW e \in DOMAIN pending', Alive(e)', Leads(e)'
        PROVE  (pending'[e].type # "insert") = rows'[pending'[e].key].live
    <3>1. PICK k : k = pending[e].key
      OBVIOUS
    <3>2. /\ e \in DOMAIN pending /\ pending'[e].key = k /\ pending'[e].type = pending[e].type
          /\ e \notin S
      BY <1>1, <1>4, <3>1
    <3>3. k \in Keys
      BY <3>1, <3>2 DEF Inv, Tables, Partial, Row
    <3>4. OfRow(k, S) = {}
      <4>1. ASSUME NEW f \in OfRow(k, S) PROVE FALSE
        <5>1. f \in S /\ pending'[e].key = pending[f].key
          BY <3>2 DEF OfRow
        <5>2. QED
          BY <2>1, <5>1 DEF Leaving
      <4>2. QED
        BY <4>1
    <3>5. Alive(e)
      BY <2>1 DEF StillWaiting
    <3>6. ASSUME NEW f \in OfRow(k, DOMAIN pending) PROVE e <= f
      <4>1. f \in DOMAIN pending /\ pending[f].key = k /\ f \notin S
        BY <3>4 DEF OfRow
      <4>2. f \in DOMAIN pending' /\ pending'[f].key = k
        BY <1>1, <1>4, <4>1
      <4>3. \A g \in DOMAIN pending' : pending'[g].key = k => e <= g
        BY <2>1, <3>2 DEF Leads, OfRow
      <4>4. QED
        BY <4>2, <4>3
    <3>7. Leads(e)
      BY <3>1, <3>6 DEF Leads
    <3>8. (pending[e].type # "insert") = rows[k].live
      BY <2>1, <3>1, <3>2, <3>5, <3>7 DEF RowInv, Fitting
    <3>9. rows'[k].live = rows[k].live
      BY <1>5, <3>3, <3>4
    <3>10. QED
      BY <3>2, <3>8, <3>9
  <2>2. QED
    BY <1>9, <2>1 DEF Fitting
<1>11. \A k : CommittedOf(k)' = CommittedOf(k) \cup OfRow(k, S)
  BY <1>1 DEF CommittedOf, OfRow
<1>12. NewestShown'
  <2>1. ASSUME config.foreign = {}, NEW k \in Keys
        PROVE  rows'[k].val = Newest(CommittedOf(k) \cup OfRow(k, S))
    <3>1. rows[k].val = Newest(CommittedOf(k))
      BY <2>1 DEF RowInv, NewestShown
    <3>2. CASE OfRow(k, S) = {}
      BY <1>5, <3>1, <3>2
    <3>3. CASE OfRow(k, S) # {}
      <4>1. CommittedOf(k) \subseteq Ids /\ OfRow(k, S) \subseteq Ids
        BY <1>3 DEF CommittedOf, OfRow
      <4>2. \A s \in CommittedOf(k), t \in OfRow(k, S) : s < t
        BY DEF RowInv, PendingNewer, CommittedOf, OfRow
      <4>3. Last(CommittedOf(k) \cup OfRow(k, S)) = Last(OfRow(k, S))
        BY <3>3, <4>1, <4>2, LastOfLater
      <4>4. rows'[k].val = Last(OfRow(k, S))
        BY <1>6, <2>1, <3>3 DEF NoOverlap
      <4>5. QED
        BY <3>3, <4>3, <4>4 DEF Newest
    <3>4. QED
      BY <3>2, <3>3
  <2>2. Keys' = Keys /\ config' = config
    BY <1>2 DEF Keys
  <2>3. \A k \in Keys : config.foreign = {} => rows'[k].val = Newest(CommittedOf(k)')
    BY <1>11, <2>1
  <2> HIDE <2>1
  <2>4. QED
    BY <2>2, <2>3 DEF NewestShown, Newest, Last
<1>13. \A e \in unstamped, f \in DOMAIN pending : KeyOf(e) = pending[f].key => f \notin S
  BY DEF RowInv, OneRunStamps
<1>14. OneRunStamps'
  <2>1. unstamped' \subseteq unstamped \cup S
    BY <1>2
  <2>2. ASSUME NEW e \in unstamped', NEW f \in unstamped', KeyOf(e)' = KeyOf(f)'
        PROVE  RunOf(e)' = RunOf(f)'
    <3>1. CASE e \in unstamped /\ f \in unstamped
      BY <1>1, <1>3, <2>2, <3>1 DEF RowInv, OneRunStamps
    <3>2. CASE e \in S /\ f \in S
      <4>1. pending[e].key = pending[f].key /\ RunOf(e)' = pending[e].tx /\ RunOf(f)' = pending[f].tx
        BY <1>1, <2>2, <3>2
      <4>2. e \in Nat /\ f \in Nat
        BY <1>3, <3>2
      <4>3. e = f \/ e < f \/ f < e
        BY <4>2
      <4>4. QED
        BY <3>2, <4>1, <4>3 DEF RowInv, OneRunPerRow
    <3>3. CASE e \in unstamped /\ f \in S
      <4>1. KeyOf(e) = pending[f].key
        BY <1>1, <1>3, <2>2, <3>3
      <4>2. QED
        BY <1>13, <3>3, <4>1
    <3>4. CASE e \in S /\ f \in unstamped
      <4>1. KeyOf(f) = pending[e].key
        BY <1>1, <1>3, <2>2, <3>4
      <4>2. QED
        BY <1>13, <3>4, <4>1
    <3>5. QED
      BY <2>1, <3>1, <3>2, <3>3, <3>4
  <2>3. ASSUME NEW e \in unstamped', NEW f \in DOMAIN pending', KeyOf(e)' = pending'[f].key
        PROVE  ~Alive(f)'
    <3>1. CASE e \in unstamped
      <4>1. KeyOf(e) = pending[f].key /\ f \in DOMAIN pending
        BY <1>1, <1>3, <1>4, <2>3, <3>1
      <4>2. ~Alive(f)
        BY <3>1, <4>1 DEF RowInv, OneRunStamps
      <4>3. QED
        BY <4>2 DEF StillWaiting
    <3>2. CASE e \in S
      BY <1>1, <2>3, <3>2 DEF Leaving
    <3>3. QED
      BY <2>1, <3>1, <3>2
  <2>4. QED
    BY <2>2, <2>3 DEF OneRunStamps
<1>15. Calm'
  BY <1>1, <1>2 DEF RowInv, Calm, Syncing
<1>16. Halfway'
  BY <1>2 DEF RowInv, Halfway
<1>17. VersionsInStep'
  <2>1. ASSUME config.versions, NoOverlap, NEW k \in Keys
        PROVE  InStep(k)'
    <3>2. InStep(k)
      BY <2>1 DEF RowInv, VersionsInStep
    <3>3. Unwritten(k)' = Unwritten(k) \cup OfRow(k, S)
      <4>1. unstamped' = unstamped \cup S
        BY <1>2, <2>1
      <4>2. QED
        BY <1>1, <1>3, <4>1 DEF Unwritten, OfRow
    <3>4. CASE OfRow(k, S) = {}
      <4>1. rows'[k] = rows[k] /\ Unwritten(k)' = Unwritten(k)
        BY <1>5, <3>3, <3>4
      <4>2. QED
        BY <1>2, <3>2, <4>1 DEF InStep, Excused, Reverted, Last
    <3>5. CASE OfRow(k, S) # {}
      <4>1. PICK f : f \in OfRow(k, S)
        BY <3>5
      <4>2. f \in S /\ f \in DOMAIN pending /\ pending[f].key = k
        BY <4>1 DEF OfRow
      <4>3. Unwritten(k) = {}
        BY <1>13, <4>2 DEF Unwritten
      <4>4. halfway = NoEvent
        BY <2>1, <4>2 DEF RowInv, Halfway, Calm, Syncing, NoOverlap
      <4>5. rows'[k].val = Last(OfRow(k, S))
        BY <1>6, <2>1, <3>5
      <4>6. Unwritten(k)' = OfRow(k, S)
        BY <3>3, <4>3
      <4>7. rows'[k].val = Last(Unwritten(k)') /\ Unwritten(k)' # {}
        BY <3>5, <4>5, <4>6
      <4>8. QED
        BY <1>2, <4>4, <4>7 DEF InStep, Excused, Reverted, Last
    <3>6. QED
      BY <3>4, <3>5
  <2>2. Keys' = Keys /\ config' = config
    BY <1>2 DEF Keys
  <2>3. QED
    BY <1>9, <2>1, <2>2 DEF VersionsInStep
<1>18. QED
  BY <1>1, <1>2, <1>7, <1>8, <1>10, <1>12, <1>14, <1>15, <1>16, <1>17 DEF RowInv, CutByCrash

(* What fails leaves them as they were, too.                               *)
LEMMA LostRows ==
  ASSUME Inv, RowInv, NEW S, S \subseteq DOMAIN pending, S # {},
         pending' = Without(pending, S), lost' = lost \cup S,
         UNCHANGED <<rows, outbox, unstamped>>, Rest, StillWaiting, RunNames',
         \A k \in Keys : heads'[k] = heads[k] \/ heads'[k] \in S,
         \A e \in S, f \in DOMAIN pending' : pending'[f].key = pending[e].key => ~Alive(f)'
  PROVE  RowInv'
<1>1. UNCHANGED <<log, config, dead, nextId, cutOff, push, late, replayed, halfway, crashes>>
  BY DEF Rest
<1>2. Fewer /\ DOMAIN pending' = DOMAIN pending \ S
  BY DEF Fewer, Without
<1>3. \A e \in DOMAIN pending' : pending'[e].key = pending[e].key /\ pending'[e].type = pending[e].type
  BY <1>2 DEF Fewer
<1>4. Committed' = Committed /\ TablesAgree'
  BY <1>1 DEF Committed, RowInv, TablesAgree, Stored
<1>5. \A e : KeyOf(e)' = KeyOf(e) /\ RunOf(e)' = RunOf(e)
  BY <1>1 DEF KeyOf, RunOf, RowOf
<1>6. OneRunPerRow'
  BY <1>2, FewerOfRow DEF RowInv
<1>7. PendingNewer'
  BY <1>2, <1>3, <1>4, <1>5 DEF RowInv, PendingNewer
<1>8. NoOverlap' = NoOverlap
  BY <1>1 DEF NoOverlap
<1>9. Fitting'
  <2>1. ASSUME NoOverlap, NEW e \in DOMAIN pending', Alive(e)', Leads(e)'
        PROVE  (pending'[e].type # "insert") = rows'[pending'[e].key].live
    <3>1. PICK k : k = pending[e].key
      OBVIOUS
    <3>2. /\ e \in DOMAIN pending /\ pending'[e].key = k /\ pending'[e].type = pending[e].type
      BY <1>2, <1>3, <3>1
    <3>3. Alive(e)
      BY <2>1 DEF StillWaiting
    <3>4. ASSUME NEW f \in OfRow(k, DOMAIN pending) PROVE e <= f
      <4>1. f \in DOMAIN pending /\ pending[f].key = k /\ f \notin S
        BY <2>1, <3>2 DEF OfRow
      <4>2. f \in DOMAIN pending' /\ pending'[f].key = k
        BY <1>2, <1>3, <4>1
      <4>3. \A g \in DOMAIN pending' : pending'[g].key = k => e <= g
        BY <2>1, <3>2 DEF Leads, OfRow
      <4>4. QED
        BY <4>2, <4>3
    <3>5. Leads(e)
      BY <3>1, <3>4 DEF Leads
    <3>6. (pending[e].type # "insert") = rows[k].live
      BY <2>1, <3>1, <3>2, <3>3, <3>5 DEF RowInv, Fitting
    <3>7. QED
      BY <3>2, <3>6
  <2>2. QED
    BY <1>8, <2>1 DEF Fitting
<1>10. NewestShown'
  <2>1. \A k : CommittedOf(k)' = CommittedOf(k)
    BY <1>4, <1>5 DEF CommittedOf
  <2>2. \A k \in Keys : config.foreign = {} => rows[k].val = Newest(CommittedOf(k)')
    BY <2>1 DEF RowInv, NewestShown
  <2>3. Keys' = Keys /\ config' = config /\ rows' = rows
    BY <1>1 DEF Keys
  <2> HIDE <2>1
  <2>4. QED
    BY <2>2, <2>3 DEF NewestShown, Newest, Last
<1>11. OneRunStamps'
  <2>1. ASSUME NEW e \in unstamped', NEW f \in DOMAIN pending', KeyOf(e)' = pending'[f].key
        PROVE  ~Alive(f)'
    <3>1. KeyOf(e) = pending[f].key /\ f \in DOMAIN pending /\ e \in unstamped
      BY <1>2, <1>3, <1>5, <2>1
    <3>2. ~Alive(f)
      BY <3>1 DEF RowInv, OneRunStamps
    <3>3. QED
      BY <3>2 DEF StillWaiting
  <2>2. \A e, f \in unstamped' : KeyOf(e)' = KeyOf(f)' => RunOf(e)' = RunOf(f)'
    BY <1>5 DEF RowInv, OneRunStamps
  <2>3. QED
    BY <2>1, <2>2 DEF OneRunStamps
<1>12. Calm' /\ Halfway'
  BY <1>1, <1>2 DEF RowInv, Calm, Syncing, Halfway
<1>13. VersionsInStep'
  <2>1. ASSUME config.versions, NoOverlap, NEW k \in Keys
        PROVE  InStep(k)'
    <3>1. InStep(k)
      BY <2>1 DEF RowInv, VersionsInStep
    <3>2. Unwritten(k)' = Unwritten(k)
      BY <1>5 DEF Unwritten
    <3>3. heads'[k] \in lost' \/ (heads'[k] = heads[k] /\ lost \subseteq lost')
      OBVIOUS
    <3>4. QED
      BY <1>1, <3>1, <3>2, <3>3 DEF InStep, Excused, Reverted, Last
  <2>2. Keys' = Keys /\ config' = config
    BY <1>1 DEF Keys
  <2>3. QED
    BY <1>8, <2>1, <2>2 DEF VersionsInStep
<1>14. QED
  BY <1>1, <1>4, <1>6, <1>7, <1>9, <1>10, <1>11, <1>12, <1>13 DEF RowInv, CutByCrash

(* A step that leaves the calls and the rows alone.                        *)
LEMMA QuietRows ==
  ASSUME Inv, RowInv, UNCHANGED <<config, rows, calls, replayed, halfway, crashes>>,
         TablesAgree', Committed' = Committed,
         \A e \in Committed : KeyOf(e)' = KeyOf(e) /\ RunOf(e)' = RunOf(e),
         \A e \in DOMAIN log : e \in DOMAIN log' /\ log'[e] = log[e],
         Calm', Halfway',
         \A f \in DOMAIN dead : f \in DOMAIN dead' /\ dead'[f] = dead[f],
         \A k \in Keys : heads'[k] = heads[k] \/ Reverted(k)'
  PROVE  RowInv'
<1>1. /\ pending' = pending /\ stack' = stack /\ txs' = txs /\ unstamped' = unstamped
      /\ lost' = lost /\ cutOff' = cutOff
      /\ config' = config /\ rows' = rows /\ replayed' = replayed
      /\ halfway' = halfway /\ crashes' = crashes /\ Keys' = Keys
  BY DEF calls, Keys
<1>2. unstamped \subseteq Committed
  BY IdFacts
<1>3. RunNames' /\ OneRunPerRow'
  BY <1>1 DEF RowInv, RunNames, RunIds, OneRunPerRow, Joined, Entries
<1>4. \A e : (Alive(e)' <=> Alive(e)) /\ (Leads(e)' <=> Leads(e))
  BY <1>1 DEF Alive, OpenRuns, Leads, OfRow
<1>5. PendingNewer'
  BY <1>1 DEF RowInv, PendingNewer
<1>6. Fitting'
  BY <1>1, <1>4 DEF RowInv, Fitting, NoOverlap
<1>7. NewestShown'
  <2>1. \A k : CommittedOf(k)' = CommittedOf(k)
    BY DEF CommittedOf
  <2>2. \A k \in Keys : config.foreign = {} => rows[k].val = Newest(CommittedOf(k)')
    BY <2>1 DEF RowInv, NewestShown
  <2> HIDE <2>1
  <2>3. QED
    BY <1>1, <2>2 DEF NewestShown, Newest, Last
<1>8. OneRunStamps'
  BY <1>1, <1>2, <1>4 DEF RowInv, OneRunStamps
<1>9. VersionsInStep'
  <2>1. ASSUME config.versions, NoOverlap, NEW k \in Keys
        PROVE  InStep(k)'
    <3>1. InStep(k)
      BY <2>1 DEF RowInv, VersionsInStep
    <3>2. Unwritten(k)' = Unwritten(k)
      BY <1>1, <1>2 DEF Unwritten
    <3>3. halfway # NoEvent => log'[halfway] = log[halfway]
      BY DEF RowInv, Halfway
    <3>4. Excused(k) \/ heads'[k] # heads[k] => Excused(k)'
      BY <1>1, <2>1 DEF Excused, Reverted
    <3>5. QED
      BY <1>1, <3>1, <3>2, <3>3, <3>4 DEF InStep, Last
  <2>2. QED
    BY <1>1, <2>1 DEF VersionsInStep, NoOverlap
<1>10. QED
  BY <1>1, <1>3, <1>5, <1>6, <1>7, <1>8, <1>9 DEF RowInv, CutByCrash

(* Only a run's last event of a row has not joined it.                     *)
LEMMA OthersJoined ==
  ASSUME Inv, RowInv, NEW e \in DOMAIN pending \ Waiting, NEW f \in DOMAIN pending, f # e,
         pending[f].key = pending[e].key
  PROVE  f < e /\ pending[f].tx = pending[e].tx /\ Joined(f)
<1>1. ~Joined(e)
  <2>1. ASSUME NEW i \in 1..Len(stack), e \in Entries(stack, i) PROVE FALSE
    <3>1. e \in stack[i].entries /\ i \in DOMAIN stack
      BY <2>1, JoinedPending
    <3>2. QED
      BY <3>1 DEF Waiting
  <2>2. QED
    BY <2>1 DEF Joined
<1>2. e \in Nat /\ f \in Nat
  BY IdFacts
<1>3. e < f \/ f < e
  BY <1>2
<1>4. QED
  BY <1>1, <1>3 DEF RowInv, OneRunPerRow

(* A call outside any run is alone with its row.                           *)
LEMMA OutsideAlone ==
  ASSUME Inv, RowInv, NEW e \in DOMAIN pending \ Waiting, pending[e].tx = e,
         NEW f \in DOMAIN pending, pending[f].key = pending[e].key
  PROVE  f = e
<1> SUFFICES ASSUME f # e PROVE FALSE
  OBVIOUS
<1>1. pending[f].tx = e /\ Joined(f)
  BY OthersJoined
<1>2. PICK i \in 1..Len(stack) : f \in Entries(stack, i)
  BY <1>1 DEF Joined
<1>3. pending[f].tx = stack[i].id /\ stack[i].id \in RunIds
  BY <1>2 DEF RowInv, RunNames
<1>4. e \in 1..MaxIds /\ MaxIds \in Nat /\ txs \in Nat
  BY IdFacts
<1>5. e \in (MaxIds + 1)..(MaxIds + txs)
  BY <1>1, <1>3 DEF RunIds
<1>6. QED
  BY <1>4, <1>5

(* A call that commits on its own leaves nothing else of its row waiting.   *)
LEMMA CommitCallLeaves ==
  ASSUME Inv, Inv', RowInv, NEW e \in Ids, CommitCall(e), InsertAll({e})
  PROVE  /\ {e} \subseteq DOMAIN pending /\ \A x \in {e} : Alive(x)
         /\ RunNames' /\ StillWaiting /\ Leaving({e})
<1>1. /\ e \in DOMAIN pending \ Waiting /\ pending[e].tx = e
      /\ stack' = stack /\ txs' = txs /\ Rest
  BY DEF CommitCall
<1> DEFINE S == {e}
<1>2. S \subseteq DOMAIN pending /\ S # {} /\ \A x \in S : Alive(x)
  BY <1>1 DEF Alive
<1>3. \A f \in DOMAIN pending : pending[f].key = pending[e].key => f = e
  BY <1>1, OutsideAlone
<1>4. StackInOrder'
  BY DEF Inv
<1>5. InsertAll(S)
  OBVIOUS
<1>6. \A x \in S : pending[x].key = pending[e].key
  OBVIOUS
<1> HIDE DEF S
<1>7. Fewer /\ DOMAIN pending' = DOMAIN pending \ S /\ Committed \subseteq Committed'
  BY <1>1, <1>2, <1>5, InsertedTables DEF RowInv
<1>8. RunNames' /\ StillWaiting
  BY <1>1, <1>4, <1>7, SameRuns DEF RowInv
<1>9. Leaving(S)
  <2>1. \A f \in DOMAIN pending' : pending'[f].key # pending[e].key
    BY <1>3, <1>7 DEF Fewer, S
  <2>2. QED
    BY <1>6, <2>1 DEF Leaving
<1>10. QED
  BY <1>2, <1>8, <1>9 DEF S

(* A call outside any run.                                                 *)
LEMMA CommitCallRows ==
  ASSUME Inv, Inv', RowInv, NEW e \in Ids, CommitCall(e)
  PROVE  RowInv'
<1>1. /\ e \in DOMAIN pending \ Waiting /\ pending[e].tx = e
      /\ InsertAll({e}) \/ FailAll({e})
      /\ heads' = heads /\ stack' = stack /\ txs' = txs /\ Rest
  BY DEF CommitCall
<1> DEFINE S == {e}
<1>2. S \subseteq DOMAIN pending /\ S # {} /\ \A x \in S : Alive(x)
  BY <1>1 DEF Alive
<1>3. \A f \in DOMAIN pending : pending[f].key = pending[e].key => f = e
  BY <1>1, OutsideAlone
<1>4. StackInOrder'
  BY DEF Inv
<1>5. CASE InsertAll({e})
  BY <1>1, <1>5, CommitCallLeaves, InsertedRows
<1>6. CASE FailAll({e})
  <2>1. pending' = Without(pending, S) /\ lost' = lost \cup S /\ UNCHANGED <<rows, outbox, unstamped>>
        /\ dead' = dead
    BY <1>1, <1>6 DEF FailAll, Rest
  <2>2. \A x \in S : pending[x].key = pending[e].key
    OBVIOUS
  <2>3. Fewer /\ DOMAIN pending' = DOMAIN pending \ S /\ Committed \subseteq Committed'
    BY <2>1 DEF Fewer, Without, Committed
  <2>4. \A f \in DOMAIN pending' : pending'[f].key # pending[e].key
    BY <1>3, <2>3 DEF Fewer
  <2> HIDE DEF S
  <2>5. RunNames' /\ StillWaiting
    BY <1>1, <1>4, <2>3, SameRuns DEF RowInv
  <2>6. QED
    BY <1>1, <1>2, <2>1, <2>2, <2>4, <2>5, LostRows
<1>7. QED
  BY <1>1, <1>5, <1>6

(* A run ends: what it leaves of its rows came after its entries, and will *)
(* never be.                                                               *)
LEMMA RunLeaves ==
  ASSUME Inv, RowInv, NEW i \in 1..Len(stack), NEW S, S = Entries(stack, i),
         Fewer, DOMAIN pending' = DOMAIN pending \ S,
         \A e \in DOMAIN pending' : Alive(e)' => pending[e].tx # stack[i].id
  PROVE  Leaving(S)
<1> SUFFICES ASSUME NEW e \in S, NEW f \in DOMAIN pending', pending'[f].key = pending[e].key
             PROVE  e < f /\ ~Alive(f)'
  BY DEF Leaving
<1>1. e \in DOMAIN pending /\ f \in DOMAIN pending /\ pending[f].key = pending[e].key /\ f \notin S
      /\ f # e
  BY JoinedPending DEF Fewer
<1>2. pending[e].tx = stack[i].id
  BY DEF RowInv, RunNames
<1>3. e \in Nat /\ f \in Nat
  BY <1>1, IdFacts
<1>4. ASSUME f < e PROVE FALSE
  <2>1. pending[f].tx = pending[e].tx /\ Joined(f)
    BY <1>1, <1>4 DEF RowInv, OneRunPerRow
  <2>2. PICK j \in 1..Len(stack) : f \in Entries(stack, j)
    BY <2>1 DEF Joined
  <2>3. stack[j].id = stack[i].id
    BY <1>2, <2>1, <2>2 DEF RowInv, RunNames
  <2>4. j = i
    BY <2>3 DEF RowInv, RunNames
  <2>5. QED
    BY <1>1, <2>2, <2>4
<1>5. e < f
  BY <1>1, <1>3, <1>4
<1>6. pending[f].tx = stack[i].id
  BY <1>1, <1>2, <1>5 DEF RowInv, OneRunPerRow
<1>7. QED
  BY <1>5, <1>6

(* A run that commits leaves of its rows what can no longer be committed.   *)
LEMMA CommitTxLeaves ==
  ASSUME Inv, Inv', RowInv, NEW i \in DOMAIN stack, CommitTx(i), NEW S, S = stack[i].entries,
         InsertAll(S)
  PROVE  /\ S \subseteq DOMAIN pending /\ \A e \in S : Alive(e)
         /\ RunNames' /\ StillWaiting /\ Leaving(S)
<1> DEFINE t == [stack[i] EXCEPT !.phase = "stamping", !.entries = {Last(S)}]
<1>0. ~(S # {} /\ FailAll(S))
  <2>1. ASSUME S # {}, FailAll(S) PROVE FALSE
    <3>1. S \subseteq DOMAIN pending /\ DOMAIN pending \cap DOMAIN outbox = {}
      <4>1. stack[i].phase = "open" /\ i \in 1..Len(stack)
        BY StackOf DEF CommitTx, Inv
      <4>2. QED
        BY <4>1, IdFacts DEF Inv, StackInOrder, Entries, Committed
    <3>2. DOMAIN outbox' = DOMAIN outbox \cup S
      BY <3>1 DEF InsertAll, Join, Only
    <3>3. QED
      BY <2>1, <3>1, <3>2 DEF FailAll
  <2>2. QED
    BY <2>1
<1>1. /\ stack[i].phase = "open" /\ txs' = txs /\ Rest
      /\ stack' = Popped(i) \/ (S # {} /\ stack' = At(i, t))
  BY <1>0 DEF CommitTx, Fits
<1>2. StackInOrder /\ i \in 1..Len(stack) /\ stack[i] \in Tx /\ StackInOrder'
  BY StackOf DEF Inv
<1>3. S = Entries(stack, i) /\ S \subseteq DOMAIN pending /\ S \subseteq Ids
  BY <1>1, <1>2 DEF Entries, StackInOrder, Tx
<1>4. S # {} => t \in Tx /\ t.phase = "stamping" /\ t.id = stack[i].id /\ t.entries \subseteq S
  BY <1>2, <1>3, LastIn DEF Tx
<1>5. ASSUME NEW e \in S PROVE Alive(e)
  <2>1. pending[e].tx = stack[i].id
    BY <1>2, <1>3 DEF RowInv, RunNames
  <2>2. stack[i].id \in OpenRuns
    BY <1>1, <1>2 DEF OpenRuns
  <2>3. QED
    BY <2>1, <2>2 DEF Alive
<1> HIDE DEF t
<1>6. Fewer /\ DOMAIN pending' = DOMAIN pending \ S /\ Committed' = Committed \cup S
  BY <1>1, <1>3, InsertedTables DEF RowInv
<1>7. /\ RunNames' /\ StillWaiting
      /\ \A e \in DOMAIN pending' : Alive(e)' => pending[e].tx # stack[i].id
  <2>1. DOMAIN pending' \cap Entries(stack, i) = {} /\ Committed \subseteq Committed'
    BY <1>3, <1>6
  <2>2. CASE stack' = Popped(i)
    BY <1>1, <1>2, <1>6, <2>1, <2>2, PoppedRuns DEF RowInv
  <2>3. CASE S # {} /\ stack' = At(i, t)
    <3>1. t.entries \subseteq Committed'
      BY <1>4, <1>6, <2>3
    <3>2. QED
      BY <1>1, <1>2, <1>4, <1>6, <2>1, <2>3, <3>1, StampingRuns DEF RowInv
  <2>4. QED
    BY <1>1, <2>2, <2>3
<1>8. Leaving(S)
  BY <1>2, <1>3, <1>6, <1>7, RunLeaves
<1>9. QED
  BY <1>3, <1>5, <1>7, <1>8

(* The callback has returned.                                              *)
LEMMA CommitTxRows ==
  ASSUME Inv, Inv', RowInv, NEW i \in DOMAIN stack, CommitTx(i)
  PROVE  RowInv'
<1> DEFINE S == stack[i].entries
<1>1. /\ stack[i].phase = "open" /\ heads' = heads /\ txs' = txs /\ Rest
      /\ InsertAll(S) \/ (S # {} /\ FailAll(S) /\ stack' = Popped(i))
  BY DEF CommitTx, Fits
<1>2. StackInOrder /\ i \in 1..Len(stack) /\ StackInOrder'
  BY StackOf DEF Inv
<1>3. S = Entries(stack, i) /\ S \subseteq DOMAIN pending
  BY <1>1, <1>2 DEF Entries, StackInOrder
<1> HIDE DEF S
<1>4. CASE InsertAll(S)
  BY <1>1, <1>4, CommitTxLeaves, InsertedRows DEF S
<1>5. CASE S # {} /\ FailAll(S) /\ stack' = Popped(i)
  <2>1. pending' = Without(pending, S) /\ lost' = lost \cup S /\ UNCHANGED <<rows, outbox, unstamped>>
        /\ dead' = dead
    BY <1>1, <1>5 DEF FailAll, Rest
  <2>2. Fewer /\ DOMAIN pending' = DOMAIN pending \ S /\ Committed \subseteq Committed'
    BY <2>1 DEF Fewer, Without, Committed
  <2>3. /\ RunNames' /\ StillWaiting
        /\ \A e \in DOMAIN pending' : Alive(e)' => pending[e].tx # stack[i].id
    <3>1. DOMAIN pending' \cap Entries(stack, i) = {}
      BY <1>3, <2>2
    <3>2. QED
      BY <1>1, <1>2, <1>5, <2>2, <3>1, PoppedRuns DEF RowInv
  <2>4. Leaving(S)
    BY <1>2, <1>3, <2>2, <2>3, RunLeaves
  <2>5. \A e \in S, f \in DOMAIN pending' : pending'[f].key = pending[e].key => ~Alive(f)'
    BY <2>4 DEF Leaving
  <2>6. QED
    BY <1>1, <1>3, <1>5, <2>1, <2>3, <2>5, LostRows
<1>6. QED
  BY <1>1, <1>4, <1>5

(* The callback throws.                                                    *)
LEMMA FailTxRows ==
  ASSUME Inv, Inv', RowInv, NEW i \in DOMAIN stack, FailTx(i)
  PROVE  RowInv'
<1> DEFINE S == stack[i].entries
<1>1. /\ stack[i].phase = "open" /\ txs' = txs /\ Rest /\ S # {}
      /\ FailAll(S) /\ stack' = Popped(i) /\ heads' = heads
  BY DEF FailTx
<1>2. StackInOrder /\ i \in 1..Len(stack) /\ StackInOrder'
  BY StackOf DEF Inv
<1>3. S = Entries(stack, i) /\ S \subseteq DOMAIN pending
  BY <1>1, <1>2 DEF Entries, StackInOrder
<1> HIDE DEF S
<1>4. pending' = Without(pending, S) /\ lost' = lost \cup S /\ UNCHANGED <<rows, outbox, unstamped>>
      /\ dead' = dead
  BY <1>1 DEF FailAll, Rest
<1>5. Fewer /\ DOMAIN pending' = DOMAIN pending \ S /\ Committed \subseteq Committed'
  BY <1>4 DEF Fewer, Without, Committed
<1>6. /\ RunNames' /\ StillWaiting
      /\ \A e \in DOMAIN pending' : Alive(e)' => pending[e].tx # stack[i].id
  <2>1. DOMAIN pending' \cap Entries(stack, i) = {}
    BY <1>3, <1>5
  <2>2. QED
    BY <1>1, <1>2, <1>5, <2>1, PoppedRuns DEF RowInv
<1>7. Leaving(S)
  BY <1>2, <1>3, <1>5, <1>6, RunLeaves
<1>8. \A e \in S, f \in DOMAIN pending' : pending'[f].key = pending[e].key => ~Alive(f)'
  BY <1>7 DEF Leaving
<1>9. QED
  BY <1>1, <1>3, <1>4, <1>6, <1>8, LostRows

(* A call whose run is over.                                               *)
LEMMA AddTooLateRows ==
  ASSUME Inv, Inv', RowInv, NEW e \in Ids, AddTooLate(e)
  PROVE  RowInv'
<1> DEFINE S == {e}
<1>1. /\ e \in DOMAIN pending \ Waiting /\ pending[e].tx # e /\ Found(e, "open") = {}
      /\ pending' = Without(pending, S) /\ lost' = lost \cup S
      /\ UNCHANGED <<rows, outbox, unstamped>> /\ stack' = stack /\ txs' = txs /\ Rest
      /\ dead' = dead
      /\ heads' = heads \/ heads' = [heads EXCEPT ![pending[e].key] = e]
  BY DEF AddTooLate, Arriving, Rest
<1>9. \A k \in Keys : heads'[k] = heads[k] \/ heads'[k] \in S
  BY <1>1 DEF Inv, Tables
<1>2. ASSUME NEW f \in DOMAIN pending, pending[f].key = pending[e].key PROVE f = e
  <2> SUFFICES ASSUME f # e PROVE FALSE
    OBVIOUS
  <2>1. pending[f].tx = pending[e].tx /\ Joined(f)
    BY <1>1, <1>2, OthersJoined
  <2>2. PICK i \in 1..Len(stack) : f \in Entries(stack, i)
    BY <2>1 DEF Joined
  <2>3. stack[i].id = pending[e].tx
    BY <2>1, <2>2 DEF RowInv, RunNames
  <2>4. i \in Found(e, "open")
    BY <2>2, <2>3, JoinedPending DEF Found
  <2>5. QED
    BY <1>1, <2>4
<1>3. S \subseteq DOMAIN pending /\ S # {} /\ \A x \in S : pending[x].key = pending[e].key
  BY <1>1
<1>4. Fewer /\ DOMAIN pending' = DOMAIN pending \ S /\ Committed \subseteq Committed'
  BY <1>1 DEF Fewer, Without, Committed
<1>5. \A f \in DOMAIN pending' : pending'[f].key # pending[e].key
  BY <1>2, <1>4 DEF Fewer
<1>6. StackInOrder'
  BY DEF Inv
<1> HIDE DEF S
<1>7. RunNames' /\ StillWaiting
  BY <1>1, <1>4, <1>6, SameRuns DEF RowInv
<1>8. QED
  BY <1>1, <1>3, <1>5, <1>7, <1>9, LostRows

(* Only the stack changes, and no run that was over begins again.          *)
LEMMA StackRows ==
  ASSUME Inv, RowInv, UNCHANGED <<rows, outbox, heads, pending, unstamped, lost>>, Rest,
         RunNames', StillWaiting
  PROVE  RowInv'
<1>1. /\ config' = config /\ rows' = rows /\ replayed' = replayed /\ halfway' = halfway
      /\ crashes' = crashes /\ Keys' = Keys /\ log' = log /\ dead' = dead /\ push' = push
      /\ cutOff' = cutOff
  BY DEF Rest, Keys
<1>2. Committed' = Committed /\ Stored' = Stored /\ \A e : RowOf(e)' = RowOf(e)
  BY <1>1 DEF Committed, Stored, RowOf
<1>3. \A e : KeyOf(e)' = KeyOf(e) /\ RunOf(e)' = RunOf(e)
  BY <1>2 DEF KeyOf, RunOf
<1>4. OneRunPerRow'
  <2>1. Fewer
    BY DEF Fewer
  <2>2. QED
    BY <2>1, FewerOfRow DEF RowInv
<1>5. TablesAgree' /\ PendingNewer'
  BY <1>1, <1>2, <1>3 DEF RowInv, TablesAgree, PendingNewer
<1>6. Fitting'
  <2>1. \A e : Leads(e)' <=> Leads(e)
    BY DEF Leads, OfRow
  <2>2. QED
    BY <1>1, <2>1 DEF RowInv, Fitting, NoOverlap, StillWaiting
<1>7. NewestShown'
  <2>1. \A k : CommittedOf(k)' = CommittedOf(k)
    BY <1>2, <1>3 DEF CommittedOf
  <2>2. \A k \in Keys : config.foreign = {} => rows[k].val = Newest(CommittedOf(k)')
    BY <2>1 DEF RowInv, NewestShown
  <2> HIDE <2>1
  <2>3. QED
    BY <1>1, <2>2 DEF NewestShown, Newest, Last
<1>8. OneRunStamps'
  <2>1. \A e \in unstamped', f \in DOMAIN pending' : KeyOf(e)' = pending'[f].key => ~Alive(f)'
    BY <1>3 DEF RowInv, OneRunStamps, StillWaiting
  <2>2. QED
    BY <1>3, <2>1 DEF RowInv, OneRunStamps
<1>9. Calm' /\ Halfway'
  BY <1>1 DEF RowInv, Calm, Syncing, Halfway
<1>10. VersionsInStep'
  <2>1. ASSUME config.versions, NoOverlap, NEW k \in Keys
        PROVE  InStep(k)'
    <3>1. InStep(k)
      BY <1>1, <2>1 DEF RowInv, VersionsInStep
    <3>2. Unwritten(k)' = Unwritten(k)
      BY <1>3 DEF Unwritten
    <3>3. QED
      BY <1>1, <3>1, <3>2 DEF InStep, Excused, Reverted, Last
  <2>2. QED
    BY <1>1, <2>1 DEF VersionsInStep, NoOverlap
<1>11. QED
  BY <1>1, <1>4, <1>5, <1>6, <1>7, <1>8, <1>9, <1>10 DEF RowInv, CutByCrash

(* A run begins under a name nobody has had.                               *)
LEMMA BeginTxRows ==
  ASSUME Inv, Inv', RowInv, BeginTx
  PROVE  RowInv'
<1> DEFINE t == [id |-> TxName(txs + 1), phase |-> "open", entries |-> {}]
<1>1. /\ stack' = Append(stack, t) /\ txs' = txs + 1
      /\ UNCHANGED <<rows, outbox, heads, pending, unstamped, lost>> /\ Rest
      /\ dead' = dead
  BY DEF BeginTx, Rest
<1>2. stack \in Seq(Tx) /\ Len(stack) \in Nat /\ txs \in Nat /\ MaxIds \in Nat
      /\ DOMAIN pending \subseteq Ids /\ Ids \subseteq 1..MaxIds
  BY IdFacts DEF Inv, StackInOrder
<1> DEFINE n == MaxIds + txs + 1
<1>3. t.id = n /\ t.entries = {} /\ t.phase = "open"
  BY <1>2 DEF TxName
<1> HIDE DEF t
<1>4. /\ Len(stack') = Len(stack) + 1 /\ stack'[Len(stack) + 1] = t
      /\ \A j \in 1..Len(stack) : stack'[j] = stack[j]
  BY <1>1, <1>2
<1>5. \A j \in 1..Len(stack') : j = Len(stack) + 1 \/ j \in 1..Len(stack)
  BY <1>2, <1>4
<1>6. RunIds \subseteq RunIds' /\ n \in RunIds' /\ n \notin RunIds /\ n \notin Ids
  BY <1>1, <1>2 DEF RunIds
<1> HIDE DEF n
<1>7. \A j \in 1..Len(stack) : Entries(stack', j) = Entries(stack, j)
  BY <1>4 DEF Entries
<1>8. Entries(stack', Len(stack) + 1) = {}
  BY <1>3, <1>4 DEF Entries
<1>9. StillWaiting
  <2>1. ASSUME NEW e \in DOMAIN pending', Joined(e) PROVE Joined(e)'
    <3>1. PICK i \in 1..Len(stack) : e \in Entries(stack, i)
      BY <2>1 DEF Joined
    <3>2. i \in 1..Len(stack')
      BY <1>2, <1>4
    <3>3. QED
      BY <1>7, <3>1, <3>2 DEF Joined
  <2>2. ASSUME NEW e \in DOMAIN pending', Alive(e)' PROVE Alive(e)
    <3>1. pending[e].tx = e \/ pending[e].tx \in OpenRuns'
      BY <1>1, <2>2 DEF Alive
    <3>2. pending[e].tx # n
      BY <1>1, <1>2, <1>6 DEF RowInv, RunNames
    <3>3. OpenRuns' \subseteq OpenRuns \cup {n}
      BY <1>3, <1>4, <1>5 DEF OpenRuns
    <3>4. QED
      BY <3>1, <3>2, <3>3 DEF Alive
  <2>3. QED
    BY <2>1, <2>2 DEF StillWaiting
<1>10. RunNames'
  <2>1. \A j \in 1..Len(stack') : stack'[j].id \in RunIds'
    BY <1>3, <1>4, <1>5, <1>6 DEF RowInv, RunNames
  <2>2. \A e \in DOMAIN pending' : pending'[e].tx = e \/ pending'[e].tx \in RunIds'
    BY <1>1, <1>6 DEF RowInv, RunNames
  <2>3. \A j \in 1..Len(stack') : \A e \in Entries(stack', j) : pending'[e].tx = stack'[j].id
    BY <1>1, <1>4, <1>5, <1>7, <1>8 DEF RowInv, RunNames
  <2>4. \A j, m \in 1..Len(stack') : j # m => stack'[j].id # stack'[m].id
    BY <1>3, <1>4, <1>5, <1>6 DEF RowInv, RunNames
  <2>5. ASSUME NEW j \in 1..Len(stack'), stack'[j].phase = "stamping"
        PROVE  stack'[j].entries \subseteq Committed'
    <3>1. Committed' = Committed
      BY <1>1 DEF Committed
    <3>2. j \in 1..Len(stack)
      BY <1>3, <1>4, <1>5, <2>5
    <3>3. QED
      BY <1>4, <2>5, <3>1, <3>2 DEF RowInv, RunNames
  <2>6. QED
    BY <2>1, <2>2, <2>3, <2>4, <2>5 DEF RunNames
<1>11. QED
  BY <1>1, <1>9, <1>10, StackRows

(* A call's entry joins its run.                                           *)
LEMMA AddEntryRows ==
  ASSUME Inv, Inv', RowInv, NEW e \in Ids, AddEntry(e)
  PROVE  RowInv'
<1>1. UNCHANGED <<rows, outbox, heads, pending, txs, unstamped, lost>> /\ Rest /\ dead' = dead
  BY DEF AddEntry, Rest
<1>2. PICK i \in Found(e, "open") : stack' = At(i, [stack[i] EXCEPT !.entries = @ \cup {e}])
  BY DEF AddEntry
<1>3. i \in DOMAIN stack /\ stack[i].phase = "open" /\ stack[i].id = pending[e].tx
  BY DEF Found
<1>4. i \in 1..Len(stack) /\ stack[i] \in Tx
  BY <1>3, StackOf DEF Inv
<1> DEFINE t == [stack[i] EXCEPT !.entries = @ \cup {e}]
<1>5. t.id = stack[i].id /\ t.phase = "open" /\ t.entries = Entries(stack, i) \cup {e}
  BY <1>3, <1>4 DEF Tx, Entries
<1>6. stack' = At(i, t)
  BY <1>2
<1> HIDE DEF t
<1>7. stack \in Seq(Tx)
  BY DEF Inv, StackInOrder
<1>8. /\ Len(stack') = Len(stack) /\ stack'[i] = t
      /\ \A j \in 1..Len(stack) : j # i => stack'[j] = stack[j]
  BY <1>4, <1>6, <1>7 DEF At
<1>9. /\ Entries(stack', i) = Entries(stack, i) \cup {e}
      /\ \A j \in 1..Len(stack) : j # i => Entries(stack', j) = Entries(stack, j)
  BY <1>5, <1>8 DEF Entries
<1>10. \A j \in 1..Len(stack) : stack'[j].id = stack[j].id /\ stack'[j].phase = stack[j].phase
  BY <1>3, <1>5, <1>8
<1>11. OpenRuns' = OpenRuns /\ RunIds' = RunIds
  BY <1>1, <1>8, <1>10 DEF OpenRuns, RunIds
<1>12. StillWaiting
  <2>1. \A f \in DOMAIN pending' : Joined(f) => Joined(f)'
    BY <1>8, <1>9 DEF Joined
  <2>2. \A f \in DOMAIN pending' : Alive(f)' => Alive(f)
    BY <1>1, <1>11 DEF Alive
  <2>3. QED
    BY <2>1, <2>2 DEF StillWaiting
<1>13. RunNames'
  <2>1. \A j \in 1..Len(stack') : stack'[j].id \in RunIds'
    BY <1>8, <1>10, <1>11 DEF RowInv, RunNames
  <2>2. \A f \in DOMAIN pending' : pending'[f].tx = f \/ pending'[f].tx \in RunIds'
    BY <1>1, <1>11 DEF RowInv, RunNames
  <2>3. ASSUME NEW j \in 1..Len(stack'), NEW f \in Entries(stack', j)
        PROVE  pending'[f].tx = stack'[j].id
    <3>1. f \in Entries(stack, j) \/ (j = i /\ f = e)
      BY <1>8, <1>9
    <3>2. j \in 1..Len(stack) /\ stack'[j].id = stack[j].id
      BY <1>8, <1>10
    <3>3. QED
      BY <1>1, <1>3, <3>1, <3>2 DEF RowInv, RunNames
  <2>4. \A j, m \in 1..Len(stack') : j # m => stack'[j].id # stack'[m].id
    BY <1>8, <1>10 DEF RowInv, RunNames
  <2>5. ASSUME NEW j \in 1..Len(stack'), stack'[j].phase = "stamping"
        PROVE  stack'[j].entries \subseteq Committed'
    <3>1. Committed' = Committed
      BY <1>1 DEF Committed
    <3>2. j \in 1..Len(stack) /\ j # i
      BY <1>5, <1>8, <2>5
    <3>3. QED
      BY <1>8, <2>5, <3>1, <3>2 DEF RowInv, RunNames
  <2>6. QED
    BY <2>1, <2>2, <2>3, <2>4, <2>5 DEF RunNames
<1>14. QED
  BY <1>1, <1>12, <1>13, StackRows

(* writeRowVersion: the versions of a run are written in its order.        *)
LEMMA StampRows ==
  ASSUME Inv, Inv', RowInv, NEW e \in Ids, Stamp(e)
  PROVE  RowInv'
<1>1. /\ e \in unstamped
      /\ \A f \in unstamped : RunOf(f) = RunOf(e) => e <= f
      /\ heads' = [heads EXCEPT ![KeyOf(e)] = e]
      /\ unstamped' = unstamped \ {e}
      /\ stack' = IF Ending(e) = {} THEN stack ELSE Popped(CHOOSE i \in Ending(e) : TRUE)
      /\ UNCHANGED <<rows, outbox, pending, txs, lost>>
      /\ UNCHANGED <<log, config, dead, nextId, cutOff, push, late, replayed, halfway, crashes>>
  BY DEF Stamp, Rest, RunOf, KeyOf
<1>2. Committed' = Committed /\ Stored' = Stored /\ Keys' = Keys /\ \A f : RowOf(f)' = RowOf(f)
  BY <1>1 DEF Committed, Stored, RowOf, Keys
<1>3. \A f : KeyOf(f)' = KeyOf(f) /\ RunOf(f)' = RunOf(f)
  BY <1>2 DEF KeyOf, RunOf
<1>4. Fewer /\ StackInOrder'
  BY <1>1 DEF Fewer, Inv
<1>5. RunNames' /\ StillWaiting
  <2>1. CASE Ending(e) = {}
    BY <1>1, <1>2, <1>4, <2>1, SameRuns DEF RowInv
  <2>2. CASE Ending(e) # {}
    <3>1. PICK i \in Ending(e) : stack' = Popped(i)
      BY <1>1, <2>2
    <3>2. i \in DOMAIN stack /\ stack[i].phase = "stamping"
      BY DEF Ending
    <3>3. i \in 1..Len(stack)
      BY <3>2 DEF Inv, StackInOrder
    <3>4. DOMAIN pending' \cap Entries(stack, i) = {}
      BY <3>2 DEF Entries
    <3>5. QED
      BY <1>1, <1>2, <1>4, <3>1, <3>3, <3>4, PoppedRuns DEF RowInv
  <2>3. QED
    BY <2>1, <2>2
<1>6. OneRunPerRow'
  BY <1>4, <1>5, FewerOfRow DEF RowInv
<1>7. TablesAgree' /\ PendingNewer'
  BY <1>1, <1>2, <1>3 DEF RowInv, TablesAgree, PendingNewer
<1>8. Fitting'
  <2>1. \A f : Leads(f)' <=> Leads(f)
    BY <1>1 DEF Leads, OfRow
  <2>2. QED
    BY <1>1, <1>5, <2>1 DEF RowInv, Fitting, NoOverlap, StillWaiting
<1>9. NewestShown'
  <2>1. \A k : CommittedOf(k)' = CommittedOf(k)
    BY <1>2, <1>3 DEF CommittedOf
  <2>2. \A k \in Keys : config.foreign = {} => rows[k].val = Newest(CommittedOf(k)')
    BY <2>1 DEF RowInv, NewestShown
  <2> HIDE <2>1
  <2>3. QED
    BY <1>1, <1>2, <2>2 DEF NewestShown, Newest, Last
<1>10. OneRunStamps'
  BY <1>1, <1>3, <1>5 DEF RowInv, OneRunStamps, StillWaiting
<1>11. Calm' /\ Halfway'
  BY <1>1 DEF RowInv, Calm, Syncing, Halfway
<1>12. VersionsInStep'
  <2>1. ASSUME config.versions, NoOverlap, NEW k \in Keys
        PROVE  InStep(k)'
    <3>1. InStep(k)
      BY <1>1, <2>1 DEF RowInv, VersionsInStep
    <3>2. Unwritten(k)' = Unwritten(k) \ {e}
      BY <1>1, <1>3 DEF Unwritten
    <3>3. CASE KeyOf(e) # k
      <4>1. heads'[k] = heads[k] /\ Unwritten(k)' = Unwritten(k)
        BY <1>1, <3>2, <3>3 DEF Inv, Tables, Unwritten
      <4>2. QED
        BY <1>1, <3>1, <4>1 DEF InStep, Excused, Reverted, Last
    <3>4. CASE KeyOf(e) = k
      <4>1. halfway = NoEvent
        BY <1>1, <2>1 DEF RowInv, Halfway, Calm, Syncing, NoOverlap
      <4>2. e \in Unwritten(k) /\ Unwritten(k) \subseteq Ids
        BY <1>1, <3>4, IdFacts DEF Unwritten
      <4>3. rows[k].val = Last(Unwritten(k))
        BY <3>1, <4>1, <4>2 DEF InStep
      <4>4. heads'[k] = e
        BY <1>1, <3>4 DEF Inv, Tables
      <4>5. Last(Unwritten(k)) \in Unwritten(k) /\ \A f \in Unwritten(k) : f <= Last(Unwritten(k))
        BY <4>2, LastIn
      <4>6. \A f \in Unwritten(k) : e <= f
        BY <1>1, <4>2 DEF Unwritten, RowInv, OneRunStamps
      <4>7. CASE Unwritten(k) = {e}
        <5>1. rows[k].val = e /\ Unwritten(k)' = {}
          BY <3>2, <4>3, <4>5, <4>7
        <5>2. QED
          BY <1>1, <4>1, <4>4, <5>1 DEF InStep
      <4>8. CASE Unwritten(k) # {e}
        <5>1. PICK f \in Unwritten(k) : f # e
          BY <4>2, <4>8
        <5>2. Ids \subseteq Nat
          BY IdFacts
        <5>3. Last(Unwritten(k)) # e
          <6>1. f \in Nat /\ e \in Nat
            BY <4>2, <5>2
          <6>2. e <= f /\ f <= Last(Unwritten(k))
            BY <4>5, <4>6
          <6>3. QED
            BY <5>1, <6>1, <6>2
        <5>4. Last(Unwritten(k)) \in Unwritten(k) \ {e}
          BY <4>5, <5>3
        <5>5. Last(Unwritten(k) \ {e}) = Last(Unwritten(k))
          <6>1. Unwritten(k) \ {e} \subseteq Ids /\ \A g \in Unwritten(k) \ {e} : g <= Last(Unwritten(k))
            BY <4>2, <4>5
          <6>2. QED
            BY <5>4, <6>1, LastIs
        <5>6. rows[k].val = Last(Unwritten(k)') /\ Unwritten(k)' # {}
          BY <3>2, <4>3, <5>4, <5>5
        <5>7. QED
          BY <1>1, <4>1, <5>6 DEF InStep, Excused, Reverted, Last
      <4>9. QED
        BY <4>7, <4>8
    <3>5. QED
      BY <3>3, <3>4
  <2>2. QED
    BY <1>1, <1>2, <2>1 DEF VersionsInStep, NoOverlap
<1>13. QED
  BY <1>1, <1>5, <1>6, <1>7, <1>8, <1>9, <1>10, <1>11, <1>12 DEF RowInv, CutByCrash

(* What a call adds.                                                       *)
LEMMA CallAdds ==
  ASSUME Inv, NEW k \in Keys, NEW type, Call(k, type)
  PROVE  /\ DOMAIN pending' = DOMAIN pending \cup {nextId}
         /\ pending'[nextId].key = k /\ pending'[nextId].type = type
         /\ pending'[nextId].tx = IF stack = <<>> THEN nextId ELSE stack[Len(stack)].id
         /\ \A e \in DOMAIN pending : e < nextId /\ pending'[e] = pending[e]
         /\ \A e \in Committed : e < nextId
         /\ nextId \in Nat
<1> DEFINE tx  == IF stack = <<>> THEN nextId ELSE stack[Len(stack)].id
           row == [tx |-> tx, key |-> k, type |-> type, base |-> BaseVersion(k),
                   synced |-> FALSE, attempts |-> 0, wait |-> 0]
           new == [e \in {nextId} |-> row]
<1>1. pending' = Join(pending, new)
  BY DEF Call
<1>2. nextId \in Nat /\ \A e \in DOMAIN pending \cup Committed : e < nextId
  BY IdFacts
<1>3. nextId \notin DOMAIN pending
  BY <1>2
<1>4. row.key = k /\ row.type = type /\ row.tx = tx
  OBVIOUS
<1> HIDE DEF row
<1>5. DOMAIN pending' = DOMAIN pending \cup {nextId} /\ pending'[nextId] = row
      /\ \A e \in DOMAIN pending : pending'[e] = pending[e]
  BY <1>1, <1>3 DEF Join
<1>6. QED
  BY <1>2, <1>4, <1>5

(* A call has the row to itself, or in the run it joins.                   *)
LEMMA CallRows ==
  ASSUME Inv, Inv', RowInv, NEW k \in Keys, NEW type \in MutationTypes, Call(k, type)
  PROVE  RowInv'
<1> DEFINE n == nextId
<1>1. /\ config.busy \/ ~Syncing
      /\ ~InHand(k) /\ Seen(k) = (type # "insert")
      /\ UNCHANGED <<log, config, rows, outbox, dead, heads, stack, txs, unstamped, lost, cutOff,
                     push, late, replayed, halfway, crashes>>
  BY DEF Call
<1>2. /\ DOMAIN pending' = DOMAIN pending \cup {n}
      /\ pending'[n].key = k /\ pending'[n].type = type
      /\ pending'[n].tx = IF stack = <<>> THEN n ELSE stack[Len(stack)].id
      /\ \A e \in DOMAIN pending : e < n /\ pending'[e] = pending[e]
      /\ \A e \in Committed : e < n
      /\ n \in Nat
  BY CallAdds
<1> HIDE DEF n
<1>3. n \notin DOMAIN pending /\ DOMAIN pending \subseteq Nat
  BY <1>2, IdFacts
<1>4. Committed' = Committed /\ Stored' = Stored /\ Keys' = Keys /\ \A f : RowOf(f)' = RowOf(f)
  BY <1>1 DEF Committed, Stored, RowOf, Keys
<1>5. \A f : KeyOf(f)' = KeyOf(f) /\ RunOf(f)' = RunOf(f)
  BY <1>4 DEF KeyOf, RunOf
<1>6. /\ OpenRuns' = OpenRuns /\ RunIds' = RunIds
      /\ \A f : Joined(f)' <=> Joined(f)
  BY <1>1 DEF OpenRuns, RunIds, Joined, Entries
<1>7. \A f \in DOMAIN pending : Alive(f)' <=> Alive(f)
  BY <1>2, <1>6 DEF Alive
<1>8. stack \in Seq(Tx) /\ \A i \in 1..Len(stack) : Entries(stack, i) \subseteq DOMAIN pending
  BY DEF Inv, StackInOrder
<1>9. stack # <<>> => Len(stack) \in 1..Len(stack)
  BY <1>8
<1>10. ASSUME NEW f \in DOMAIN pending, pending[f].key = k
       PROVE  stack # <<>> /\ f \in Entries(stack, Len(stack))
  <2>1. OfRow(k, DOMAIN pending \ UNION {t.entries : t \in Ambient}) = {}
    BY <1>1 DEF InHand
  <2>2. f \in UNION {t.entries : t \in Ambient}
    BY <1>10, <2>1 DEF OfRow
  <2>3. stack # <<>> /\ f \in stack[Len(stack)].entries
    BY <2>2 DEF Ambient
  <2>4. stack[Len(stack)] \in Tx
    BY <1>8, <1>9, <2>3
  <2>5. stack[Len(stack)].phase # "stamping"
    <3>1. f \notin Committed
      BY <1>10, IdFacts
    <3>2. QED
      BY <1>9, <2>3, <3>1 DEF RowInv, RunNames
  <2>6. stack[Len(stack)].phase = "open"
    BY <2>4, <2>5 DEF Tx
  <2>7. QED
    BY <2>3, <2>6 DEF Entries
<1>11. TablesAgree'
  BY <1>1, <1>4 DEF RowInv, TablesAgree
<1>12. RunNames'
  <2>1. \A i \in 1..Len(stack') : stack'[i].id \in RunIds'
    BY <1>1, <1>6 DEF RowInv, RunNames
  <2>2. \A e \in DOMAIN pending' : pending'[e].tx = e \/ pending'[e].tx \in RunIds'
    BY <1>2, <1>6, <1>9 DEF RowInv, RunNames
  <2>3. \A i \in 1..Len(stack') : \A e \in Entries(stack', i) : pending'[e].tx = stack'[i].id
    BY <1>1, <1>2, <1>8 DEF RowInv, RunNames
  <2>4. \A i, j \in 1..Len(stack') : i # j => stack'[i].id # stack'[j].id
    BY <1>1 DEF RowInv, RunNames
  <2>5. \A i \in 1..Len(stack') :
          stack'[i].phase = "stamping" => stack'[i].entries \subseteq Committed'
    BY <1>1, <1>4 DEF RowInv, RunNames
  <2>6. QED
    BY <2>1, <2>2, <2>3, <2>4, <2>5 DEF RunNames
<1>13. OneRunPerRow'
  <2>1. ASSUME NEW e \in DOMAIN pending', NEW f \in DOMAIN pending',
               pending'[e].key = pending'[f].key, e < f
        PROVE  pending'[e].tx = pending'[f].tx /\ Joined(e)'
    <3>1. CASE e \in DOMAIN pending /\ f \in DOMAIN pending
      BY <1>2, <1>6, <2>1, <3>1 DEF RowInv, OneRunPerRow
    <3>2. CASE f = n /\ e \in DOMAIN pending
      <4>1. stack # <<>> /\ e \in Entries(stack, Len(stack))
        BY <1>2, <1>10, <2>1, <3>2
      <4>2. pending[e].tx = stack[Len(stack)].id
        BY <1>9, <4>1 DEF RowInv, RunNames
      <4>3. Joined(e)
        BY <1>9, <4>1 DEF Joined
      <4>4. QED
        BY <1>2, <1>6, <3>2, <4>1, <4>2, <4>3
    <3>3. CASE e = n
      <4>1. f = n \/ f < n
        BY <1>2
      <4>2. f \in Nat /\ n \in Nat
        BY <1>2, <1>3
      <4>3. FALSE
        BY <2>1, <3>3, <4>1, <4>2
      <4>4. QED
        BY <4>3
    <3>4. QED
      BY <1>2, <3>1, <3>2, <3>3
  <2>2. QED
    BY <2>1 DEF OneRunPerRow
<1>14. PendingNewer'
  <2>1. ASSUME NEW e \in DOMAIN pending', NEW f \in Committed, KeyOf(f) = pending'[e].key
        PROVE  f < e
    BY <1>2, <2>1 DEF RowInv, PendingNewer
  <2>2. QED
    BY <1>4, <1>5, <2>1 DEF PendingNewer
<1>15. Fitting'
  <2>1. ASSUME NoOverlap, NEW e \in DOMAIN pending', Alive(e)', Leads(e)'
        PROVE  (pending'[e].type # "insert") = rows'[pending'[e].key].live
    <3>1. CASE e = n
      <4>1. ASSUME NEW f \in OfRow(k, DOMAIN pending) PROVE FALSE
        <5>1. f \in DOMAIN pending /\ pending[f].key = k
          BY <4>1 DEF OfRow
        <5>2. f \in DOMAIN pending' /\ pending'[f].key = k /\ f < n
          BY <1>2, <5>1
        <5>3. \A g \in DOMAIN pending' : pending'[g].key = k => n <= g
          BY <1>2, <2>1, <3>1 DEF Leads, OfRow
        <5>4. n <= f
          BY <5>2, <5>3
        <5>5. n \in Nat /\ f \in Nat
          BY <1>2, <1>3, <5>1
        <5>6. QED
          BY <5>2, <5>4, <5>5
      <4>2. OfRow(k, DOMAIN pending) = {}
        BY <4>1
      <4>3. Seen(k) = rows[k].live
        BY <4>2 DEF Seen
      <4>4. QED
        BY <1>1, <1>2, <3>1, <4>3
    <3>2. CASE e \in DOMAIN pending
      <4>1. PICK q : q = pending[e].key
        OBVIOUS
      <4>2. pending'[e].key = q /\ pending'[e].type = pending[e].type /\ Alive(e)
        BY <1>2, <1>7, <2>1, <3>2, <4>1
      <4>3. \A g \in DOMAIN pending' : pending'[g].key = q => e <= g
        BY <2>1, <4>2 DEF Leads, OfRow
      <4>4. \A g \in DOMAIN pending : pending[g].key = q => e <= g
        BY <1>2, <4>3
      <4>5. Leads(e)
        BY <4>1, <4>4 DEF Leads, OfRow
      <4>6. (pending[e].type # "insert") = rows[q].live
        BY <2>1, <3>2, <4>1, <4>2, <4>5 DEF RowInv, Fitting
      <4>7. QED
        BY <1>1, <4>2, <4>6
    <3>3. QED
      BY <1>2, <3>1, <3>2
  <2>2. QED
    BY <1>1, <2>1 DEF Fitting, NoOverlap
<1>16. NewestShown'
  <2>1. \A q : CommittedOf(q)' = CommittedOf(q)
    BY <1>4, <1>5 DEF CommittedOf
  <2>2. \A q \in Keys : config.foreign = {} => rows[q].val = Newest(CommittedOf(q)')
    BY <2>1 DEF RowInv, NewestShown
  <2> HIDE <2>1
  <2>3. QED
    BY <1>1, <1>4, <2>2 DEF NewestShown, Newest, Last
<1>17. OneRunStamps'
  <2>1. ASSUME NEW e \in unstamped, NEW f \in DOMAIN pending', KeyOf(e) = pending'[f].key
        PROVE  ~Alive(f)'
    <3>1. CASE f = n
      BY <1>1, <1>2, <2>1, <3>1 DEF InHand, KeyOf
    <3>2. CASE f \in DOMAIN pending
      BY <1>2, <1>7, <2>1, <3>2 DEF RowInv, OneRunStamps
    <3>3. QED
      BY <1>2, <3>1, <3>2
  <2>2. QED
    BY <1>1, <1>5, <2>1 DEF RowInv, OneRunStamps
<1>18. Calm' /\ Halfway'
  BY <1>1 DEF RowInv, Calm, Syncing, Halfway
<1>19. VersionsInStep'
  <2>1. ASSUME config.versions, NoOverlap, NEW q \in Keys
        PROVE  InStep(q)'
    <3>1. InStep(q)
      BY <1>1, <2>1 DEF RowInv, VersionsInStep
    <3>2. Unwritten(q)' = Unwritten(q)
      BY <1>1, <1>5 DEF Unwritten
    <3>3. QED
      BY <1>1, <3>1, <3>2 DEF InStep, Excused, Reverted, Last
  <2>2. QED
    BY <1>1, <1>4, <2>1 DEF VersionsInStep, NoOverlap
<1>20. QED
  BY <1>1, <1>11, <1>12, <1>13, <1>14, <1>15, <1>16, <1>17, <1>18, <1>19 DEF RowInv, CutByCrash

-----------------------------------------------------------------------------
(* A push, other devices and crashes, seen from the rows.                  *)

(* What the server does not forget.                                        *)
LogGrows == \A e \in DOMAIN log : e \in DOMAIN log' /\ log'[e] = log[e]

(* No step takes an event from the server's log.                           *)
LEMMA ServerGrows ==
  ASSUME NEW group, NEW faults, NEW result \in ServerResults(group, faults), log' = result.log
  PROVE  LogGrows /\ DOMAIN log' \subseteq DOMAIN log \cup Eids(group)
<1>1. CASE result = Result(Appended(group), AllConfirmed(group))
  BY <1>1 DEF Result, Appended, LogGrows
<1>2. CASE result.log = log
  BY <1>2 DEF LogGrows
<1>3. \/ result = Result(Appended(group), AllConfirmed(group))
      \/ result = Result(log, Aborted(group, Conflicting(group), "conflict"))
      \/ \E b \in Fresh(group) : result = Result(log, Aborted(group, {b}, "rejected"))
      \/ result = Result(log, AllTransient(group))
  BY DEF ServerResults
<1>4. result = Result(Appended(group), AllConfirmed(group)) \/ result.log = log
  <2>1. \A a : Result(log, a).log = log
    BY DEF Result
  <2> HIDE DEF Result
  <2>2. QED
    BY <1>3, <2>1
<1>5. QED
  BY <1>1, <1>2, <1>4

(* A push changes how a row of the outbox waits, not what it is about.     *)
SameContents ==
  /\ DOMAIN outbox' = DOMAIN outbox
  /\ \A e \in DOMAIN outbox : outbox'[e].key = outbox[e].key /\ outbox'[e].tx = outbox[e].tx

(* An attempt that is charged changes no contents.                         *)
LEMMA ChargedContents ==
  ASSUME NEW e, Partial(outbox, Ids, Row), e \in DOMAIN outbox
  PROVE  /\ Charged(outbox[e]).key = outbox[e].key /\ Charged(outbox[e]).tx = outbox[e].tx
         /\ \A w : /\ [Charged(outbox[e]) EXCEPT !.wait = w].key = outbox[e].key
                   /\ [Charged(outbox[e]) EXCEPT !.wait = w].tx = outbox[e].tx
                   /\ [outbox[e] EXCEPT !.wait = w].key = outbox[e].key
                   /\ [outbox[e] EXCEPT !.wait = w].tx = outbox[e].tx
<1>1. outbox[e] \in Row
  BY DEF Partial
<1>2. QED
  BY <1>1 DEF Charged, Row

(* Rows of the same contents have the same newest events.                  *)
LEMMA SameContentsRows ==
  ASSUME RowInv, SameContents, dead' = dead, Stored' \subseteq Committed
  PROVE  /\ TablesAgree' /\ Committed' = Committed
         /\ \A e \in Committed : KeyOf(e)' = KeyOf(e) /\ RunOf(e)' = RunOf(e)
<1>1. Committed' = Committed
  BY DEF SameContents, Committed
<1>2. TablesAgree'
  BY <1>1 DEF RowInv, TablesAgree, SameContents
<1>3. \A e \in Committed : KeyOf(e)' = KeyOf(e) /\ RunOf(e)' = RunOf(e)
  BY DEF SameContents, KeyOf, RunOf, RowOf
<1>4. QED
  BY <1>1, <1>2, <1>3

(* A step of a push that parks nothing.                                    *)
LEMMA PushRows ==
  ASSUME Inv, RowInv, Aside, crashes' = crashes, dead' = dead, heads' = heads, SameContents,
         LogGrows, Stored' \subseteq Held,
         Syncing' => Syncing \/ MaySync,
         push' = push \/ push.phase # "pull" \/ halfway = NoEvent
  PROVE  RowInv'
<1>1. UNCHANGED <<config, rows, calls, replayed, halfway, crashes>>
  BY DEF Aside
<1>2. pending' = pending /\ unstamped' = unstamped /\ lost' = lost
  BY <1>1 DEF calls
<1>3. Stored' \subseteq Committed
  BY DEF Held, Committed, RowInv, TablesAgree
<1>4. /\ TablesAgree' /\ Committed' = Committed
      /\ \A e \in Committed : KeyOf(e)' = KeyOf(e) /\ RunOf(e)' = RunOf(e)
  BY <1>3, SameContentsRows
<1>5. Calm'
  <2>1. pending = Empty => DOMAIN pending = {}
    BY DEF Empty
  <2>2. QED
    BY <1>1, <1>2, <2>1 DEF RowInv, Calm, MaySync
<1>6. Halfway'
  BY <1>1 DEF RowInv, Halfway, LogGrows
<1>7. QED
  BY <1>1, <1>4, <1>5, <1>6, QuietRows DEF LogGrows

(* A push reads its next batch; the stamped of them are settled.           *)
LEMMA NextBatchRows ==
  ASSUME Inv, RowInv, StartPush \/ ContinuePush
  PROVE  RowInv'
<1>1. Partial(outbox, Ids, Row) /\ Sending
  BY DEF Inv, Tables
<1>2. PICK S \in SUBSET Unsynced : SendOrPull(S)
  <2>1. Due \in SUBSET Unsynced /\ push.due \in SUBSET Unsynced
    BY <1>1 DEF Due, Sending
  <2>2. QED
    BY <2>1 DEF StartPush, ContinuePush
<1>3. /\ Aside /\ UNCHANGED <<log, dead, heads, late, crashes>>
      /\ push.phase \in {"idle", "apply"} /\ (push.phase = "idle" => MaySync)
  BY DEF StartPush, ContinuePush
<1>4. SameContents
  <2>1. CASE S = {}
    BY <1>2, <2>1 DEF SendOrPull, SameContents
  <2>2. CASE S # {}
    <3> DEFINE sent == Eids(Events(NextBatch(S)))
    <3>1. outbox' = [e \in DOMAIN outbox |->
                       IF e \in sent THEN [Charged(outbox[e]) EXCEPT !.wait = 0] ELSE outbox[e]]
      BY <1>2, <2>2 DEF SendOrPull, SendBatch
    <3> HIDE DEF sent
    <3>2. QED
      BY <1>1, <3>1, ChargedContents DEF SameContents
  <2>3. QED
    BY <2>1, <2>2
<1>5. LogGrows /\ Stored' \subseteq Held
  BY <1>3 DEF LogGrows, Stored, Held
<1>6. QED
  BY <1>3, <1>4, <1>5, PushRows DEF Syncing

(* A step that only gets the answer, ends or breaks off a push.            *)
LEMMA InHandRows ==
  ASSUME Inv, RowInv, ReceiveReply \/ TransportError \/ EndSync \/ (\E e \in Ids : ParkThrows(e))
  PROVE  RowInv'
<1>1. /\ Aside /\ UNCHANGED <<log, outbox, dead, heads, crashes>>
      /\ push.phase \in {"waiting", "apply"} \/ (push.phase = "pull" /\ halfway = NoEvent)
  BY DEF ReceiveReply, TransportError, EndSync, ParkThrows, Applying
<1>2. SameContents /\ LogGrows /\ Stored' \subseteq Held
  BY <1>1 DEF SameContents, LogGrows, Stored, Held
<1>3. Syncing /\ (push.phase # "pull" \/ halfway = NoEvent)
  BY <1>1 DEF Syncing
<1>4. QED
  BY <1>1, <1>2, <1>3, PushRows

(* The server takes a group.                                               *)
LEMMA ServeRows ==
  ASSUME Inv, RowInv, ServePush \/ ServeLate
  PROVE  RowInv'
<1>1. /\ Aside /\ UNCHANGED <<outbox, dead, heads, crashes>>
      /\ push' = push \/ push.phase = "waiting"
      /\ Syncing' => Syncing
  BY DEF ServePush, ServeLate, Syncing
<1>2. PICK group : /\ Eids(group) \subseteq Held
                   /\ \E result \in ServerResults(group, config.faults) : log' = result.log
  <2>1. CASE ServePush
    <3>1. push.open # {} /\ Sent(push.open, Held)
      BY <2>1 DEF ServePush, Inv, Sending
    <3>2. Head1(push.open) \in push.open
      BY <3>1, Head1In
    <3>3. Eids(Head1(push.open)) \subseteq Held
      BY <3>1, <3>2 DEF Sent, Eids
    <3>4. QED
      BY <2>1, <3>3 DEF ServePush
  <2>2. CASE ServeLate
    <3>1. PICK r \in late :
            \E result \in ServerResults(Head1(r), config.faults) : log' = result.log
      BY <2>2 DEF ServeLate
    <3>2. r # {} /\ Sent(r, Held)
      BY DEF Inv, LateSent
    <3>3. Head1(r) \in r
      BY <3>2, Head1In
    <3>4. Eids(Head1(r)) \subseteq Held
      BY <3>2, <3>3, GroupHeld
    <3>5. QED
      BY <3>1, <3>4
  <2>3. QED
    BY <2>1, <2>2
<1>3. PICK result \in ServerResults(group, config.faults) : log' = result.log
  BY <1>2
<1>4. LogGrows /\ DOMAIN log' \subseteq DOMAIN log \cup Eids(group)
  BY <1>3, ServerGrows
<1>5. Stored' \subseteq Held
  BY <1>2, <1>4 DEF Stored, Held
<1>6. SameContents
  BY <1>1 DEF SameContents
<1>7. QED
  BY <1>1, <1>4, <1>5, <1>6, PushRows

(* A confirmation, a back-off, and time that passes.                       *)
LEMMA WaitRows ==
  ASSUME Inv, RowInv, (\E e \in Ids : Confirm(e) \/ BackOff(e)) \/ BackoffTick
  PROVE  RowInv'
<1>1. Partial(outbox, Ids, Row)
  BY DEF Inv, Tables
<1>2. /\ Aside /\ UNCHANGED <<log, dead, heads, crashes>>
      /\ push' = push \/ push.phase = "apply"
      /\ Syncing' => Syncing
  BY DEF Confirm, BackOff, BackoffTick, Applying, Syncing
<1>3. SameContents
  <2>1. ASSUME NEW e \in Ids, Confirm(e) PROVE SameContents
    <3>1. outbox' = [outbox EXCEPT ![e].synced = TRUE, ![e].wait = 0] /\ e \in DOMAIN outbox
      BY <2>1, ToApplyIn DEF Confirm
    <3>2. outbox[e] \in Row
      BY <1>1, <3>1 DEF Partial
    <3>3. QED
      BY <3>1, <3>2 DEF SameContents, Row
  <2>2. ASSUME NEW e \in Ids, BackOff(e) PROVE SameContents
    <3>1. outbox' = [outbox EXCEPT ![e].wait = Delay(outbox[e].attempts)] /\ e \in DOMAIN outbox
      BY <2>2, ToApplyIn DEF BackOff
    <3>2. outbox[e] \in Row
      BY <1>1, <3>1 DEF Partial
    <3>3. QED
      BY <3>1, <3>2 DEF SameContents, Row
  <2>3. CASE BackoffTick
    <3>1. outbox' = [e \in DOMAIN outbox |->
                       [outbox[e] EXCEPT !.wait = IF @ > 0 THEN @ - 1 ELSE 0]]
      BY <2>3 DEF BackoffTick
    <3>2. \A e \in DOMAIN outbox : outbox[e] \in Row
      BY <1>1 DEF Partial
    <3>3. QED
      BY <3>1, <3>2 DEF SameContents, Row
  <2>4. QED
    BY <2>1, <2>2, <2>3
<1>4. LogGrows /\ Stored' \subseteq Held
  BY <1>2 DEF LogGrows, Stored, Held
<1>5. QED
  BY <1>2, <1>3, <1>4, PushRows

(* Another device writes.                                                  *)
LEMMA ForeignRows ==
  ASSUME Inv, RowInv, NEW f \in ForeignIds, NEW k \in Keys, Foreign(f, k)
  PROVE  RowInv'
<1>1. UNCHANGED <<outbox, dead, heads, push, late, crashes>> /\ Aside
  BY DEF Foreign
<1>2. PICK type \in MutationTypes :
        log' = Appended({[eid |-> f, tx |-> f, key |-> k, type |-> type, val |-> f,
                          base |-> NoEvent, seq |-> f]})
  BY DEF Foreign
<1>3. DOMAIN log' = DOMAIN log \cup {f} /\ LogGrows
  BY <1>2 DEF Appended, Eids, LogGrows
<1>4. f \notin Ids
  BY ForeignApart
<1>5. Stored' \subseteq Held
  BY <1>3, <1>4 DEF Stored, Held
<1>6. SameContents /\ (Syncing' => Syncing)
  BY <1>1 DEF SameContents, Syncing
<1>7. QED
  BY <1>1, <1>3, <1>5, <1>6, PushRows

(* What a dead letter keeps.                                               *)
LEMMA ParkedContents ==
  ASSUME Inv, RowInv, NEW e \in DOMAIN outbox, dead' = Recorded(e), log' = log,
         outbox' = outbox \/ outbox' = Without(outbox, {e})
  PROVE  /\ TablesAgree' /\ Committed' = Committed
         /\ \A f \in Committed : KeyOf(f)' = KeyOf(f) /\ RunOf(f)' = RunOf(f)
         /\ dead'[e] = outbox[e] /\ e \in DOMAIN dead'
         /\ \A f \in DOMAIN dead \ {e} : f \in DOMAIN dead' /\ dead'[f] = dead[f]
<1>1. /\ DOMAIN dead' = DOMAIN dead \cup {e} /\ dead'[e] = outbox[e]
      /\ \A f \in DOMAIN dead \ {e} : dead'[f] = dead[f]
  BY DEF Recorded, Join, Only
<1>2. /\ DOMAIN outbox \ {e} \subseteq DOMAIN outbox' /\ DOMAIN outbox' \subseteq DOMAIN outbox
      /\ \A f \in DOMAIN outbox' : outbox'[f] = outbox[f]
  BY DEF Without
<1>3. Committed' = Committed /\ Stored' = Stored
  BY <1>1, <1>2 DEF Committed, Stored
<1>4. \A f \in DOMAIN outbox \cap DOMAIN dead :
        outbox[f].key = dead[f].key /\ outbox[f].tx = dead[f].tx
  BY DEF RowInv, TablesAgree
<1>5. TablesAgree'
  <2>1. Stored' \subseteq Committed'
    BY <1>3 DEF RowInv, TablesAgree
  <2>2. \A f \in DOMAIN outbox' \cap DOMAIN dead' :
          outbox'[f].key = dead'[f].key /\ outbox'[f].tx = dead'[f].tx
    BY <1>1, <1>2, <1>4
  <2>3. QED
    BY <2>1, <2>2 DEF TablesAgree
<1>6. ASSUME NEW f \in Committed
      PROVE  RowOf(f)'.key = RowOf(f).key /\ RowOf(f)'.tx = RowOf(f).tx
  <2>1. CASE f \in DOMAIN outbox'
    BY <1>2, <2>1 DEF RowOf
  <2>2. CASE f \notin DOMAIN outbox'
    <3>1. f = e \/ (f \notin DOMAIN outbox /\ f \in DOMAIN dead /\ f # e)
      BY <1>2, <2>2 DEF Committed
    <3>2. QED
      BY <1>1, <2>2, <3>1 DEF RowOf
  <2>3. QED
    BY <2>1, <2>2
<1>7. \A f \in Committed : KeyOf(f)' = KeyOf(f) /\ RunOf(f)' = RunOf(f)
  BY <1>6 DEF KeyOf, RunOf
<1>8. QED
  BY <1>1, <1>3, <1>4, <1>5, <1>7

(* A refused event is parked, and only its row's version may go back.      *)
LEMMA ParkRows ==
  ASSUME Inv, RowInv, NEW e \in Ids, Park(e)
  PROVE  RowInv'
<1>1. /\ Applying(e) /\ dead' = Recorded(e) /\ outbox' = Without(outbox, {e})
      /\ heads' = Restored(e) /\ Applied(e) /\ UNCHANGED <<log, late, crashes>> /\ Aside
      /\ e \notin DOMAIN dead
  BY DEF Park
<1>2. e \in DOMAIN outbox
  BY <1>1, ToApplyIn
<1>3. /\ TablesAgree' /\ Committed' = Committed
      /\ \A f \in Committed : KeyOf(f)' = KeyOf(f) /\ RunOf(f)' = RunOf(f)
      /\ dead'[e] = outbox[e] /\ e \in DOMAIN dead'
      /\ \A f \in DOMAIN dead : f \in DOMAIN dead' /\ dead'[f] = dead[f]
  BY <1>1, <1>2, ParkedContents
<1>4. UNCHANGED <<config, rows, calls, replayed, halfway, crashes>>
      /\ pending' = pending /\ unstamped' = unstamped
  BY <1>1 DEF Aside, calls
<1>5. push.phase = "apply"
  BY <1>1 DEF Applying
<1>6. Calm' /\ Halfway'
  BY <1>1, <1>4, <1>5 DEF RowInv, Calm, Halfway, Syncing
<1>7. ASSUME NEW k \in Keys
      PROVE  heads'[k] = heads[k] \/ Reverted(k)'
  <2>1. CASE push.answer[e] = "conflict" /\ outbox[e].key = k
    <3>1. heads'[k] = dead'[e].base /\ dead'[e].key = k
      BY <1>1, <1>3, <2>1 DEF Restored, Inv, Tables
    <3>2. QED
      BY <1>3, <3>1 DEF Reverted
  <2>2. CASE ~(push.answer[e] = "conflict" /\ outbox[e].key = k)
    BY <1>1, <2>2 DEF Restored, Inv, Tables
  <2>3. QED
    BY <2>1, <2>2
<1>8. QED
  BY <1>1, <1>3, <1>4, <1>6, <1>7, QuietRows

(* What a crash leaves: the tables, and nothing in memory.                 *)
LEMMA RestartRows ==
  ASSUME Inv, Inv', RowInv, Restart, TablesAgree', Committed' = Committed,
         \A e \in Committed : KeyOf(e)' = KeyOf(e) /\ RunOf(e)' = RunOf(e),
         heads' = heads, \A f \in DOMAIN dead : f \in DOMAIN dead' /\ dead'[f] = dead[f]
  PROVE  RowInv'
<1>1. /\ pending' = Empty /\ stack' = <<>> /\ unstamped' = {} /\ push' = PushIn("idle")
      /\ lost \subseteq lost' /\ cutOff' = cutOff \cup unstamped
      /\ crashes' = crashes + 1 /\ halfway = NoEvent
      /\ UNCHANGED <<log, config, rows, nextId, txs, replayed, halfway>>
  BY DEF Restart, Resting
<1>2. DOMAIN pending' = {} /\ Len(stack') = 0 /\ Keys' = Keys
  BY <1>1 DEF Empty, Keys
<1>3. RunNames'
  BY <1>1, <1>2 DEF RunNames
<1>4. OneRunPerRow' /\ PendingNewer' /\ Fitting' /\ OneRunStamps' /\ Calm'
  BY <1>1, <1>2 DEF OneRunPerRow, PendingNewer, Fitting, OneRunStamps, Calm
<1>5. Halfway'
  BY <1>1 DEF Halfway
<1>6. crashes' \in Nat /\ crashes' # 0
  BY <1>1 DEF RowInv
<1>7. VersionsInStep' /\ CutByCrash'
  <2>1. ASSUME config.versions, NoOverlap, NEW k \in Keys
        PROVE  InStep(k)'
    <3>1. InStep(k)
      BY <2>1 DEF RowInv, VersionsInStep
    <3>2. Unwritten(k)' = {}
      BY <1>1 DEF Unwritten
    <3>3. CASE Unwritten(k) # {}
      <4>1. Unwritten(k) \subseteq Ids /\ Unwritten(k) \subseteq unstamped
        BY IdFacts DEF Unwritten
      <4>2. rows[k].val = Last(Unwritten(k)) /\ Last(Unwritten(k)) \in unstamped
        BY <1>1, <3>1, <3>3, <4>1, LastIn DEF InStep
      <4>3. QED
        BY <1>1, <3>2, <4>2 DEF InStep, Excused
    <3>4. CASE Unwritten(k) = {}
      <4>1. Excused(k) => Excused(k)'
        BY <1>1 DEF Excused, Reverted
      <4>2. QED
        BY <1>1, <3>1, <3>2, <3>4, <4>1 DEF InStep
    <3>5. QED
      BY <3>3, <3>4
  <2>2. VersionsInStep'
    BY <1>1, <1>2, <2>1 DEF VersionsInStep, NoOverlap
  <2>3. QED
    BY <1>6, <2>2 DEF CutByCrash
<1>8. NewestShown'
  <2>1. \A k : CommittedOf(k)' = CommittedOf(k)
    BY DEF CommittedOf
  <2>2. \A k \in Keys : config.foreign = {} => rows[k].val = Newest(CommittedOf(k)')
    BY <2>1 DEF RowInv, NewestShown
  <2> HIDE <2>1
  <2>3. QED
    BY <1>1, <1>2, <2>2 DEF NewestShown, Newest, Last
<1>9. QED
  BY <1>3, <1>4, <1>5, <1>6, <1>7, <1>8 DEF RowInv

(* A crash at any point.                                                   *)
LEMMA CrashRows ==
  ASSUME Inv, Inv', RowInv, Crash \/ CrashInPark \/ CrashInMark
  PROVE  RowInv'
<1>1. Restart /\ log' = log
  BY DEF Crash, CrashInPark, CrashInMark, Restart
<1>2. Stored' \subseteq Committed
  BY <1>1 DEF Stored, RowInv, TablesAgree
<1>3. Partial(outbox, Ids, Row)
  BY DEF Inv, Tables
<1>4. CASE Crash
  <2>1. SameContents /\ dead' = dead /\ heads' = heads
    BY <1>4 DEF Crash, SameContents
  <2>2. QED
    BY <1>1, <1>2, <2>1, SameContentsRows, RestartRows
<1>5. CASE CrashInPark
  <2>1. PICK e \in Ids : /\ Applying(e) /\ dead' = Recorded(e) /\ e \notin DOMAIN dead
                         /\ outbox' \in {outbox, Without(outbox, {e})}
    BY <1>5 DEF CrashInPark
  <2>2. e \in DOMAIN outbox
    BY <2>1, ToApplyIn
  <2>3. /\ TablesAgree' /\ Committed' = Committed
        /\ \A f \in Committed : KeyOf(f)' = KeyOf(f) /\ RunOf(f)' = RunOf(f)
        /\ \A f \in DOMAIN dead : f \in DOMAIN dead' /\ dead'[f] = dead[f]
    BY <1>1, <2>1, <2>2, ParkedContents
  <2>4. heads' = heads
    BY <1>5 DEF CrashInPark
  <2>5. QED
    BY <1>1, <2>3, <2>4, RestartRows
<1>6. CASE CrashInMark
  <2>1. dead' = dead /\ heads' = heads
    BY <1>6 DEF CrashInMark
  <2>2. SameContents
    <3> DEFINE sent == Eids(Events(NextBatch(ToMark)))
    <3>1. PICK e \in sent :
            outbox' = [f \in DOMAIN outbox |->
                         IF f \in sent /\ f <= e THEN Charged(outbox[f]) ELSE outbox[f]]
      BY <1>6 DEF CrashInMark
    <3> HIDE DEF sent
    <3>2. QED
      BY <1>3, <3>1, ChargedContents DEF SameContents
  <2>3. QED
    BY <1>1, <1>2, <2>1, <2>2, SameContentsRows, RestartRows
<1>7. QED
  BY <1>4, <1>5, <1>6

(* A replay, which no edit overlaps, writes the row and then its version.  *)
LEMMA ReplayRows ==
  ASSUME Inv, Inv', RowInv, (\E f \in ForeignIds : ReplayRow(f)) \/ ReplayVersion
  PROVE  RowInv'
<1>1. UNCHANGED <<log, config, outbox, dead, nextId, calls, push, late, crashes>>
  BY DEF ReplayRow, ReplayVersion
<1>2. /\ pending' = pending /\ stack' = stack /\ txs' = txs /\ unstamped' = unstamped
      /\ lost' = lost /\ cutOff' = cutOff
  BY <1>1 DEF calls
<1>3. Committed' = Committed /\ Stored' = Stored /\ Keys' = Keys /\ \A f : RowOf(f)' = RowOf(f)
  BY <1>1 DEF Committed, Stored, RowOf, Keys
<1>4. \A f : KeyOf(f)' = KeyOf(f) /\ RunOf(f)' = RunOf(f)
  BY <1>3 DEF KeyOf, RunOf
<1>5. /\ config.foreign # {} /\ push.phase = "pull"
      /\ (\E f \in ForeignIds : ReplayRow(f)) => halfway = NoEvent
  BY DEF ReplayRow, ReplayVersion, NextForeign, RowInv, Halfway
<1>6. NoOverlap => DOMAIN pending = {} /\ unstamped = {}
  BY <1>5 DEF NoOverlap, RowInv, Calm, Syncing
<1>7. TablesAgree' /\ RunNames' /\ OneRunPerRow' /\ PendingNewer'
  <2>1. TablesAgree' /\ PendingNewer'
    BY <1>1, <1>2, <1>3, <1>4 DEF RowInv, TablesAgree, PendingNewer
  <2>2. RunNames' /\ OneRunPerRow'
    BY <1>2, <1>3 DEF RowInv, RunNames, RunIds, OneRunPerRow, Joined, Entries
  <2>3. QED
    BY <2>1, <2>2
<1>8. Fitting' /\ NewestShown'
  BY <1>1, <1>2, <1>5, <1>6 DEF Fitting, NewestShown, NoOverlap
<1>9. OneRunStamps'
  <2>1. \A f : Alive(f)' <=> Alive(f)
    BY <1>2 DEF Alive, OpenRuns
  <2>2. QED
    BY <1>2, <1>4, <2>1 DEF RowInv, OneRunStamps
<1>10. Calm'
  BY <1>1, <1>2 DEF RowInv, Calm, Syncing
<1>11. \A k : NoOverlap => Unwritten(k)' = {} /\ Unwritten(k) = {}
  BY <1>2, <1>6 DEF Unwritten
<1>12. rows \in [Keys -> [val : Versions, live : BOOLEAN]] /\ heads \in [Keys -> Versions]
  BY DEF Inv, Tables
<1>13. ASSUME NEW f \in ForeignIds, ReplayRow(f)
       PROVE  Halfway' /\ VersionsInStep'
  <2> DEFINE q == log[f].key
             row == [val |-> f, live |-> log[f].type # "delete"]
             whole == log[f].type = "insert" => ~rows[q].live
  <2>1. /\ f \in DOMAIN log /\ heads' = heads /\ replayed' = replayed \cup {f}
        /\ rows' = IF (log[f].type = "insert") = rows[q].live THEN rows
                   ELSE [rows EXCEPT ![q] = row]
        /\ halfway' = IF whole /\ config.versions THEN f ELSE NoEvent
        /\ halfway = NoEvent
    BY <1>13 DEF ReplayRow, NextForeign
  <2>2. f # NoEvent
    BY ConfigsAssumption DEF NoEvent
  <2>3. row.val = f
    OBVIOUS
  <2> HIDE DEF row
  <2>4. Halfway'
    BY <1>1, <1>5, <2>1 DEF Halfway
  <2>5. ASSUME config.versions, NoOverlap, NEW k \in Keys
        PROVE  InStep(k)'
    <3>1. InStep(k)
      BY <1>1, <1>2, <2>5 DEF RowInv, VersionsInStep
    <3>2. heads[k] = rows[k].val \/ (~rows[k].live /\ heads[k] \in replayed) \/ Excused(k)
      BY <1>11, <2>1, <2>5, <3>1 DEF InStep
    <3>8. rows'[k] = rows[k] /\ Excused(k) => Excused(k)'
      BY <1>1, <1>2, <2>1 DEF Excused, Reverted
    <3>3. rows[k].live \in BOOLEAN
      BY <1>12
    <3>4. CASE k # q
      <4>1. rows'[k] = rows[k]
        BY <1>12, <2>1, <3>4
      <4>2. ~(halfway' # NoEvent /\ log'[halfway'].key = k)
        BY <1>1, <2>1, <3>4
      <4>3. heads'[k] = rows'[k].val \/ (~rows'[k].live /\ heads'[k] \in replayed') \/ Excused(k)'
        BY <2>1, <3>2, <3>8, <4>1
      <4>4. Unwritten(k)' = {}
        BY <1>11, <2>5
      <4>5. QED
        BY <4>2, <4>3, <4>4 DEF InStep
    <3>5. CASE k = q /\ whole
      <4>1. halfway' = f /\ log'[halfway'].key = k
        BY <1>1, <2>1, <2>5, <3>5
      <4>2. rows'[k].val = f \/ ~rows'[k].live
        <5>1. CASE (log[f].type = "insert") = rows[q].live
          <6>1. rows' = rows
            BY <2>1, <5>1
          <6>2. ~rows[k].live
            BY <3>3, <3>5, <5>1
          <6>3. QED
            BY <6>1, <6>2
        <5>2. CASE ~((log[f].type = "insert") = rows[q].live)
          <6>1. rows'[k] = row
            BY <1>12, <2>1, <3>5, <5>2
          <6>2. QED
            BY <2>3, <6>1
        <5>3. QED
          BY <5>1, <5>2
      <4>3. QED
        BY <2>2, <4>1, <4>2 DEF InStep
    <3>6. CASE k = q /\ ~whole
      <4>1. halfway' = NoEvent
        BY <2>1, <3>6
      <4>2. rows' = rows
        <5>1. log[f].type = "insert" /\ rows[q].live
          BY <3>6
        <5>2. (log[f].type = "insert") = rows[q].live
          BY <3>3, <3>6, <5>1
        <5>3. QED
          BY <2>1, <5>2
      <4>3. heads'[k] = rows'[k].val \/ (~rows'[k].live /\ heads'[k] \in replayed') \/ Excused(k)'
        BY <2>1, <3>2, <3>8, <4>2
      <4>4. Unwritten(k)' = {}
        BY <1>11, <2>5
      <4>5. QED
        BY <4>1, <4>3, <4>4 DEF InStep
    <3>7. QED
      BY <3>4, <3>5, <3>6
  <2>6. VersionsInStep'
    BY <1>1, <1>3, <2>5 DEF VersionsInStep, NoOverlap
  <2>7. QED
    BY <2>4, <2>6
<1>14. ASSUME ReplayVersion
       PROVE  Halfway' /\ VersionsInStep'
  <2>1. /\ halfway # NoEvent /\ halfway' = NoEvent /\ rows' = rows /\ replayed' = replayed
        /\ heads' = [heads EXCEPT ![log[halfway].key] = halfway]
    BY <1>14 DEF ReplayVersion
  <2>2. Halfway'
    BY <2>1 DEF Halfway
  <2>3. halfway \in replayed
    BY <2>1 DEF RowInv, Halfway
  <2>4. ASSUME config.versions, NoOverlap, NEW k \in Keys
        PROVE  InStep(k)'
    <3>1. InStep(k)
      BY <1>1, <1>2, <2>4 DEF RowInv, VersionsInStep
    <3>2. Unwritten(k)' = {} /\ Unwritten(k) = {}
      BY <1>11, <2>4
    <3>3. CASE log[halfway].key = k
      <4>1. heads'[k] = halfway
        BY <1>12, <2>1, <3>3
      <4>2. rows[k].val = halfway \/ ~rows[k].live
        BY <2>1, <3>1, <3>3 DEF InStep
      <4>3. QED
        BY <2>1, <2>3, <3>2, <4>1, <4>2 DEF InStep
    <3>4. CASE log[halfway].key # k
      <4>1. heads'[k] = heads[k]
        BY <1>12, <2>1, <3>4
      <4>2. heads[k] = rows[k].val \/ (~rows[k].live /\ heads[k] \in replayed) \/ Excused(k)
        BY <3>1, <3>2, <3>4 DEF InStep
      <4>3. Excused(k) => Excused(k)'
        BY <1>1, <1>2, <2>1, <4>1 DEF Excused, Reverted
      <4>4. QED
        BY <2>1, <3>2, <4>1, <4>2, <4>3 DEF InStep
    <3>5. QED
      BY <3>3, <3>4
  <2>5. VersionsInStep'
    BY <1>1, <1>3, <2>4 DEF VersionsInStep, NoOverlap
  <2>6. QED
    BY <2>2, <2>5
<1>15. Halfway' /\ VersionsInStep'
  BY <1>13, <1>14
<1>16. QED
  BY <1>1, <1>2, <1>7, <1>8, <1>9, <1>10, <1>15 DEF RowInv, CutByCrash

(* An empty database fits.                                                 *)
LEMMA InitRows == Init => RowInv
<1> SUFFICES ASSUME Init PROVE RowInv
  OBVIOUS
<1>1. /\ rows = [k \in Keys |-> [val |-> NoEvent, live |-> FALSE]]
      /\ outbox = Empty /\ dead = Empty /\ heads = [k \in Keys |-> NoEvent]
      /\ pending = Empty /\ stack = <<>> /\ unstamped = {} /\ halfway = NoEvent /\ crashes = 0
      /\ cutOff = {}
      /\ DOMAIN Empty = {} /\ DOMAIN log = {} /\ Len(stack) = 0
  BY DEF Init, LogInit, Empty
<1>2. Committed = {} /\ Stored = {}
  BY <1>1 DEF Committed, Stored
<1>3. TablesAgree /\ RunNames /\ OneRunPerRow /\ PendingNewer
  BY <1>1, <1>2 DEF TablesAgree, RunNames, OneRunPerRow, PendingNewer
<1>4. Fitting /\ OneRunStamps /\ Calm /\ Halfway
  BY <1>1, <1>2 DEF Fitting, OneRunStamps, Calm, Halfway
<1>5. NewestShown
  <2>1. \A k : CommittedOf(k) = {}
    BY <1>2 DEF CommittedOf
  <2>2. QED
    BY <1>1, <2>1 DEF NewestShown, Newest
<1>6. VersionsInStep
  <2>1. \A k : Unwritten(k) = {}
    BY <1>1 DEF Unwritten
  <2>2. QED
    BY <1>1, <2>1 DEF VersionsInStep, InStep
<1>7. QED
  BY <1>1, <1>3, <1>4, <1>5, <1>6 DEF RowInv, CutByCrash

(* Every step keeps the rows and their versions together.                  *)
LEMMA NextRows == Inv /\ Inv' /\ RowInv /\ [Next]_vars => RowInv'
<1> SUFFICES ASSUME Inv, Inv', RowInv, [Next]_vars PROVE RowInv'
  OBVIOUS
<1>1. CASE Mutate
  BY <1>1, CallRows DEF Mutate
<1>2. CASE Settling
  BY <1>2, CommitCallRows, StampRows, AddEntryRows, AddTooLateRows DEF Settling
<1>3. CASE BeginTx
  BY <1>3, BeginTxRows
<1>4. CASE Finish
  BY <1>4, CommitTxRows, FailTxRows DEF Finish
<1>5. CASE Apply
  BY <1>5, WaitRows, ParkRows, InHandRows DEF Apply
<1>6. CASE StartPush \/ ContinuePush \/ ServePush \/ ReceiveReply \/ EndSync
  BY <1>6, NextBatchRows, ServeRows, InHandRows
<1>7. CASE TransportError \/ ServeLate \/ BackoffTick
  BY <1>7, InHandRows, ServeRows, WaitRows
<1>8. CASE Others
  BY <1>8, ForeignRows, ReplayRows DEF Others
<1>9. CASE Crash \/ CrashInPark \/ CrashInMark
  BY <1>9, CrashRows
<1>10. CASE UNCHANGED vars
  <2>1. /\ UNCHANGED <<rows, outbox, heads, pending, unstamped, lost>> /\ Rest
        /\ stack' = stack /\ txs' = txs /\ dead' = dead
    BY <1>10 DEF vars, calls, Rest
  <2>2. Fewer /\ Committed \subseteq Committed' /\ StackInOrder'
    BY <2>1 DEF Fewer, Committed, Inv
  <2>3. RunNames' /\ StillWaiting
    BY <2>1, <2>2, SameRuns DEF RowInv
  <2>4. QED
    BY <2>1, <2>3, StackRows
<1>11. QED
  BY <1>1, <1>2, <1>3, <1>4, <1>5, <1>6, <1>7, <1>8, <1>9, <1>10 DEF Next, Pushing

(* Hence they are together in every reachable state.                       *)
LEMMA RowsAlways == Spec => [](Inv /\ RowInv)
<1>1. Init => Inv /\ RowInv
  BY InitOK, InitRows
<1>2. Inv /\ RowInv /\ [Next]_vars => Inv' /\ RowInv'
  BY NextOK, NextRows
<1>3. QED
  BY <1>1, <1>2, PTL DEF Spec

(* The version of a row is that of the event the row shows, once its       *)
(* writes have settled: the base of the next edit is the content it edits. *)
(* Where it is not, after a conflict, a crash or a call that came too      *)
(* late, it is known which of them it was.                                 *)
THEOREM VersionsFollow == Spec => []VersionsFollowRows
<1>1. Inv /\ RowInv => VersionsFollowRows
  <2> SUFFICES ASSUME Inv, RowInv, config.versions, config.foreign # {} => ~config.busy,
                      NEW k \in Keys, Settled(k)
               PROVE  \/ heads[k] = rows[k].val
                      \/ ~rows[k].live /\ heads[k] \in replayed
                      \/ Excused(k)
    BY DEF VersionsFollowRows, Excused
  <2>1. halfway = NoEvent
    BY DEF Settled
  <2>2. Unwritten(k) = {}
    BY DEF Settled, InHand, Unwritten, KeyOf
  <2>3. InStep(k)
    BY DEF RowInv, VersionsInStep, NoOverlap
  <2>4. QED
    BY <2>1, <2>2, <2>3 DEF InStep
<1>2. QED
  BY <1>1, RowsAlways, PTL

-----------------------------------------------------------------------------
(* Transactions.  What one transact run wrote is sent, stored, confirmed,  *)
(* put off and parked together.                                            *)

(* As long as runs do not nest and nothing crashes.                        *)
Sole == config.depth <= 1 /\ crashes = 0

(* Every event there is, and the run it belongs to.                        *)
Made    == DOMAIN pending \cup Committed
TxOf(e) == IF e \in DOMAIN pending THEN pending[e].tx ELSE RunOf(e)

(* A run commits once: what is committed belongs to no run that goes on.   *)
RunsCommitOnce ==
  /\ \A e \in Committed : RunOf(e) = e \/ RunOf(e) \in RunIds
  /\ \A e \in Committed : RunOf(e) \notin OpenRuns

(* What waits for its commit was never sent.                               *)
NeverSent == \A e \in DOMAIN pending : pending[e].attempts = 0 /\ pending[e].wait = 0

(* The events of a run are drawn one after the other.                      *)
StackIds == {stack[i].id : i \in 1..Len(stack)}
RunsInOrder ==
  /\ Len(stack) <= 1
  /\ \A e, f, g \in Made : e < f /\ f < g /\ TxOf(e) = TxOf(g) => TxOf(f) = TxOf(e)
  /\ \A t \in StackIds, e, f \in Made : e < f /\ TxOf(e) = t => TxOf(f) = t

(* A request and the server name the run an event belongs to.              *)
BodiesTrue(r) == \A g \in r : \A b \in g : b.seq = b.eid /\ b.tx = RunOf(b.eid)
RunsTold ==
  /\ BodiesTrue(push.open) /\ \A r \in late : BodiesTrue(r)
  /\ \A e \in Stored : log[e].tx = RunOf(e)

(* Between pushes nothing is in hand.                                      *)
HandsEmpty ==
  push.phase \in {"idle", "pull"} => push.due = {} /\ push.open = {} /\ DOMAIN push.answer = {}

(* A set of events that splits no run; a request that splits none.         *)
Whole(S)       == \A e \in S, f \in Committed : RunOf(f) = RunOf(e) => f \in S
OneRun(g)      == \A b, c \in g : b.tx = c.tx
WholeGroups(r) == \A g \in r : Whole(Eids(g)) /\ OneRun(g)
RunsWhole ==
  /\ Whole(Stored) /\ Whole(push.due) /\ WholeGroups(push.open)
  /\ push.phase = "waiting" => Whole(DOMAIN push.answer)
  /\ \A r \in late : WholeGroups(r)

(* What becomes of an event once the answers in hand have been applied.    *)
Answered(e, a) == e \in DOMAIN push.answer /\ push.answer[e] = a
Fate(e) ==
  IF e \notin DOMAIN outbox \/ (e \in DOMAIN push.answer /\ Refused(e)) THEN "parked"
  ELSE IF outbox[e].synced \/ Answered(e, "confirmed") THEN "synced"
  ELSE "queued"
Pause(e) == IF e \in DOMAIN push.answer THEN Delay(outbox[e].attempts) ELSE outbox[e].wait
OneFate ==
  /\ DOMAIN outbox \cap DOMAIN dead = {}
  /\ \A e, f \in Unsynced : RunOf(e) = RunOf(f) => outbox[e].attempts = outbox[f].attempts
  /\ \A e, f \in Committed : RunOf(e) = RunOf(f) =>
       Fate(e) = Fate(f) /\ (Fate(e) = "queued" => Pause(e) = Pause(f))

RunInv ==
  /\ RunsCommitOnce /\ NeverSent /\ RunsTold /\ HandsEmpty
  /\ Sole => RunsInOrder /\ RunsWhole /\ OneFate

(* Sets that split no run, put together and taken apart.                   *)
LEMMA WholeUnion ==
  ASSUME NEW A, NEW B, Whole(A), Whole(B)
  PROVE  Whole(A \cup B)
BY DEF Whole

(* Whole sets taken from whole sets leave whole sets.                      *)
LEMMA WholeMinus ==
  ASSUME NEW A, NEW B, Whole(A), Whole(B), A \subseteq Committed
  PROVE  Whole(A \ B)
BY DEF Whole

(* The events of whole groups are a whole set.                             *)
LEMMA WholeEvents ==
  ASSUME NEW r, WholeGroups(r)
  PROVE  Whole(Eids(Events(r)))
<1>1. ASSUME NEW e \in Eids(Events(r)), NEW f \in Committed, RunOf(f) = RunOf(e)
      PROVE  f \in Eids(Events(r))
  <2>1. PICK g \in r : e \in Eids(g)
    BY DEF Eids, Events
  <2>2. f \in Eids(g)
    BY <1>1, <2>1 DEF WholeGroups, Whole
  <2>3. QED
    BY <2>1, <2>2 DEF Eids, Events
<1>2. QED
  BY <1>1 DEF Whole

(* What the invariants say of events and their runs.                       *)
LEMMA RunFacts ==
  ASSUME Inv, RowInv
  PROVE  /\ Committed \subseteq Ids /\ Stored \subseteq Committed
         /\ Unsynced \subseteq DOMAIN outbox /\ DOMAIN outbox \subseteq Committed
         /\ \A e \in Made : e \in Nat /\ e <= MaxIds /\ TxOf(e) \in Nat
         /\ \A e \in Committed : TxOf(e) = RunOf(e) /\ RunOf(e) \in Nat
         /\ \A e \in DOMAIN outbox : RunOf(e) = outbox[e].tx
         /\ \A e \in DOMAIN pending : TxOf(e) = pending[e].tx
         /\ Len(stack) \in Nat /\ MaxIds \in Nat /\ txs \in Nat
<1>1. /\ Committed \subseteq Ids /\ DOMAIN pending \subseteq Ids /\ MaxIds \in Nat
      /\ DOMAIN pending \cap Committed = {} /\ Len(stack) \in Nat /\ txs \in Nat
  BY IdFacts
<1>2. Stored \subseteq Committed /\ DOMAIN outbox \subseteq Committed /\ Unsynced \subseteq DOMAIN outbox
  BY DEF RowInv, TablesAgree, Committed, Unsynced
<1>3. Partial(outbox, Ids, Row) /\ Partial(dead, Ids, Row) /\ Partial(pending, Ids, Row)
      /\ config.runs \in Nat
  BY ConfigTyped DEF Inv, Tables
<1>4. \A r \in Row : r.tx \in Nat
  BY <1>1, <1>3 DEF Row
<1>5. \A e \in Committed : RunOf(e) \in Nat
  BY <1>3, <1>4 DEF Committed, RunOf, RowOf, Partial
<1>6. \A e \in DOMAIN pending : pending[e].tx \in Nat
  BY <1>3, <1>4 DEF Partial
<1>7. \A e \in DOMAIN outbox : RunOf(e) = outbox[e].tx
  BY DEF RunOf, RowOf
<1>8. /\ \A e \in Committed : TxOf(e) = RunOf(e)
      /\ \A e \in DOMAIN pending : TxOf(e) = pending[e].tx
  BY <1>1 DEF TxOf
<1>9. \A e \in Ids : e \in Nat /\ e <= MaxIds
  BY <1>1 DEF Ids
<1>10. QED
  BY <1>1, <1>2, <1>5, <1>6, <1>7, <1>8, <1>9 DEF Made

(* A step that leaves the tables and the push alone.                       *)
LEMMA AsideSends ==
  ASSUME UNCHANGED <<outbox, dead, push, late>>, RunsTold, HandsEmpty,
         Stored' = Stored, \A e \in Stored : log'[e].tx = log[e].tx
  PROVE  /\ RunsTold' /\ HandsEmpty' /\ Committed' = Committed
         /\ \A e : RunOf(e)' = RunOf(e)
         /\ RunsWhole => RunsWhole'
         /\ OneFate => OneFate'
<1>1. Committed' = Committed /\ Unsynced' = Unsynced
  BY DEF Committed, Unsynced
<1>2. \A e : RunOf(e)' = RunOf(e)
  BY DEF RunOf, RowOf
<1>3. RunsTold' /\ HandsEmpty'
  BY <1>1, <1>2 DEF RunsTold, BodiesTrue, HandsEmpty
<1>4. \A S : Whole(S) => Whole(S)'
  BY <1>1, <1>2 DEF Whole
<1>5. RunsWhole => RunsWhole'
  BY <1>1, <1>4 DEF RunsWhole, WholeGroups, OneRun
<1>6. \A e : (Refused(e)' <=> Refused(e)) /\ Pause(e)' = Pause(e)
             /\ (Answered(e, "confirmed")' <=> Answered(e, "confirmed"))
  BY DEF Refused, Pause, Delay, Answered
<1>7. \A e : Fate(e)' = Fate(e)
  BY <1>6 DEF Fate
<1>8. OneFate => OneFate'
  BY <1>1, <1>2, <1>6, <1>7 DEF OneFate
<1>9. QED
  BY <1>1, <1>2, <1>3, <1>5, <1>8

(* A step that leaves the tables and the push alone disturbs no run.       *)
LEMMA QuietSends ==
  ASSUME UNCHANGED <<log, outbox, dead, push, late>>, RunsTold, HandsEmpty
  PROVE  /\ RunsTold' /\ HandsEmpty' /\ Committed' = Committed
         /\ \A e : RunOf(e)' = RunOf(e)
         /\ RunsWhole => RunsWhole'
         /\ OneFate => OneFate'
<1>1. Stored' = Stored
  BY DEF Stored
<1>2. QED
  BY <1>1, AsideSends

-----------------------------------------------------------------------------
(* The calls, seen from the runs.                                          *)

(* No run begins, and no run that was over goes on.                        *)
RunsGoOn == /\ StackIds' \subseteq StackIds /\ OpenRuns' \subseteq OpenRuns
            /\ Len(stack') <= Len(stack) /\ txs' = txs

(* A run that is over is not open any more, and the others go on.          *)
LEMMA PoppedGoOn ==
  ASSUME Inv, RowInv, NEW i \in 1..Len(stack), stack' = Popped(i), txs' = txs
  PROVE  RunsGoOn /\ stack[i].id \notin OpenRuns'
<1> DEFINE from(j) == IF j < i THEN j ELSE j + 1
<1>1. stack \in Seq(Tx) /\ Len(stack) \in Nat
  BY DEF Inv, StackInOrder
<1>2. /\ Popped(i) \in Seq(Tx) /\ Len(Popped(i)) = Len(stack) - 1
      /\ \A j \in 1..(Len(stack) - 1) : Popped(i)[j] = stack[IF j < i THEN j ELSE j + 1]
  BY <1>1, PoppedSeq
<1>3. \A j \in 1..Len(stack') : /\ stack'[j] = stack[from(j)] /\ from(j) \in 1..Len(stack)
                                /\ from(j) # i
  BY <1>1, <1>2
<1>4. Len(stack') <= Len(stack)
  BY <1>1, <1>2
<1> HIDE DEF from
<1>5. \A j, k \in 1..Len(stack) : j # k => stack[j].id # stack[k].id
  BY DEF RowInv, RunNames
<1>6. StackIds' \subseteq StackIds /\ OpenRuns' \subseteq OpenRuns
  BY <1>3 DEF StackIds, OpenRuns
<1>7. stack[i].id \notin OpenRuns'
  BY <1>3, <1>5 DEF OpenRuns
<1>8. QED
  BY <1>4, <1>6, <1>7 DEF RunsGoOn

(* A run that moves within its stack goes on, and is not opened again.     *)
LEMMA AtGoOn ==
  ASSUME Inv, RowInv, NEW i \in 1..Len(stack), NEW t, stack' = At(i, t), txs' = txs,
         t.id = stack[i].id, t.phase = "open" => stack[i].phase = "open"
  PROVE  RunsGoOn /\ (t.phase # "open" => stack[i].id \notin OpenRuns')
<1>1. stack \in Seq(Tx) /\ Len(stack) \in Nat
  BY DEF Inv, StackInOrder
<1>2. /\ Len(stack') = Len(stack) /\ stack'[i] = t
      /\ \A j \in 1..Len(stack) : j # i => stack'[j] = stack[j]
  BY <1>1 DEF At
<1>3. \A j, k \in 1..Len(stack) : j # k => stack[j].id # stack[k].id
  BY DEF RowInv, RunNames
<1>4. \A j \in 1..Len(stack') : /\ j \in 1..Len(stack) /\ stack'[j].id = stack[j].id
                                /\ stack'[j].phase = "open" => stack[j].phase = "open"
  BY <1>2
<1>5. StackIds' \subseteq StackIds /\ OpenRuns' \subseteq OpenRuns
  BY <1>4 DEF StackIds, OpenRuns
<1>6. t.phase # "open" => stack[i].id \notin OpenRuns'
  BY <1>2, <1>3, <1>4 DEF OpenRuns
<1>7. QED
  BY <1>1, <1>2, <1>5, <1>6 DEF RunsGoOn

(* With the stack unchanged every run goes on.                             *)
LEMMA SameGoOn ==
  ASSUME Inv, stack' = stack, txs' = txs
  PROVE  RunsGoOn
BY IdFacts DEF RunsGoOn, StackIds, OpenRuns

(* Fewer events keep their order.                                          *)
LEMMA FewerInOrder ==
  ASSUME RunsInOrder, RunsGoOn, Len(stack) \in Nat, Len(stack') \in Nat, Made' \subseteq Made,
         \A e \in Made' : TxOf(e)' = TxOf(e)
  PROVE  RunsInOrder'
<1>1. Len(stack') <= 1
  BY DEF RunsInOrder, RunsGoOn
<1>2. \A e, f, g \in Made' : e < f /\ f < g /\ TxOf(e)' = TxOf(g)' => TxOf(f)' = TxOf(e)'
  BY DEF RunsInOrder
<1>3. \A t \in StackIds', e, f \in Made' : e < f /\ TxOf(e)' = t => TxOf(f)' = t
  BY DEF RunsInOrder, RunsGoOn
<1>4. QED
  BY <1>1, <1>2, <1>3 DEF RunsInOrder

(* What waits may be dropped.                                              *)
LEMMA DroppedRuns ==
  ASSUME Inv, Inv', RowInv, RunInv, Rest, outbox' = outbox, Fewer, RunsGoOn
  PROVE  RunInv'
<1>1. UNCHANGED <<log, outbox, dead, push, late>> /\ config' = config /\ crashes' = crashes
  BY DEF Rest
<1>2. /\ RunsTold' /\ HandsEmpty' /\ Committed' = Committed
      /\ \A e : RunOf(e)' = RunOf(e)
      /\ RunsWhole => RunsWhole'
      /\ OneFate => OneFate'
  BY <1>1, QuietSends DEF RunInv
<1>3. RunsCommitOnce'
  BY <1>2 DEF RunInv, RunsCommitOnce, RunsGoOn, RunIds
<1>4. NeverSent'
  BY DEF RunInv, NeverSent, Fewer
<1>5. Sole' <=> Sole
  BY <1>1 DEF Sole
<1>6. RunsInOrder => RunsInOrder'
  <2>1. Made' \subseteq Made /\ \A e \in Made' : TxOf(e)' = TxOf(e)
    <3>1. DOMAIN pending \cap Committed = {}
      BY IdFacts
    <3>2. Made' \subseteq Made
      BY <1>2 DEF Made, Fewer
    <3>3. ASSUME NEW e \in Made' PROVE TxOf(e)' = TxOf(e)
      BY <1>2, <3>1, <3>3 DEF Made, Fewer, TxOf
    <3>4. QED
      BY <3>2, <3>3
  <2>2. Len(stack) \in Nat /\ Len(stack') \in Nat
    BY DEF Inv, StackInOrder
  <2>3. QED
    BY <2>1, <2>2, FewerInOrder
<1>7. QED
  BY <1>2, <1>3, <1>4, <1>5, <1>6 DEF RunInv

(* What waits may be committed: all that a run wrote, at once.             *)
LEMMA CommittedRuns ==
  ASSUME Inv, Inv', RowInv, RunInv, NEW S, S \subseteq DOMAIN pending, InsertAll(S), Rest,
         RunsGoOn, NEW t, \A e \in S : pending[e].tx = t, t \notin OpenRuns',
         \A f \in Committed : RunOf(f) # t,
         t \in RunIds \/ S = {t}
  PROVE  RunInv'
<1>1. /\ Fewer /\ DOMAIN pending' = DOMAIN pending \ S
      /\ Committed' = Committed \cup S
      /\ \A e \in S : RunOf(e)' = t
      /\ \A e \in Committed : RunOf(e)' = RunOf(e)
  BY InsertedTables DEF RowInv
<1>2. /\ log' = log /\ dead' = dead /\ push' = push /\ late' = late
      /\ config' = config /\ crashes' = crashes
  BY DEF Rest
<1>3. /\ DOMAIN outbox' = DOMAIN outbox \cup S
      /\ \A e \in S : outbox'[e] = pending[e]
      /\ \A e \in DOMAIN outbox : e \notin S /\ outbox'[e] = outbox[e]
  <2>1. DOMAIN pending \cap Committed = {}
    BY IdFacts
  <2>2. QED
    BY <2>1 DEF InsertAll, Join, Only, Committed
<1>4. DOMAIN pending \cap Committed = {} /\ Stored \subseteq Committed
      /\ Unsynced \subseteq DOMAIN outbox /\ DOMAIN outbox \subseteq Committed
  BY IdFacts, RunFacts
<1>5. RunsCommitOnce'
  <2>1. RunIds' = RunIds /\ OpenRuns' \subseteq OpenRuns
    BY DEF RunsGoOn, RunIds
  <2>2. \A e \in S : e = t \/ t \in RunIds
    OBVIOUS
  <2>3. QED
    BY <1>1, <2>1, <2>2 DEF RunInv, RunsCommitOnce
<1>6. NeverSent'
  BY <1>1 DEF RunInv, NeverSent, Fewer
<1>7. Sent(push.open, Held) /\ \A r \in late : Sent(r, Held)
  BY DEF Inv, Sending, LateSent
<1>8. /\ Eids(Events(push.open)) \subseteq Committed /\ push.due \subseteq Committed
      /\ DOMAIN push.answer \subseteq Committed /\ Held = Committed
  BY <1>4 DEF Inv, Sending, Held, Committed
<1>9. \A r, g, b : r = push.open \/ r \in late => (g \in r /\ b \in g => b.eid \in Committed)
  BY <1>7, <1>8 DEF Sent
<1>10. Stored' = Stored
  BY <1>2 DEF Stored
<1>11. RunsTold'
  <2>1. BodiesTrue(push.open)' /\ \A r \in late : BodiesTrue(r)'
    BY <1>1, <1>2, <1>9 DEF RunInv, RunsTold, BodiesTrue
  <2>2. QED
    BY <1>1, <1>2, <1>4, <1>10, <2>1 DEF RunInv, RunsTold
<1>12. HandsEmpty'
  BY <1>2 DEF RunInv, HandsEmpty
<1>13. ASSUME NEW A, A \subseteq Committed, Whole(A) PROVE Whole(A)'
  BY <1>1, <1>13 DEF Whole
<1>14. RunsWhole => RunsWhole'
  <2>1. ASSUME NEW r, r = push.open \/ r \in late, WholeGroups(r) PROVE WholeGroups(r)'
    <3>1. ASSUME NEW g \in r PROVE Eids(g) \subseteq Committed
      BY <1>9, <2>1 DEF Eids
    <3>2. QED
      BY <1>13, <2>1, <3>1 DEF WholeGroups, OneRun
  <2>2. RunsWhole => Whole(Stored)' /\ Whole(push.due)'
    BY <1>4, <1>8, <1>10, <1>13, <1>2 DEF RunsWhole
  <2>3. RunsWhole /\ push.phase = "waiting" => Whole(DOMAIN push.answer)'
    BY <1>2, <1>8, <1>13 DEF RunsWhole
  <2>4. QED
    BY <1>2, <2>1, <2>2, <2>3 DEF RunsWhole
<1>15. OneFate => OneFate'
  <2> SUFFICES ASSUME OneFate PROVE OneFate'
    OBVIOUS
  <2>1. DOMAIN outbox' \cap DOMAIN dead' = {}
    BY <1>2, <1>3, <1>4 DEF OneFate, Committed
  <2>2. \A e \in S : outbox'[e].attempts = 0 /\ outbox'[e].wait = 0 /\ ~outbox'[e].synced
                     /\ e \notin DOMAIN push.answer
    <3>1. \A e \in S : ~pending[e].synced
      BY DEF Inv, PendingApart
    <3>2. QED
      BY <1>3, <1>4, <1>8, <3>1 DEF RunInv, NeverSent
  <2>3. \A e, f \in Unsynced' : RunOf(e)' = RunOf(f)' => outbox'[e].attempts = outbox'[f].attempts
    <3>1. \A e \in Unsynced' : e \in S \/ (e \in Unsynced /\ e \in Committed)
      BY <1>3, <1>4 DEF Unsynced
    <3>2. \A e \in Unsynced : outbox'[e].attempts = outbox[e].attempts
      BY <1>3, <1>4
    <3>3. QED
      BY <1>1, <2>2, <3>1, <3>2 DEF OneFate
  <2>4. ASSUME NEW e \in Committed
        PROVE  Fate(e)' = Fate(e) /\ (Fate(e) # "parked" => Pause(e)' = Pause(e))
    <3>1. e \in DOMAIN outbox' <=> e \in DOMAIN outbox
      BY <1>3, <1>4
    <3>2. e \in DOMAIN outbox => outbox'[e] = outbox[e]
      BY <1>3
    <3>3. e \in DOMAIN outbox /\ e \in DOMAIN push.answer => (Refused(e)' <=> Refused(e))
      BY <1>2, <3>2 DEF Refused
    <3>4. Answered(e, "confirmed")' <=> Answered(e, "confirmed")
      BY <1>2 DEF Answered
    <3>5. Fate(e)' = Fate(e)
      BY <1>2, <3>1, <3>2, <3>3, <3>4 DEF Fate
    <3>6. e \in DOMAIN outbox => Pause(e)' = Pause(e)
      BY <1>2, <3>2 DEF Pause, Delay
    <3>7. QED
      BY <3>5, <3>6 DEF Fate
  <2>5. \A e \in S : Fate(e)' = "queued" /\ Pause(e)' = 0
    BY <1>2, <1>3, <2>2 DEF Fate, Pause, Answered
  <2>6. \A e, f \in Committed' : RunOf(e)' = RunOf(f)' =>
          Fate(e)' = Fate(f)' /\ (Fate(e)' = "queued" => Pause(e)' = Pause(f)')
    BY <1>1, <2>4, <2>5 DEF OneFate
  <2>7. QED
    BY <2>1, <2>3, <2>6 DEF OneFate
<1>16. RunsInOrder => RunsInOrder'
  <2>1. Made' = Made
    BY <1>1 DEF Made
  <2>2. ASSUME NEW e \in Made' PROVE TxOf(e)' = TxOf(e)
    BY <1>1, <1>4, <2>2 DEF Made, Fewer, TxOf
  <2>3. Len(stack) \in Nat /\ Len(stack') \in Nat
    BY DEF Inv, StackInOrder
  <2>4. QED
    BY <2>1, <2>2, <2>3, FewerInOrder
<1>17. Sole' <=> Sole
  BY <1>2 DEF Sole
<1>18. QED
  BY <1>5, <1>6, <1>11, <1>12, <1>14, <1>15, <1>16, <1>17 DEF RunInv

(* The name of a run is no event, and the runs that go on have names.      *)
LEMMA NamesApart ==
  ASSUME Inv, RowInv, RunsCommitOnce
  PROVE  /\ \A e \in Made : e \notin RunIds
         /\ \A e \in Made : TxOf(e) = e \/ TxOf(e) \in RunIds
         /\ StackIds \subseteq RunIds /\ OpenRuns \subseteq StackIds
<1>1. \A e \in Made : e \notin RunIds
  BY RunFacts DEF RunIds
<1>2. \A e \in Made : TxOf(e) = e \/ TxOf(e) \in RunIds
  BY RunFacts DEF Made, RowInv, RunNames, RunsCommitOnce
<1>3. StackIds \subseteq RunIds /\ OpenRuns \subseteq StackIds
  BY DEF RowInv, RunNames, StackIds, OpenRuns
<1>4. QED
  BY <1>1, <1>2, <1>3

(* A call outside a run commits a run of its own, of one event.            *)
LEMMA CommitCallRuns ==
  ASSUME Inv, Inv', RowInv, RunInv, NEW e \in Ids, CommitCall(e)
  PROVE  RunInv'
<1>1. /\ e \in DOMAIN pending /\ pending[e].tx = e
      /\ InsertAll({e}) \/ FailAll({e})
      /\ stack' = stack /\ txs' = txs /\ Rest
  BY DEF CommitCall
<1>2. RunsGoOn
  BY <1>1, SameGoOn
<1>3. CASE InsertAll({e})
  <2>1. e \in Made /\ e \notin RunIds /\ DOMAIN pending \cap Committed = {}
    BY <1>1, NamesApart, IdFacts DEF RunInv, Made
  <2>2. e \notin OpenRuns'
    BY <1>2, <2>1, NamesApart DEF RunInv, RunsGoOn
  <2>3. \A f \in Committed : RunOf(f) # e
    BY <1>1, <2>1 DEF RunInv, RunsCommitOnce
  <2> DEFINE S == {e}
  <2>4. S \subseteq DOMAIN pending /\ InsertAll(S) /\ (\A x \in S : pending[x].tx = e) /\ S = {e}
    BY <1>1, <1>3
  <2> HIDE DEF S
  <2>5. QED
    BY <1>1, <1>2, <2>2, <2>3, <2>4, CommittedRuns
<1>4. CASE FailAll({e})
  <2>1. Fewer /\ outbox' = outbox
    BY <1>4 DEF FailAll, Fewer, Without
  <2>2. QED
    BY <1>1, <1>2, <2>1, DroppedRuns
<1>5. QED
  BY <1>1, <1>3, <1>4

(* A run commits as a whole.                                               *)
LEMMA CommitTxRuns ==
  ASSUME Inv, Inv', RowInv, RunInv, NEW i \in DOMAIN stack, CommitTx(i)
  PROVE  RunInv'
<1> DEFINE S == stack[i].entries
           t == [stack[i] EXCEPT !.phase = "stamping", !.entries = {Last(S)}]
<1>1. /\ stack[i].phase = "open" /\ txs' = txs /\ Rest
      /\ \/ InsertAll(S) /\ (stack' = Popped(i) \/ stack' = At(i, t))
         \/ FailAll(S) /\ stack' = Popped(i)
  BY DEF CommitTx
<1>2. StackInOrder /\ i \in 1..Len(stack) /\ stack[i] \in Tx
  BY StackOf DEF Inv
<1>3. S = Entries(stack, i) /\ S \subseteq DOMAIN pending
  BY <1>1, <1>2 DEF Entries, StackInOrder
<1>4. t.id = stack[i].id /\ t.phase = "stamping"
  BY <1>2 DEF Tx
<1>5. stack[i].id \in OpenRuns /\ stack[i].id \in RunIds /\ \A e \in S : pending[e].tx = stack[i].id
  BY <1>1, <1>2, <1>3 DEF OpenRuns, RowInv, RunNames
<1> HIDE DEF S, t
<1>6. RunsGoOn /\ stack[i].id \notin OpenRuns'
  <2>1. CASE stack' = Popped(i)
    BY <1>1, <1>2, <2>1, PoppedGoOn
  <2>2. CASE stack' = At(i, t)
    BY <1>1, <1>2, <1>4, <2>2, AtGoOn
  <2>3. QED
    BY <1>1, <2>1, <2>2
<1>7. CASE InsertAll(S)
  <2>1. \A f \in Committed : RunOf(f) # stack[i].id
    BY <1>5 DEF RunInv, RunsCommitOnce
  <2> DEFINE name == stack[i].id
  <2>2. (\A e \in S : pending[e].tx = name) /\ name \notin OpenRuns' /\ name \in RunIds
        /\ \A f \in Committed : RunOf(f) # name
    BY <1>5, <1>6, <2>1
  <2> HIDE DEF name
  <2>3. QED
    BY <1>1, <1>3, <1>6, <1>7, <2>2, CommittedRuns
<1>8. CASE FailAll(S)
  <2>1. Fewer /\ outbox' = outbox
    BY <1>8 DEF FailAll, Fewer, Without
  <2>2. QED
    BY <1>1, <1>6, <2>1, DroppedRuns
<1>9. QED
  BY <1>1, <1>7, <1>8

(* A run that fails has committed nothing.                                 *)
LEMMA FailTxRuns ==
  ASSUME Inv, Inv', RowInv, RunInv, NEW i \in DOMAIN stack, FailTx(i)
  PROVE  RunInv'
<1>1. txs' = txs /\ Rest /\ FailAll(stack[i].entries) /\ stack' = Popped(i)
  BY DEF FailTx
<1>2. i \in 1..Len(stack)
  BY StackOf DEF Inv
<1>3. RunsGoOn
  BY <1>1, <1>2, PoppedGoOn
<1>4. Fewer /\ outbox' = outbox
  BY <1>1 DEF FailAll, Fewer, Without
<1>5. QED
  BY <1>1, <1>3, <1>4, DroppedRuns

(* An entry joins a run that is still open.                                *)
LEMMA AddEntryRuns ==
  ASSUME Inv, Inv', RowInv, RunInv, NEW e \in Ids, AddEntry(e)
  PROVE  RunInv'
<1>1. PICK i \in Found(e, "open") : stack' = At(i, [stack[i] EXCEPT !.entries = @ \cup {e}])
  BY DEF AddEntry
<1>2. UNCHANGED <<outbox, pending, txs>> /\ Rest
  BY DEF AddEntry
<1>3. i \in 1..Len(stack) /\ stack[i] \in Tx
  BY StackOf DEF Inv, Found
<1> DEFINE t == [stack[i] EXCEPT !.entries = @ \cup {e}]
<1>4. t.id = stack[i].id /\ t.phase = stack[i].phase
  BY <1>3 DEF Tx
<1> HIDE DEF t
<1>5. stack' = At(i, t)
  BY <1>1 DEF t
<1>6. RunsGoOn
  BY <1>2, <1>3, <1>4, <1>5, AtGoOn
<1>7. Fewer
  BY <1>2 DEF Fewer
<1>8. QED
  BY <1>2, <1>6, <1>7, DroppedRuns

(* An entry that comes too late changes no run.                            *)
LEMMA AddTooLateRuns ==
  ASSUME Inv, Inv', RowInv, RunInv, NEW e \in Ids, AddTooLate(e)
  PROVE  RunInv'
<1>1. UNCHANGED <<outbox, stack, txs>> /\ Rest /\ pending' = Without(pending, {e})
  BY DEF AddTooLate
<1>2. Fewer
  BY <1>1 DEF Fewer, Without
<1>3. RunsGoOn
  BY <1>1, SameGoOn
<1>4. QED
  BY <1>1, <1>2, <1>3, DroppedRuns

(* Writing a version changes no run.                                       *)
LEMMA StampRuns ==
  ASSUME Inv, Inv', RowInv, RunInv, NEW e \in Ids, Stamp(e)
  PROVE  RunInv'
<1>1. /\ UNCHANGED <<outbox, pending, txs>> /\ Rest
      /\ stack' = IF Ending(e) = {} THEN stack ELSE Popped(CHOOSE i \in Ending(e) : TRUE)
  BY DEF Stamp
<1>2. Fewer
  BY <1>1 DEF Fewer
<1>3. RunsGoOn
  <2>1. CASE Ending(e) = {}
    BY <1>1, <2>1, SameGoOn
  <2>2. CASE Ending(e) # {}
    <3>1. PICK i \in Ending(e) : stack' = Popped(i)
      BY <1>1, <2>2
    <3>2. i \in 1..Len(stack)
      BY StackOf DEF Inv, Ending
    <3>3. QED
      BY <1>1, <3>1, <3>2, PoppedGoOn
  <2>3. QED
    BY <2>1, <2>2
<1>4. QED
  BY <1>1, <1>2, <1>3, DroppedRuns

(* A run begins: no event has its name, and under Sole it is the only one. *)
LEMMA BeginTxRuns ==
  ASSUME Inv, Inv', RowInv, RunInv, BeginTx
  PROVE  RunInv'
<1> DEFINE t == [id |-> TxName(txs + 1), phase |-> "open", entries |-> {}]
           n == MaxIds + txs + 1
<1>1. /\ stack' = Append(stack, t) /\ txs' = txs + 1 /\ Len(stack) < config.depth
      /\ outbox' = outbox /\ pending' = pending
      /\ UNCHANGED <<log, config, dead, push, late, crashes>>
  BY DEF BeginTx, Rest
<1>2. stack \in Seq(Tx) /\ Len(stack) \in Nat /\ txs \in Nat /\ MaxIds \in Nat
  BY IdFacts DEF Inv, StackInOrder
<1>3. t.id = n
  BY <1>2 DEF TxName
<1> HIDE DEF t
<1>4. /\ Len(stack') = Len(stack) + 1 /\ stack'[Len(stack) + 1] = t
      /\ \A j \in 1..Len(stack) : stack'[j] = stack[j]
  BY <1>1, <1>2
<1>5. RunIds \subseteq RunIds' /\ n \notin RunIds /\ \A e \in Made : e # n
  BY <1>1, <1>2, RunFacts DEF RunIds
<1> HIDE DEF n
<1>6. StackIds' \subseteq StackIds \cup {n} /\ OpenRuns' \subseteq OpenRuns \cup {n}
  BY <1>2, <1>3, <1>4 DEF StackIds, OpenRuns
<1>7. \A e \in Made : TxOf(e) # n
  BY <1>5, NamesApart DEF RunInv
<1>8. /\ RunsTold' /\ HandsEmpty' /\ Committed' = Committed
      /\ \A e : RunOf(e)' = RunOf(e)
      /\ RunsWhole => RunsWhole'
      /\ OneFate => OneFate'
  BY <1>1, QuietSends DEF RunInv
<1>9. RunsCommitOnce'
  BY <1>5, <1>6, <1>7, <1>8, RunFacts DEF RunInv, RunsCommitOnce, Made
<1>10. NeverSent' /\ (Sole' <=> Sole)
  BY <1>1 DEF RunInv, NeverSent, Sole
<1>11. Made' = Made /\ \A e : TxOf(e)' = TxOf(e)
  BY <1>1, <1>8 DEF Made, TxOf
<1>12. Sole => RunsInOrder'
  <2> SUFFICES ASSUME Sole PROVE RunsInOrder'
    OBVIOUS
  <2>1. RunsInOrder
    BY DEF RunInv
  <2>2. config.depth \in Nat
    BY ConfigTyped DEF Inv, ConfigType
  <2>3. Len(stack) = 0 /\ Len(stack') <= 1
    BY <1>1, <1>2, <1>4, <2>2 DEF Sole
  <2>4. StackIds' \subseteq {n}
    BY <1>6, <2>3 DEF StackIds
  <2>5. \A e, f, g \in Made' : e < f /\ f < g /\ TxOf(e)' = TxOf(g)' => TxOf(f)' = TxOf(e)'
    BY <1>11, <2>1 DEF RunsInOrder
  <2>6. \A m \in StackIds', e, f \in Made' : e < f /\ TxOf(e)' = m => TxOf(f)' = m
    BY <1>7, <1>11, <2>4
  <2>7. QED
    BY <2>3, <2>5, <2>6 DEF RunsInOrder
<1>13. QED
  BY <1>8, <1>9, <1>10, <1>12 DEF RunInv

(* A call made while a run is on the stack belongs to it.                  *)
LEMMA CallRuns ==
  ASSUME Inv, Inv', RowInv, RunInv, NEW k \in Keys, NEW type \in MutationTypes, Call(k, type)
  PROVE  RunInv'
<1>0. PICK n, tx : n = nextId /\ tx = IF stack = <<>> THEN nextId ELSE stack[Len(stack)].id
  OBVIOUS
<1>1. /\ UNCHANGED <<log, outbox, dead, push, late>> /\ stack' = stack /\ txs' = txs
      /\ config' = config /\ crashes' = crashes /\ nextId <= config.ids
  BY DEF Call, calls
<1>2. /\ DOMAIN pending' = DOMAIN pending \cup {n} /\ pending'[n].tx = tx
      /\ \A e \in DOMAIN pending : e < n /\ pending'[e] = pending[e]
      /\ \A e \in Committed : e < n
      /\ n \in Nat
  BY <1>0, CallAdds
<1>3. pending'[n].attempts = 0 /\ pending'[n].wait = 0
  BY <1>0 DEF Call, Join
<1>4. n <= MaxIds
  <2>1. config.ids \in 0..MaxIds /\ MaxIds \in Nat
    BY ConfigTyped DEF Inv
  <2>2. QED
    BY <1>0, <1>1, <1>2, <2>1
<1>5. /\ RunsTold' /\ HandsEmpty' /\ Committed' = Committed
      /\ \A e : RunOf(e)' = RunOf(e)
      /\ RunsWhole => RunsWhole'
      /\ OneFate => OneFate'
  BY <1>1, QuietSends DEF RunInv
<1>6. RunsCommitOnce' /\ NeverSent' /\ (Sole' <=> Sole)
  BY <1>1, <1>2, <1>3, <1>5 DEF RunInv, RunsCommitOnce, NeverSent, Sole, RunIds, OpenRuns
<1>7. /\ Made' = Made \cup {n} /\ \A e \in Made : e < n /\ e # n
      /\ \A e \in Made : TxOf(e)' = TxOf(e)
      /\ TxOf(n)' = tx
  <2>1. \A e \in Made : e < n /\ e # n
    BY <1>2, RunFacts DEF Made
  <2>2. Made' = Made \cup {n}
    BY <1>2, <1>5 DEF Made
  <2>3. ASSUME NEW e \in Made PROVE TxOf(e)' = TxOf(e)
    <3>1. e # n
      BY <2>1
    <3>2. e \in DOMAIN pending' <=> e \in DOMAIN pending
      BY <1>2, <3>1
    <3>3. QED
      BY <1>2, <1>5, <3>2 DEF TxOf
  <2>4. TxOf(n)' = tx
    BY <1>2 DEF TxOf
  <2>5. QED
    BY <2>1, <2>2, <2>3, <2>4
<1>8. Sole => RunsInOrder'
  <2> SUFFICES ASSUME Sole PROVE RunsInOrder'
    OBVIOUS
  <2>1. RunsInOrder /\ StackIds' = StackIds /\ Len(stack) \in Nat
    BY <1>1, RunFacts DEF RunInv, StackIds
  <2>2. stack # <<>> => tx \in StackIds /\ \A m \in StackIds : m = tx
    <3>1. stack \in Seq(Tx)
      BY DEF Inv, StackInOrder
    <3>2. stack # <<>> => Len(stack) = 1
      BY <2>1, <3>1 DEF RunsInOrder
    <3>3. stack # <<>> => tx = stack[1].id
      BY <1>0, <3>2
    <3>0. 1..1 = {1}
      OBVIOUS
    <3>4. stack # <<>> => 1..Len(stack) = {1}
      BY <3>0, <3>2
    <3>5. stack # <<>> => StackIds = {stack[1].id}
      BY <3>2, <3>4 DEF StackIds
    <3>6. QED
      BY <3>3, <3>5
  <2>3. stack = <<>> => tx = n /\ StackIds = {}
    BY <1>0 DEF StackIds
  <2>4. \A e \in Made : TxOf(e) # n
    <3>1. n \notin RunIds
      BY <1>2, <1>4, RunFacts DEF RunIds
    <3>2. QED
      BY <1>7, <3>1, NamesApart DEF RunInv
  <2>5. \A e \in Made' : e \in Nat
    BY <1>2, <1>7, RunFacts
  <2>6. ASSUME NEW e \in Made', NEW f \in Made', NEW g \in Made', e < f, f < g, TxOf(e)' = TxOf(g)'
        PROVE  TxOf(f)' = TxOf(e)'
    <3>1. e \in Made /\ f \in Made
      BY <1>2, <1>7, <2>5, <2>6
    <3>2. CASE g \in Made
      BY <1>7, <2>1, <2>6, <3>1, <3>2 DEF RunsInOrder
    <3>3. CASE g = n
      <4>0. TxOf(e)' = TxOf(n)'
        BY <2>6, <3>3
      <4>1. TxOf(e) = tx
        BY <1>7, <3>1, <4>0
      <4>2. tx \in StackIds
        BY <2>2, <2>3, <2>4, <3>1, <4>1
      <4>3. TxOf(f) = tx
        BY <2>1, <2>6, <3>1, <4>1, <4>2 DEF RunsInOrder
      <4>4. QED
        BY <1>7, <3>1, <4>1, <4>3
    <3>4. QED
      BY <1>7, <3>2, <3>3
  <2>7. ASSUME NEW m \in StackIds', NEW e \in Made', NEW f \in Made', e < f, TxOf(e)' = m
        PROVE  TxOf(f)' = m
    <3>1. e \in Made
      BY <1>2, <1>7, <2>5, <2>7
    <3>2. CASE f \in Made
      BY <1>7, <2>1, <2>7, <3>1, <3>2 DEF RunsInOrder
    <3>3. CASE f = n
      <4>1. m = tx
        BY <2>1, <2>2, <2>3, <2>7
      <4>2. TxOf(f)' = TxOf(n)'
        BY <3>3
      <4>3. QED
        BY <1>7, <4>1, <4>2
    <3>4. QED
      BY <1>7, <3>2, <3>3
  <2>8. Len(stack') <= 1
    BY <1>1, <2>1 DEF RunsInOrder
  <2>9. QED
    BY <2>6, <2>7, <2>8 DEF RunsInOrder
<1>9. QED
  BY <1>5, <1>6, <1>8 DEF RunInv

-----------------------------------------------------------------------------
(* A push, seen from the runs.                                             *)

(* What is committed stays committed, under the name of its run.           *)
RunsKept == Committed' = Committed /\ \A e \in Committed : RunOf(e)' = RunOf(e)

(* A group names its events and their run.                                 *)
TrueGroup(g) == \A b \in g : b.seq = b.eid /\ b.tx = RunOf(b.eid) /\ b.eid \in Committed

(* What holds of the runs still does when only pending entries go.         *)
LEMMA KeptRuns ==
  ASSUME Inv, Inv', RowInv, RunInv, RunsKept, Fewer, RunsGoOn
  PROVE  RunsCommitOnce' /\ NeverSent' /\ (RunsInOrder => RunsInOrder')
<1>1. RunsCommitOnce'
  BY DEF RunInv, RunsCommitOnce, RunsKept, RunsGoOn, RunIds
<1>2. NeverSent'
  BY DEF RunInv, NeverSent, Fewer
<1>3. RunsInOrder => RunsInOrder'
  <2>1. DOMAIN pending \cap Committed = {}
    BY IdFacts
  <2>2. Made' \subseteq Made
    BY DEF Made, Fewer, RunsKept
  <2>3. ASSUME NEW e \in Made' PROVE TxOf(e)' = TxOf(e)
    BY <2>1, <2>3 DEF Made, Fewer, TxOf, RunsKept
  <2>4. Len(stack) \in Nat /\ Len(stack') \in Nat
    BY DEF Inv, StackInOrder
  <2>5. QED
    BY <2>2, <2>3, <2>4, FewerInOrder
<1>4. QED
  BY <1>1, <1>2, <1>3

(* A step that makes no call keeps the runs apart, whatever else it does.  *)
LEMMA PushedRuns ==
  ASSUME Inv, Inv', RowInv, RunInv, UNCHANGED <<config, calls, crashes>>, RunsKept, RunsTold', HandsEmpty',
         Sole => RunsWhole' /\ OneFate'
  PROVE  RunInv'
<1>1. pending' = pending /\ stack' = stack /\ txs' = txs
  BY DEF calls
<1>2. Fewer /\ RunsGoOn
  BY <1>1, SameGoOn DEF Fewer
<1>3. Sole' <=> Sole
  BY DEF Sole
<1>4. QED
  BY <1>2, <1>3, KeptRuns DEF RunInv

(* The groups in hand, and those on their way.                             *)
LEMMA TrueGroups ==
  ASSUME Inv, RowInv, RunInv
  PROVE  /\ Held = Committed /\ Stored \subseteq Committed /\ Unsynced \subseteq Committed
         /\ push.due \subseteq Committed /\ DOMAIN push.answer \subseteq Committed
         /\ Eids(Events(push.open)) \subseteq Committed
         /\ \A g \in push.open : TrueGroup(g)
         /\ \A r \in late : \A g \in r : TrueGroup(g)
<1>1. Held = Committed /\ Stored \subseteq Committed /\ Unsynced \subseteq Committed
  BY RunFacts DEF Held, Committed
<1>2. /\ push.due \subseteq Committed /\ DOMAIN push.answer \subseteq Committed
      /\ Eids(Events(push.open)) \subseteq Committed
      /\ Sent(push.open, Held) /\ \A r \in late : Sent(r, Held)
  BY <1>1 DEF Inv, Sending, LateSent
<1>3. /\ \A g \in push.open : TrueGroup(g)
      /\ \A r \in late : \A g \in r : TrueGroup(g)
  BY <1>1, <1>2 DEF TrueGroup, Sent, RunInv, RunsTold, BodiesTrue
<1>4. QED
  BY <1>1, <1>2, <1>3

(* What splits no run keeps splitting none.                                *)
LEMMA WholeKept ==
  ASSUME RunsKept
  PROVE  /\ \A S : S \subseteq Committed /\ Whole(S) => Whole(S)'
         /\ \A r : (\A g \in r : TrueGroup(g) /\ Whole(Eids(g)) /\ OneRun(g)) => WholeGroups(r)'
<1>1. \A S : S \subseteq Committed /\ Whole(S) => Whole(S)'
  BY DEF RunsKept, Whole
<1>2. ASSUME NEW r, \A g \in r : TrueGroup(g) /\ Whole(Eids(g)) /\ OneRun(g)
      PROVE  WholeGroups(r)'
  <2>1. \A g \in r : Eids(g) \subseteq Committed
    BY <1>2 DEF TrueGroup, Eids
  <2>2. \A g \in r : Whole(Eids(g))'
    BY <1>1, <1>2, <2>1 DEF Eids
  <2>3. QED
    BY <1>2, <2>2 DEF WholeGroups, OneRun
<1>3. QED
  BY <1>1, <1>2

(* Requests and server keep naming the runs.                               *)
LEMMA ToldKept ==
  ASSUME Inv, RowInv, RunInv, RunsKept, LogGrows, Stored' \subseteq Committed,
         \A e \in Stored' \ Stored : log'[e].tx = RunOf(e),
         \A g \in push'.open : TrueGroup(g),
         \A r \in late' : \A g \in r : TrueGroup(g)
  PROVE  RunsTold'
<1>1. BodiesTrue(push.open)' /\ \A r \in late' : BodiesTrue(r)'
  BY DEF BodiesTrue, TrueGroup, RunsKept
<1>2. ASSUME NEW e \in Stored' PROVE log'[e].tx = RunOf(e)'
  <2>1. RunOf(e)' = RunOf(e)
    BY <1>2 DEF RunsKept
  <2>2. e \in Stored => log'[e].tx = RunOf(e)
    BY DEF RunInv, RunsTold, LogGrows, Stored
  <2>3. QED
    BY <1>2, <2>1, <2>2
<1>3. QED
  BY <1>1, <1>2 DEF RunsTold

(* A batch is made of whole runs, when what is due is.                     *)
LEMMA GroupsWhole ==
  ASSUME Inv, RowInv, RunInv, NEW S, S \subseteq DOMAIN outbox
  PROVE  /\ \A g \in NextBatch(S) : TrueGroup(g)
         /\ Eids(Events(NextBatch(S))) \subseteq S
         /\ Whole(S) /\ RunsInOrder => \A g \in NextBatch(S) : Whole(Eids(g)) /\ OneRun(g)
<1> DEFINE bodies == {Body(e) : e \in S}
<1>1. \A e \in S : /\ Body(e).eid = e /\ Body(e).seq = e /\ Body(e).tx = RunOf(e)
                   /\ e \in Committed /\ e \in Nat /\ e \in Made /\ TxOf(e) = RunOf(e)
  BY RunFacts DEF Body, Made
<1>2. NextBatch(S) \subseteq Groups(bodies)
  BY DEF NextBatch
<1>3. Eids(Events(NextBatch(S))) \subseteq S
  BY NextBatchSent DEF Inv
<1>4. ASSUME NEW g \in NextBatch(S)
      PROVE  /\ TrueGroup(g)
             /\ Whole(S) /\ RunsInOrder => Whole(Eids(g)) /\ OneRun(g)
  <2>0. PICK b0 \in bodies : g = {c \in bodies : SameRun(bodies, b0, c)}
    <3> HIDE DEF bodies
    <3>1. QED
      BY <1>2 DEF Groups
  <2>1. PICK e0 \in S : g = {c \in bodies : SameRun(bodies, Body(e0), c)}
    BY <2>0
  <2>2. \A b \in g : \E e \in S : b = Body(e) /\ RunOf(e) = RunOf(e0)
    BY <1>1, <2>1 DEF SameRun
  <2>3. TrueGroup(g) /\ OneRun(g)
    BY <1>1, <2>2 DEF TrueGroup, OneRun
  <2>4. ASSUME Whole(S), RunsInOrder, NEW e \in Eids(g), NEW f \in Committed, RunOf(f) = RunOf(e)
        PROVE  f \in Eids(g)
    <3>1. e \in S /\ RunOf(e) = RunOf(e0)
      BY <1>1, <2>2 DEF Eids
    <3>2. f \in S
      BY <2>4, <3>1 DEF Whole
    <3>3. ASSUME NEW d \in S
          PROVE  \/ d < e0 /\ d < f
                 \/ d > e0 /\ d > f
                 \/ RunOf(d) = RunOf(e0)
      <4>1. /\ d \in Nat /\ e0 \in Nat /\ f \in Nat /\ d \in Made /\ e0 \in Made /\ f \in Made
            /\ TxOf(d) = RunOf(d) /\ TxOf(e0) = RunOf(e0) /\ TxOf(f) = RunOf(e0)
        BY <1>1, <2>4, <3>1, <3>2
      <4>2. (e0 < d /\ d < f) \/ (f < d /\ d < e0) => RunOf(d) = RunOf(e0)
        BY <2>4, <4>1 DEF RunsInOrder
      <4>3. (d = e0 \/ d = f) => RunOf(d) = RunOf(e0)
        BY <4>1
      <4>4. QED
        BY <4>1, <4>2, <4>3
    <3>4. SameRun(bodies, Body(e0), Body(f))
      BY <1>1, <2>4, <3>1, <3>2, <3>3 DEF SameRun
    <3>5. QED
      BY <1>1, <2>1, <3>2, <3>4 DEF Eids
  <2>5. QED
    BY <2>3, <2>4 DEF Whole
<1>5. QED
  BY <1>3, <1>4

(* With nothing answered, an event is what its row says.                   *)
LEMMA NothingAnswered ==
  ASSUME DOMAIN push.answer = {}
  PROVE  \A e : /\ Fate(e) = IF e \notin DOMAIN outbox THEN "parked"
                             ELSE IF outbox[e].synced THEN "synced" ELSE "queued"
                /\ Pause(e) = outbox[e].wait
BY DEF Fate, Pause, Answered

(* What an attempt changes of a row.                                       *)
LEMMA ChargedRow ==
  ASSUME Partial(outbox, Ids, Row), NEW e \in DOMAIN outbox
  PROVE  LET row == [Charged(outbox[e]) EXCEPT !.wait = 0]
             n   == outbox[e].attempts
         IN  /\ row.synced = outbox[e].synced /\ row.tx = outbox[e].tx /\ row.wait = 0
             /\ row.key = outbox[e].key
             /\ row.attempts = IF n < MaxAttempts THEN n + 1 ELSE n
<1>1. outbox[e] \in Row
  BY DEF Partial
<1>2. QED
  BY <1>1 DEF Charged, Row

(* The next batch is taken in hand.                                        *)
LEMMA SendRuns ==
  ASSUME Inv, Inv', RowInv, RunInv, NEW S \in SUBSET Unsynced, SendOrPull(S), Aside,
         UNCHANGED <<log, dead, heads, late, crashes>>,
         Sole => Whole(S) /\ DOMAIN push.answer = {}
  PROVE  RunInv'
<1> DEFINE batch == NextBatch(S)
           sent  == IF S = {} THEN {} ELSE Eids(Events(batch))
<1>1. Partial(outbox, Ids, Row) /\ UNCHANGED <<config, calls>> /\ Unsynced \subseteq DOMAIN outbox
  BY DEF Inv, Tables, Aside, Unsynced
<1>2. /\ \A g \in batch : TrueGroup(g)
      /\ Eids(Events(batch)) \subseteq S
      /\ Whole(S) /\ RunsInOrder => \A g \in batch : Whole(Eids(g)) /\ OneRun(g)
  BY <1>1, GroupsWhole
<1>3. /\ DOMAIN outbox' = DOMAIN outbox
      /\ \A e \in DOMAIN outbox :
           outbox'[e] = IF e \in sent THEN [Charged(outbox[e]) EXCEPT !.wait = 0] ELSE outbox[e]
  <2>1. CASE S = {}
    BY <2>1 DEF SendOrPull
  <2>2. CASE S # {}
    BY <2>2 DEF SendOrPull, SendBatch
  <2>3. QED
    BY <2>1, <2>2
<1>4. /\ DOMAIN push'.answer = {}
      /\ push'.due = S \ sent /\ push'.open = (IF S = {} THEN {} ELSE batch)
      /\ push'.phase \in {"idle", "pull"} => S = {}
  <2>1. CASE S = {}
    BY <2>1 DEF SendOrPull, Pulling, PushIn, Empty
  <2>2. CASE S # {}
    BY <2>2 DEF SendOrPull, SendBatch, Empty
  <2>3. QED
    BY <2>1, <2>2
<1>5. sent \subseteq S /\ sent \subseteq DOMAIN outbox
  BY <1>1, <1>2
<1> HIDE DEF batch
<1>6. Whole(S) /\ RunsInOrder => Whole(sent)
  <2>1. Whole({})
    BY DEF Whole
  <2>2. Whole(S) /\ RunsInOrder => Whole(Eids(Events(batch)))
    BY <1>2, WholeEvents DEF WholeGroups
  <2>3. QED
    BY <2>1, <2>2
<1> HIDE DEF sent
<1>7. \A e \in DOMAIN outbox :
        /\ outbox'[e].synced = outbox[e].synced /\ outbox'[e].tx = outbox[e].tx
        /\ outbox'[e].key = outbox[e].key
        /\ outbox'[e].wait = IF e \in sent THEN 0 ELSE outbox[e].wait
        /\ outbox'[e].attempts = IF e \in sent /\ outbox[e].attempts < MaxAttempts
                                 THEN outbox[e].attempts + 1 ELSE outbox[e].attempts
  BY <1>1, <1>3, ChargedRow
<1>8. DOMAIN outbox' = DOMAIN outbox
  BY <1>3
<1>9. Stored' = Stored /\ LogGrows
  BY DEF Stored, LogGrows
<1>10. /\ Held = Committed /\ Stored \subseteq Committed /\ Unsynced \subseteq Committed
       /\ push.due \subseteq Committed /\ DOMAIN push.answer \subseteq Committed
       /\ \A g \in push.open : TrueGroup(g)
       /\ \A r \in late : \A g \in r : TrueGroup(g)
  BY TrueGroups
<1>11. RunsKept
  BY <1>7, <1>8, <1>9, <1>10, SameContentsRows DEF SameContents, RunsKept
<1>12. RunsTold'
  BY <1>2, <1>4, <1>9, <1>10, <1>11, ToldKept
<1>13. HandsEmpty'
  BY <1>4 DEF HandsEmpty
<1>14. Unsynced' = Unsynced
  BY <1>7, <1>8 DEF Unsynced
<1>15. ASSUME Sole PROVE RunsWhole' /\ OneFate'
  <2>1. Whole(S) /\ RunsInOrder /\ RunsWhole /\ OneFate /\ Whole(sent) /\ DOMAIN push.answer = {}
    BY <1>6, <1>15 DEF RunInv
  <2>2. /\ \A W : W \subseteq Committed /\ Whole(W) => Whole(W)'
        /\ \A r : (\A g \in r : TrueGroup(g) /\ Whole(Eids(g)) /\ OneRun(g)) => WholeGroups(r)'
    BY <1>11, WholeKept
  <2>3. Whole(Stored)'
    BY <1>9, <1>10, <2>1, <2>2 DEF RunsWhole
  <2>4. Whole(push.due)'
    <3>1. PICK W : W = S \ sent
      OBVIOUS
    <3>2. Whole(W) /\ W \subseteq Committed
      BY <1>5, <1>10, <2>1, <3>1, WholeMinus
    <3>3. Whole(W)'
      BY <2>2, <3>2
    <3>4. QED
      BY <1>4, <3>1, <3>3
  <2>5. WholeGroups(push.open)'
    <3>1. PICK r : r = push'.open
      OBVIOUS
    <3>2. \A g \in r : TrueGroup(g) /\ Whole(Eids(g)) /\ OneRun(g)
      BY <1>2, <1>4, <2>1, <3>1
    <3>3. WholeGroups(r)'
      BY <2>2, <3>2
    <3>4. QED
      BY <3>1, <3>3
  <2>6. Whole(DOMAIN push.answer)'
    BY <1>4 DEF Whole
  <2>7. \A r \in late' : WholeGroups(r)'
    BY <1>10, <2>1, <2>2 DEF RunsWhole, WholeGroups
  <2>8. RunsWhole'
    BY <2>3, <2>4, <2>5, <2>6, <2>7 DEF RunsWhole
  <2>9. DOMAIN outbox' \cap DOMAIN dead' = {}
    BY <1>8, <2>1 DEF OneFate
  <2>10. \A e, f \in Committed : RunOf(e) = RunOf(f) => (e \in sent <=> f \in sent)
    BY <2>1 DEF Whole
  <2>11. \A e, f \in Unsynced' : RunOf(e)' = RunOf(f)' => outbox'[e].attempts = outbox'[f].attempts
    BY <1>1, <1>7, <1>10, <1>11, <1>14, <2>1, <2>10 DEF OneFate, RunsKept
  <2>12. \A e : /\ Fate(e) = IF e \notin DOMAIN outbox THEN "parked"
                             ELSE IF outbox[e].synced THEN "synced" ELSE "queued"
                /\ Pause(e) = outbox[e].wait
    BY <2>1, NothingAnswered
  <2>13. \A e : /\ Fate(e)' = IF e \notin DOMAIN outbox' THEN "parked"
                              ELSE IF outbox'[e].synced THEN "synced" ELSE "queued"
                /\ Pause(e)' = outbox'[e].wait
    BY <1>4 DEF Fate, Pause, Answered
  <2>14. \A e : /\ Fate(e)' = Fate(e)
                /\ e \in DOMAIN outbox => Pause(e)' = IF e \in sent THEN 0 ELSE Pause(e)
    BY <1>7, <1>8, <2>12, <2>13
  <2>15. \A e : Fate(e) = "queued" => e \in DOMAIN outbox
    BY <2>12
  <2>16. \A e, f \in Committed' : RunOf(e)' = RunOf(f)' =>
           Fate(e)' = Fate(f)' /\ (Fate(e)' = "queued" => Pause(e)' = Pause(f)')
    BY <1>11, <2>1, <2>10, <2>14, <2>15 DEF OneFate, RunsKept
  <2>17. QED
    BY <2>8, <2>9, <2>11, <2>16 DEF OneFate
<1>16. QED
  BY <1>1, <1>11, <1>12, <1>13, <1>15, PushedRuns

(* A sync begins, or goes on to the next batch.                            *)
LEMMA NextBatchRuns ==
  ASSUME Inv, Inv', RowInv, RunInv, StartPush \/ ContinuePush
  PROVE  RunInv'
<1>1. Aside /\ UNCHANGED <<log, dead, heads, late, crashes>>
  BY DEF StartPush, ContinuePush
<1>2. CASE StartPush
  <2>1. push.phase = "idle" /\ SendOrPull(Due) /\ Due \in SUBSET Unsynced
    BY <1>2 DEF StartPush, Due
  <2>2. DOMAIN push.answer = {}
    BY <2>1 DEF RunInv, HandsEmpty
  <2>3. \A e : /\ Fate(e) = IF e \notin DOMAIN outbox THEN "parked"
                            ELSE IF outbox[e].synced THEN "synced" ELSE "queued"
               /\ Pause(e) = outbox[e].wait
    BY <2>2, NothingAnswered
  <2>4. \A e \in Committed : e \in Due <=> Fate(e) = "queued" /\ Pause(e) = 0
    BY <2>3 DEF Due, Unsynced
  <2>5. Due \subseteq Committed
    BY TrueGroups DEF Due
  <2>6. Sole => Whole(Due)
    BY <2>4, <2>5 DEF RunInv, OneFate, Whole
  <2>7. QED
    BY <1>1, <2>1, <2>2, <2>6, SendRuns
<1>3. CASE ContinuePush
  <2>1. push.answer = Empty /\ SendOrPull(push.due) /\ push.due \in SUBSET Unsynced
    BY <1>3 DEF ContinuePush, Inv, Sending
  <2>2. DOMAIN push.answer = {}
    BY <2>1 DEF Empty
  <2>3. Sole => Whole(push.due)
    BY DEF RunInv, RunsWhole
  <2>4. QED
    BY <1>1, <2>1, <2>2, <2>3, SendRuns
<1>4. QED
  BY <1>2, <1>3

(* What the server stores of a group: all or nothing, under its run.       *)
LEMMA ServerStores ==
  ASSUME Inv, RowInv, RunInv, NEW g, TrueGroup(g), NEW faults,
         NEW result \in ServerResults(g, faults), log' = result.log
  PROVE  /\ LogGrows /\ Stored' \subseteq Committed
         /\ Stored' = Stored \/ Stored' = Stored \cup Eids(g)
         /\ \A e \in Stored' \ Stored : log'[e].tx = RunOf(e)
         /\ Eids(g) \subseteq Committed
<1>1. LogGrows /\ DOMAIN log' \subseteq DOMAIN log \cup Eids(g)
  BY ServerGrows
<1>2. Eids(g) \subseteq Committed /\ Committed \subseteq Ids /\ Stored \subseteq Committed
  BY RunFacts DEF Eids, TrueGroup
<1>3. Stored' \subseteq Committed
  BY <1>1, <1>2 DEF Stored
<1>4. result = Result(Appended(g), AllConfirmed(g)) \/ result.log = log
  <2>1. \/ result = Result(Appended(g), AllConfirmed(g))
        \/ result = Result(log, Aborted(g, Conflicting(g), "conflict"))
        \/ \E b \in Fresh(g) : result = Result(log, Aborted(g, {b}, "rejected"))
        \/ result = Result(log, AllTransient(g))
    BY DEF ServerResults
  <2>2. \A a : Result(log, a).log = log
    BY DEF Result
  <2> HIDE DEF Result
  <2>3. QED
    BY <2>1, <2>2
<1>5. CASE result.log = log
  BY <1>1, <1>2, <1>5 DEF Stored
<1>6. CASE result = Result(Appended(g), AllConfirmed(g))
  <2>1. log' = Appended(g)
    BY <1>6 DEF Result
  <2>2. DOMAIN log' = DOMAIN log \cup Eids(g)
    BY <2>1 DEF Appended
  <2>3. Stored' = Stored \cup Eids(g)
    BY <1>2, <2>2 DEF Stored
  <2>4. ASSUME NEW e \in Eids(g), e \notin DOMAIN log PROVE log'[e].tx = RunOf(e)
    <3> DEFINE b == CHOOSE c \in g : c.eid = e
    <3>1. b \in g /\ b.eid = e
      BY <2>4 DEF Eids
    <3>2. log'[e].tx = b.tx
      BY <2>1, <2>2, <2>4 DEF Appended, StoredEvent
    <3> HIDE DEF b
    <3>3. QED
      BY <3>1, <3>2 DEF TrueGroup
  <2>5. QED
    BY <1>1, <1>2, <1>3, <2>3, <2>4 DEF Stored
<1>7. QED
  BY <1>4, <1>5, <1>6

(* One verdict for all: taken, put off, or refused.                        *)
Verdicts == {{"confirmed"}, {"retry"}, {"rejected", "conflict"}}

(* What the server answers for a group that is a whole run: one answer.    *)
LEMMA ServerSays ==
  ASSUME Inv, RowInv, RunInv, NEW g, TrueGroup(g), Whole(Eids(g)), OneRun(g), Whole(Stored),
         NEW faults, NEW result \in ServerResults(g, faults)
  PROVE  /\ DOMAIN result.answer = Eids(g)
         /\ \E v \in Verdicts : \A e \in Eids(g) : result.answer[e] \in v
<1>1. Eids(g) \subseteq Committed /\ Committed \subseteq Ids
  BY RunFacts DEF Eids, TrueGroup
<1>2. \A e, f \in Eids(g) : RunOf(e) = RunOf(f)
  BY DEF Eids, TrueGroup, OneRun
<1>3. \A e, f \in Eids(g) : e \in DOMAIN log <=> f \in DOMAIN log
  BY <1>1, <1>2 DEF Whole, Stored
<1>4. ASSUME NEW refused, NEW code \in {"rejected", "conflict"}
      PROVE  /\ DOMAIN Aborted(g, refused, code) = Eids(g)
             /\ \E v \in Verdicts : \A e \in Eids(g) : Aborted(g, refused, code)[e] \in v
  <2>1. DOMAIN Aborted(g, refused, code) = Eids(g)
    BY DEF Aborted
  <2>2. \A e \in Eids(g) : Aborted(g, refused, code)[e] =
          IF e \in DOMAIN log THEN "confirmed" ELSE IF e \in Eids(refused) THEN code ELSE "rejected"
    BY DEF Aborted
  <2>3. CASE \A e \in Eids(g) : e \in DOMAIN log
    BY <2>1, <2>2, <2>3 DEF Verdicts
  <2>4. CASE \A e \in Eids(g) : e \notin DOMAIN log
    BY <1>4, <2>1, <2>2, <2>4 DEF Verdicts
  <2>5. QED
    BY <1>3, <2>3, <2>4
<1>5. /\ DOMAIN AllConfirmed(g) = Eids(g)
      /\ \E v \in Verdicts : \A e \in Eids(g) : AllConfirmed(g)[e] \in v
  BY DEF AllConfirmed, Verdicts
<1>6. /\ DOMAIN AllTransient(g) = Eids(g)
      /\ \E v \in Verdicts : \A e \in Eids(g) : AllTransient(g)[e] \in v
  BY DEF AllTransient, Verdicts
<1>7. \/ result.answer = AllConfirmed(g) \/ result.answer = AllTransient(g)
      \/ \E refused, code : code \in {"rejected", "conflict"}
                            /\ result.answer = Aborted(g, refused, code)
  <2>1. \/ result = Result(Appended(g), AllConfirmed(g))
        \/ result = Result(log, Aborted(g, Conflicting(g), "conflict"))
        \/ \E b \in Fresh(g) : result = Result(log, Aborted(g, {b}, "rejected"))
        \/ result = Result(log, AllTransient(g))
    BY DEF ServerResults
  <2>2. \A l, a : Result(l, a).answer = a
    BY DEF Result
  <2> HIDE DEF Result
  <2>3. CASE result = Result(log, Aborted(g, Conflicting(g), "conflict"))
    <3>1. result.answer = Aborted(g, Conflicting(g), "conflict")
      BY <2>2, <2>3
    <3>2. QED
      BY <3>1
  <2>4. CASE \E b \in Fresh(g) : result = Result(log, Aborted(g, {b}, "rejected"))
    <3>1. PICK b \in Fresh(g) : result = Result(log, Aborted(g, {b}, "rejected"))
      BY <2>4
    <3>2. result.answer = Aborted(g, {b}, "rejected")
      BY <2>2, <3>1
    <3>3. QED
      BY <3>2
  <2>5. QED
    BY <2>1, <2>2, <2>3, <2>4
<1>8. QED
  BY <1>4, <1>5, <1>6, <1>7

(* The first group of a request.                                           *)
LEMMA HeadGroup ==
  ASSUME NEW r, NEW H, r # {}, Sent(r, H), \A g \in r : TrueGroup(g)
  PROVE  /\ Head1(r) \in r /\ TrueGroup(Head1(r))
         /\ \A g \in r \ {Head1(r)} : TrueGroup(g)
BY Head1In

(* A request given up on reaches the server.                               *)
LEMMA ServeLateRuns ==
  ASSUME Inv, Inv', RowInv, RunInv, ServeLate
  PROVE  RunInv'
<1>1. Aside /\ UNCHANGED <<outbox, dead, heads, push, crashes>>
  BY DEF ServeLate
<1>2. PICK r \in late :
        /\ late' = (late \ {r}) \cup (IF r = {Head1(r)} THEN {} ELSE {r \ {Head1(r)}})
        /\ \E result \in ServerResults(Head1(r), config.faults) : log' = result.log
  BY DEF ServeLate
<1>3. PICK result \in ServerResults(Head1(r), config.faults) : log' = result.log
  BY <1>2
<1>4. r # {} /\ Sent(r, Held)
  BY DEF Inv, LateSent
<1>5. PICK g : g = Head1(r)
  OBVIOUS
<1>6. /\ Held = Committed /\ Stored \subseteq Committed /\ Unsynced \subseteq Committed
      /\ push.due \subseteq Committed /\ DOMAIN push.answer \subseteq Committed
      /\ Eids(Events(push.open)) \subseteq Committed
      /\ \A h \in push.open : TrueGroup(h)
      /\ \A q \in late : \A h \in q : TrueGroup(h)
  BY TrueGroups
<1>7. g \in r /\ TrueGroup(g)
  BY <1>4, <1>5, <1>6, Head1In
<1>8. /\ LogGrows /\ Stored' \subseteq Committed
      /\ Stored' = Stored \/ Stored' = Stored \cup Eids(g)
      /\ \A e \in Stored' \ Stored : log'[e].tx = RunOf(e)
      /\ Eids(g) \subseteq Committed
  BY <1>3, <1>5, <1>7, ServerStores
<1>9. RunsKept
  BY <1>1 DEF RunsKept, Committed, RunOf, RowOf
<1>10. \A q \in late' : \A h \in q : \E p \in late : h \in p
  BY <1>2
<1>11. \A q \in late' : \A h \in q : TrueGroup(h)
  BY <1>6, <1>10
<1>12. RunsTold'
  BY <1>1, <1>6, <1>8, <1>9, <1>11, ToldKept
<1>13. HandsEmpty'
  BY <1>1 DEF RunInv, HandsEmpty
<1>14. ASSUME Sole PROVE RunsWhole' /\ OneFate'
  <2>1. RunsWhole /\ OneFate
    BY <1>14 DEF RunInv
  <2>2. /\ \A W : W \subseteq Committed /\ Whole(W) => Whole(W)'
        /\ \A q : (\A h \in q : TrueGroup(h) /\ Whole(Eids(h)) /\ OneRun(h)) => WholeGroups(q)'
    BY <1>9, WholeKept
  <2>3. Whole(Stored)'
    <3>1. PICK W : W = Stored'
      OBVIOUS
    <3>2. Whole(W) /\ W \subseteq Committed
      BY <1>7, <1>8, <2>1, <3>1, WholeUnion DEF RunsWhole, WholeGroups
    <3>3. Whole(W)'
      BY <2>2, <3>2
    <3>4. QED
      BY <3>1, <3>3
  <2>4. Whole(push.due)' /\ WholeGroups(push.open)'
    BY <1>1, <1>6, <2>1, <2>2 DEF RunsWhole, WholeGroups
  <2>5. push'.phase = "waiting" => Whole(DOMAIN push.answer)'
    BY <1>1, <1>6, <2>1, <2>2 DEF RunsWhole
  <2>6. \A q \in late' : WholeGroups(q)'
    BY <1>10, <1>11, <2>1, <2>2 DEF RunsWhole, WholeGroups
  <2>7. RunsWhole'
    BY <2>3, <2>4, <2>5, <2>6 DEF RunsWhole
  <2>8. Unsynced' = Unsynced /\ \A e : Fate(e)' = Fate(e) /\ Pause(e)' = Pause(e)
    BY <1>1 DEF Unsynced, Fate, Pause, Answered, Refused, Delay
  <2>9. OneFate'
    <3>1. outbox' = outbox /\ dead' = dead
      BY <1>1
    <3>2. \A e, f \in Unsynced : RunOf(e)' = RunOf(f)' => outbox'[e].attempts = outbox'[f].attempts
      BY <1>6, <1>9, <2>1, <3>1 DEF OneFate, RunsKept
    <3>3. \A e, f \in Committed : RunOf(e)' = RunOf(f)' =>
            Fate(e)' = Fate(f)' /\ (Fate(e)' = "queued" => Pause(e)' = Pause(f)')
      BY <1>9, <2>1, <2>8 DEF OneFate, RunsKept
    <3>4. QED
      BY <1>9, <2>1, <2>8, <3>1, <3>2, <3>3 DEF OneFate, RunsKept
  <2>10. QED
    BY <2>7, <2>9
<1>15. QED
  BY <1>1, <1>9, <1>12, <1>13, <1>14, PushedRuns DEF Aside

(* A step that decides on whole runs, and on each of them alike.           *)
LEMMA FatesSplit ==
  ASSUME RunsKept, OneFate, NEW S, Whole(S), Unsynced \subseteq Committed,
         DOMAIN outbox' \cap DOMAIN dead' = {},
         \A e \in Unsynced' : e \in Unsynced /\ outbox'[e].attempts = outbox[e].attempts,
         \A e \in Committed \ S :
           Fate(e)' = Fate(e) /\ (Fate(e) = "queued" => Pause(e)' = Pause(e)),
         \A e, f \in S : RunOf(e) = RunOf(f) =>
           Fate(e)' = Fate(f)' /\ (Fate(e)' = "queued" => Pause(e)' = Pause(f)')
  PROVE  OneFate'
<1>1. \A e, f \in Unsynced' : RunOf(e)' = RunOf(f)' => outbox'[e].attempts = outbox'[f].attempts
  BY DEF OneFate, RunsKept
<1>2. \A e, f \in Committed' : RunOf(e)' = RunOf(f)' =>
        Fate(e)' = Fate(f)' /\ (Fate(e)' = "queued" => Pause(e)' = Pause(f)')
  <2>1. \A e, f \in Committed : RunOf(e) = RunOf(f) => (e \in S <=> f \in S)
    BY DEF Whole
  <2>2. \A e, f \in Committed : RunOf(e) = RunOf(f) =>
          Fate(e) = Fate(f) /\ (Fate(e) = "queued" => Pause(e) = Pause(f))
    BY DEF OneFate
  <2>3. QED
    BY <2>1, <2>2 DEF RunsKept
<1>3. QED
  BY <1>1, <1>2 DEF OneFate

(* The server takes the next group of the request: a whole run, which it   *)
(* stores or refuses or puts off as one.                                   *)
LEMMA ServePushRuns ==
  ASSUME Inv, Inv', RowInv, RunInv, ServePush
  PROVE  RunInv'
<1>0. PICK g : g = Head1(push.open)
  OBVIOUS
<1>1. /\ push.phase = "waiting" /\ push.open # {} /\ Aside
      /\ UNCHANGED <<outbox, dead, heads, late, crashes>>
  BY DEF ServePush
<1>2. PICK result \in ServerResults(g, config.faults) :
        /\ log' = result.log
        /\ push' = [push EXCEPT !.open = @ \ {g}, !.answer = Join(@, result.answer)]
  BY <1>0 DEF ServePush
<1>3. Sending /\ Sent(push.open, Held)
  BY DEF Inv, Sending
<1>4. /\ Held = Committed /\ Stored \subseteq Committed /\ Unsynced \subseteq Committed
      /\ push.due \subseteq Committed /\ DOMAIN push.answer \subseteq Committed
      /\ Eids(Events(push.open)) \subseteq Committed
      /\ \A h \in push.open : TrueGroup(h)
      /\ \A q \in late : \A h \in q : TrueGroup(h)
  BY TrueGroups
<1>5. g \in push.open /\ TrueGroup(g)
  BY <1>0, <1>1, <1>3, <1>4, Head1In
<1>6. /\ LogGrows /\ Stored' \subseteq Committed
      /\ Stored' = Stored \/ Stored' = Stored \cup Eids(g)
      /\ \A e \in Stored' \ Stored : log'[e].tx = RunOf(e)
      /\ Eids(g) \subseteq Committed
  BY <1>2, <1>5, ServerStores
<1>7. DOMAIN result.answer = Eids(g)
  BY <1>2, ServerKeeps
<1> DEFINE answer == Join(push.answer, result.answer)
<1>8. /\ DOMAIN answer = DOMAIN push.answer \cup Eids(g)
      /\ \A e \in Eids(g) : answer[e] = result.answer[e]
      /\ \A e \in DOMAIN push.answer \ Eids(g) : answer[e] = push.answer[e]
  BY <1>7 DEF Join
<1>9. push' = [phase |-> "waiting", due |-> push.due, open |-> push.open \ {g}, answer |-> answer]
  BY <1>1, <1>2, <1>3 DEF Sending
<1> HIDE DEF answer
<1>10. /\ push'.phase = "waiting" /\ push'.due = push.due /\ push'.open = push.open \ {g}
       /\ push'.answer = answer
  BY <1>9
<1>11. RunsKept
  BY <1>1 DEF RunsKept, Committed, RunOf, RowOf
<1>12. RunsTold'
  BY <1>1, <1>4, <1>6, <1>10, <1>11, ToldKept
<1>13. HandsEmpty'
  BY <1>10 DEF HandsEmpty
<1>14. ASSUME Sole PROVE RunsWhole' /\ OneFate'
  <2>1. RunsWhole /\ OneFate
    BY <1>14 DEF RunInv
  <2>2. /\ \A W : W \subseteq Committed /\ Whole(W) => Whole(W)'
        /\ \A q : (\A h \in q : TrueGroup(h) /\ Whole(Eids(h)) /\ OneRun(h)) => WholeGroups(q)'
    BY <1>11, WholeKept
  <2>3. Whole(Eids(g)) /\ OneRun(g) /\ Whole(Stored)
    BY <1>5, <2>1 DEF RunsWhole, WholeGroups
  <2>4. Whole(Stored)'
    <3>1. PICK W : W = Stored'
      OBVIOUS
    <3>2. Whole(W) /\ W \subseteq Committed
      BY <1>6, <2>3, <3>1, WholeUnion
    <3>3. Whole(W)'
      BY <2>2, <3>2
    <3>4. QED
      BY <3>1, <3>3
  <2>5. Whole(push.due)'
    BY <1>4, <1>10, <2>1, <2>2 DEF RunsWhole
  <2>6. WholeGroups(push.open)'
    <3>1. PICK q : q = push'.open
      OBVIOUS
    <3>2. \A h \in q : TrueGroup(h) /\ Whole(Eids(h)) /\ OneRun(h)
      BY <1>4, <1>10, <2>1, <3>1 DEF RunsWhole, WholeGroups
    <3>3. WholeGroups(q)'
      BY <2>2, <3>2
    <3>4. QED
      BY <3>1, <3>3
  <2>7. Whole(DOMAIN push.answer)'
    <3>1. PICK W : W = DOMAIN push'.answer
      OBVIOUS
    <3>2. Whole(W) /\ W \subseteq Committed
      <4>1. Whole(DOMAIN push.answer)
        BY <1>1, <2>1 DEF RunsWhole
      <4>2. QED
        BY <1>4, <1>6, <1>8, <1>10, <2>3, <3>1, <4>1, WholeUnion
    <3>3. Whole(W)'
      BY <2>2, <3>2
    <3>4. QED
      BY <3>1, <3>3
  <2>8. \A q \in late' : WholeGroups(q)'
    BY <1>1, <1>4, <2>1, <2>2 DEF RunsWhole, WholeGroups
  <2>9. RunsWhole'
    BY <2>4, <2>5, <2>6, <2>7, <2>8 DEF RunsWhole
  <2>10. PICK v \in Verdicts : \A e \in Eids(g) : result.answer[e] \in v
    BY <1>2, <1>5, <2>3, ServerSays
  <2>11. Unsynced' = Unsynced /\ outbox' = outbox /\ dead' = dead
    BY <1>1 DEF Unsynced
  <2>12. \A e \in Committed \ Eids(g) : Fate(e)' = Fate(e) /\ Pause(e)' = Pause(e)
    BY <1>8, <1>10, <2>11 DEF Fate, Pause, Answered, Refused, Delay
  <2>13. \A e \in Eids(g) : /\ e \in DOMAIN outbox /\ ~outbox[e].synced /\ e \in Unsynced
                            /\ e \in DOMAIN push'.answer /\ push'.answer[e] \in v
    <3>1. Eids(g) \subseteq Unsynced
      BY <1>3, <1>5 DEF Sending, Eids, Events
    <3>2. QED
      BY <1>8, <1>10, <2>10, <3>1 DEF Unsynced
  <2>14. \A e \in Eids(g) :
           /\ Fate(e)' = IF v = {"confirmed"} THEN "synced"
                         ELSE IF v = {"retry"} /\ ~(outbox[e].attempts >= MaxAttempts) THEN "queued"
                         ELSE "parked"
           /\ Pause(e)' = Delay(outbox[e].attempts)
    <3>1. ASSUME NEW e \in Eids(g) PROVE Pause(e)' = Delay(outbox[e].attempts)
      BY <2>11, <2>13 DEF Pause, Delay
    <3>2. CASE v = {"confirmed"}
      BY <2>11, <2>13, <3>1, <3>2 DEF Fate, Answered, Refused
    <3>3. CASE v = {"retry"}
      BY <2>11, <2>13, <3>1, <3>3 DEF Fate, Answered, Refused
    <3>4. CASE v = {"rejected", "conflict"}
      <4>1. v # {"confirmed"} /\ v # {"retry"}
        BY <3>4
      <4>2. QED
        BY <2>11, <2>13, <3>1, <3>4, <4>1 DEF Fate, Answered, Refused
    <3>5. QED
      BY <3>2, <3>3, <3>4 DEF Verdicts
  <2>15. \A e, f \in Eids(g) : RunOf(e) = RunOf(f) =>
           Fate(e)' = Fate(f)' /\ (Fate(e)' = "queued" => Pause(e)' = Pause(f)')
    BY <2>1, <2>13, <2>14 DEF OneFate
  <2>16. OneFate'
    <3>1. DOMAIN outbox' \cap DOMAIN dead' = {}
      BY <2>1, <2>11 DEF OneFate
    <3>2. QED
      BY <1>4, <1>11, <2>1, <2>3, <2>11, <2>12, <2>15, <3>1, FatesSplit
  <2>17. QED
    BY <2>9, <2>16
<1>15. QED
  BY <1>1, <1>11, <1>12, <1>13, <1>14, PushedRuns DEF Aside

(* The answer is complete, a sync ends, or a parked row breaks it off.     *)
LEMMA OverRuns ==
  ASSUME Inv, Inv', RowInv, RunInv, ReceiveReply \/ EndSync \/ (\E e \in Ids : ParkThrows(e))
  PROVE  RunInv'
<1>1. Aside /\ UNCHANGED <<log, outbox, dead, heads, late, crashes>>
  BY DEF ReceiveReply, EndSync, ParkThrows
<1>2. Sending
  BY DEF Inv
<1>3. RunsKept
  BY <1>1 DEF RunsKept, Committed, RunOf, RowOf
<1>4. /\ Stored \subseteq Committed /\ Unsynced \subseteq Committed /\ push.due \subseteq Committed
      /\ \A h \in push.open : TrueGroup(h)
      /\ \A q \in late : \A h \in q : TrueGroup(h)
  BY TrueGroups
<1>5. Stored' = Stored /\ LogGrows /\ Unsynced' = Unsynced
  BY <1>1 DEF Stored, LogGrows, Unsynced
<1>6. push'.open = {} /\ push'.phase # "waiting"
  BY <1>2 DEF ReceiveReply, EndSync, ParkThrows, Resting, Pulling, PushIn, Sending
<1>7. RunsTold'
  BY <1>1, <1>3, <1>4, <1>5, <1>6, ToldKept
<1>8. push' = Resting \/ push' = Pulling
        \/ (push'.phase = "apply" /\ push'.due = push.due /\ push'.answer = push.answer)
  BY <1>2 DEF ReceiveReply, EndSync, ParkThrows, Sending
<1>9. HandsEmpty'
  BY <1>8 DEF HandsEmpty, Resting, Pulling, PushIn, Empty
<1>10. ASSUME Sole PROVE RunsWhole' /\ OneFate'
  <2>1. RunsWhole /\ OneFate
    BY <1>10 DEF RunInv
  <2>2. /\ push'.due = push.due \/ push'.due = {}
        /\ \A e : e \in DOMAIN push'.answer <=> e \in DOMAIN push.answer
        /\ \A e \in DOMAIN push.answer : push'.answer[e] = push.answer[e]
    <3>1. CASE ReceiveReply
      BY <1>2, <3>1 DEF ReceiveReply, Sending
    <3>2. CASE EndSync
      <4>1. DOMAIN push.answer = {} /\ push' = PushIn("idle")
        BY <3>2 DEF EndSync, RunInv, HandsEmpty, Resting
      <4>2. QED
        BY <4>1 DEF PushIn, Empty
    <3>3. CASE \E e \in Ids : ParkThrows(e)
      <4>1. PICK e \in Ids : Applying(e) /\ e \in DOMAIN dead
        BY <3>3 DEF ParkThrows
      <4>2. e \in DOMAIN outbox
        BY <4>1, ToApplyIn
      <4>3. QED
        BY <2>1, <4>1, <4>2 DEF OneFate
    <3>4. QED
      BY <3>1, <3>2, <3>3
  <2>3. /\ \A W : W \subseteq Committed /\ Whole(W) => Whole(W)'
        /\ \A q : (\A h \in q : TrueGroup(h) /\ Whole(Eids(h)) /\ OneRun(h)) => WholeGroups(q)'
    BY <1>3, WholeKept
  <2>4. Whole(Stored)'
    BY <1>4, <1>5, <2>1, <2>3 DEF RunsWhole
  <2>5. Whole(push.due)'
    <3>1. CASE push'.due = push.due
      BY <1>4, <2>1, <2>3, <3>1 DEF RunsWhole
    <3>2. CASE push'.due = {}
      BY <3>2 DEF Whole
    <3>3. QED
      BY <2>2, <3>1, <3>2
  <2>6. WholeGroups(push.open)'
    BY <1>6 DEF WholeGroups
  <2>7. \A q \in late' : WholeGroups(q)'
    BY <1>1, <1>4, <2>1, <2>3 DEF RunsWhole, WholeGroups
  <2>8. RunsWhole'
    BY <1>6, <2>4, <2>5, <2>6, <2>7 DEF RunsWhole
  <2>9. outbox' = outbox /\ dead' = dead
    BY <1>1
  <2>10. \A e \in Committed : Fate(e)' = Fate(e) /\ Pause(e)' = Pause(e)
    BY <2>2, <2>9 DEF Fate, Pause, Answered, Refused, Delay
  <2>11. OneFate'
    <3>1. PICK S : S = {}
      OBVIOUS
    <3>2. Whole(S)
      BY <3>1 DEF Whole
    <3>3. DOMAIN outbox' \cap DOMAIN dead' = {}
      BY <2>1, <2>9 DEF OneFate
    <3>4. QED
      BY <1>3, <1>4, <1>5, <2>1, <2>9, <2>10, <3>1, <3>2, <3>3, FatesSplit
  <2>12. QED
    BY <2>8, <2>11
<1>11. QED
  BY <1>1, <1>3, <1>7, <1>9, <1>10, PushedRuns DEF Aside

(* The transport throws: the whole batch, answered or not, is put off.     *)
LEMMA TransportErrorRuns ==
  ASSUME Inv, Inv', RowInv, RunInv, TransportError
  PROVE  RunInv'
<1> DEFINE S == DOMAIN push.answer \cup Eids(Events(push.open))
<1>1. /\ Aside /\ UNCHANGED <<log, outbox, dead, heads, crashes>>
      /\ push.phase = "waiting" /\ late' \in Abandoned
      /\ push' = [phase |-> "apply", due |-> {}, open |-> {}, answer |-> [e \in S |-> "unsent"]]
  BY DEF TransportError
<1>2. /\ Sending /\ S \subseteq Unsynced
  BY DEF Inv, Sending
<1>3. RunsKept
  BY <1>1 DEF RunsKept, Committed, RunOf, RowOf
<1>4. /\ Stored \subseteq Committed /\ Unsynced \subseteq Committed
      /\ DOMAIN push.answer \subseteq Committed
      /\ \A h \in push.open : TrueGroup(h)
      /\ \A q \in late : \A h \in q : TrueGroup(h)
  BY TrueGroups
<1>5. Stored' = Stored /\ LogGrows /\ Unsynced' = Unsynced
  BY <1>1 DEF Stored, LogGrows, Unsynced
<1>6. \A q \in late' : q \in late \/ q = push.open
  BY <1>1 DEF Abandoned
<1> HIDE DEF S
<1>7. /\ push'.phase = "apply" /\ push'.due = {} /\ push'.open = {} /\ DOMAIN push'.answer = S
      /\ \A e \in S : push'.answer[e] = "unsent"
  BY <1>1
<1>8. RunsTold'
  BY <1>1, <1>3, <1>4, <1>5, <1>6, <1>7, ToldKept
<1>9. HandsEmpty'
  BY <1>7 DEF HandsEmpty
<1>10. ASSUME Sole PROVE RunsWhole' /\ OneFate'
  <2>1. RunsWhole /\ OneFate
    BY <1>10 DEF RunInv
  <2>2. /\ \A W : W \subseteq Committed /\ Whole(W) => Whole(W)'
        /\ \A q : (\A h \in q : TrueGroup(h) /\ Whole(Eids(h)) /\ OneRun(h)) => WholeGroups(q)'
    BY <1>3, WholeKept
  <2>3. Whole(Stored)'
    BY <1>4, <1>5, <2>1, <2>2 DEF RunsWhole
  <2>4. Whole(push.due)' /\ WholeGroups(push.open)'
    BY <1>7 DEF Whole, WholeGroups
  <2>5. \A q \in late' : WholeGroups(q)'
    BY <1>4, <1>6, <2>1, <2>2 DEF RunsWhole, WholeGroups
  <2>6. RunsWhole'
    BY <1>7, <2>3, <2>4, <2>5 DEF RunsWhole
  <2>7. Whole(S)
    <3>1. Whole(DOMAIN push.answer) /\ Whole(Eids(Events(push.open)))
      BY <1>1, <2>1, WholeEvents DEF RunsWhole
    <3>2. QED
      BY <3>1, WholeUnion DEF S
  <2>8. outbox' = outbox /\ dead' = dead
    BY <1>1
  <2>9. \A e \in Committed \ S : Fate(e)' = Fate(e) /\ Pause(e)' = Pause(e)
    BY <1>7, <2>8 DEF S, Fate, Pause, Answered, Refused, Delay
  <2>10. \A e \in S : /\ Fate(e)' = IF outbox[e].attempts >= MaxAttempts THEN "parked" ELSE "queued"
                      /\ Pause(e)' = Delay(outbox[e].attempts)
    <3>1. \A e \in S : e \in DOMAIN outbox /\ ~outbox[e].synced
      BY <1>2 DEF Unsynced
    <3>2. QED
      BY <1>7, <2>8, <3>1 DEF Fate, Pause, Answered, Refused, Delay
  <2>11. \A e, f \in S : RunOf(e) = RunOf(f) =>
           Fate(e)' = Fate(f)' /\ (Fate(e)' = "queued" => Pause(e)' = Pause(f)')
    BY <1>2, <2>1, <2>10 DEF OneFate
  <2>12. DOMAIN outbox' \cap DOMAIN dead' = {}
    BY <2>1, <2>8 DEF OneFate
  <2>13. OneFate'
    BY <1>3, <1>4, <1>5, <2>1, <2>7, <2>8, <2>9, <2>11, <2>12, FatesSplit
  <2>14. QED
    BY <2>6, <2>13
<1>11. QED
  BY <1>1, <1>3, <1>8, <1>9, <1>10, PushedRuns DEF Aside

(* The answer for one event is applied: what was to become of it, is.      *)
LEMMA AppliedRuns ==
  ASSUME Inv, Inv', RowInv, RunInv, NEW e, Applying(e), Applied(e),
         UNCHANGED <<log, late, crashes>>, Aside, RunsKept,
         Sole => /\ DOMAIN outbox' \cap DOMAIN dead' = {}
                 /\ \A f \in Unsynced' : f \in Unsynced /\ outbox'[f].attempts = outbox[f].attempts
                 /\ \A f \in DOMAIN outbox \ {e} : f \in DOMAIN outbox' /\ outbox'[f] = outbox[f]
                 /\ DOMAIN outbox' \subseteq DOMAIN outbox
                 /\ Fate(e)' = Fate(e) /\ (Fate(e) = "queued" => Pause(e)' = Pause(e))
  PROVE  RunInv'
<1>1. Sending /\ push.phase = "apply" /\ push.open = {}
  BY DEF Inv, Sending, Applying
<1>2. push' = [phase |-> "apply", due |-> push.due, open |-> {}, answer |-> Without(push.answer, {e})]
  BY <1>1 DEF Applied, Sending
<1>3. /\ push'.phase = "apply" /\ push'.due = push.due /\ push'.open = {}
      /\ DOMAIN push'.answer = DOMAIN push.answer \ {e}
      /\ \A f \in DOMAIN push'.answer : push'.answer[f] = push.answer[f]
  BY <1>2 DEF Without
<1>4. /\ Stored \subseteq Committed /\ Unsynced \subseteq Committed /\ push.due \subseteq Committed
      /\ \A q \in late : \A h \in q : TrueGroup(h)
  BY TrueGroups
<1>5. Stored' = Stored /\ LogGrows
  BY DEF Stored, LogGrows
<1>6. RunsTold'
  BY <1>3, <1>4, <1>5, ToldKept
<1>7. HandsEmpty'
  BY <1>3 DEF HandsEmpty
<1>8. ASSUME Sole PROVE RunsWhole' /\ OneFate'
  <2>1. RunsWhole /\ OneFate
    BY <1>8 DEF RunInv
  <2>2. /\ \A W : W \subseteq Committed /\ Whole(W) => Whole(W)'
        /\ \A q : (\A h \in q : TrueGroup(h) /\ Whole(Eids(h)) /\ OneRun(h)) => WholeGroups(q)'
    BY WholeKept
  <2>3. Whole(Stored)' /\ Whole(push.due)'
    BY <1>3, <1>4, <1>5, <2>1, <2>2 DEF RunsWhole
  <2>4. WholeGroups(push.open)'
    BY <1>3 DEF WholeGroups
  <2>5. \A q \in late' : WholeGroups(q)'
    BY <1>4, <2>1, <2>2 DEF RunsWhole, WholeGroups
  <2>6. RunsWhole'
    BY <1>3, <2>3, <2>4, <2>5 DEF RunsWhole
  <2>7. ASSUME NEW f \in Committed, f # e
        PROVE  Fate(f)' = Fate(f) /\ (Fate(f) = "queued" => Pause(f)' = Pause(f))
    <3>1. f \in DOMAIN outbox' <=> f \in DOMAIN outbox
      BY <1>8, <2>7
    <3>2. f \in DOMAIN outbox => outbox'[f] = outbox[f]
      BY <1>8, <2>7
    <3>3. /\ f \in DOMAIN push'.answer <=> f \in DOMAIN push.answer
          /\ f \in DOMAIN push.answer => push'.answer[f] = push.answer[f]
      BY <1>3, <2>7
    <3>4. CASE f \in DOMAIN outbox
      BY <3>1, <3>2, <3>3, <3>4 DEF Fate, Pause, Answered, Refused, Delay
    <3>5. CASE f \notin DOMAIN outbox
      BY <3>1, <3>5 DEF Fate
    <3>6. QED
      BY <3>4, <3>5
  <2>8. OneFate'
    <3>1. PICK S : S = {}
      OBVIOUS
    <3>2. Whole(S)
      BY <3>1 DEF Whole
    <3>3. QED
      BY <1>4, <1>8, <2>1, <2>7, <3>1, <3>2, FatesSplit
  <2>9. QED
    BY <2>6, <2>8
<1>9. QED
  BY <1>6, <1>7, <1>8, PushedRuns DEF Aside

(* Marking an event synced, or putting it off, keeps its run in one fate.  *)
LEMMA ConfirmRuns ==
  ASSUME Inv, Inv', RowInv, RunInv, NEW e \in Ids, Confirm(e) \/ BackOff(e)
  PROVE  RunInv'
<1>1. /\ Applying(e) /\ Applied(e) /\ UNCHANGED <<log, dead, late, crashes>> /\ Aside
      /\ push.phase = "apply"
  BY DEF Confirm, BackOff, Applying
<1>2. e \in DOMAIN push.answer /\ e \in Unsynced /\ e \in DOMAIN outbox
  BY <1>1, ToApplyIn
<1>3. Partial(outbox, Ids, Row) /\ Sending
  BY DEF Inv, Tables
<1>4. outbox[e] \in Row
  BY <1>2, <1>3 DEF Partial
<1>5. /\ DOMAIN outbox' = DOMAIN outbox
      /\ \A f \in DOMAIN outbox \ {e} : outbox'[f] = outbox[f]
      /\ outbox'[e].key = outbox[e].key /\ outbox'[e].tx = outbox[e].tx
      /\ outbox'[e].attempts = outbox[e].attempts
      /\ Confirm(e) => outbox'[e].synced
      /\ BackOff(e) => ~outbox'[e].synced /\ outbox'[e].wait = Delay(outbox[e].attempts)
  <2>1. ~outbox[e].synced
    BY <1>2 DEF Unsynced
  <2>2. CASE Confirm(e)
    <3>1. ~BackOff(e)
      BY <2>2 DEF Confirm, BackOff
    <3>2. QED
      BY <1>2, <1>4, <2>2, <3>1 DEF Confirm, Row
  <2>3. CASE BackOff(e)
    <3>1. ~Confirm(e)
      BY <2>3 DEF Confirm, BackOff
    <3>2. QED
      BY <1>2, <1>4, <2>1, <2>3, <3>1 DEF BackOff, Row
  <2>4. QED
    BY <2>2, <2>3
<1>6. RunsKept
  <2>1. SameContents
    BY <1>5 DEF SameContents
  <2>2. Stored' \subseteq Committed
    BY <1>1 DEF Stored, RowInv, TablesAgree
  <2>3. QED
    BY <1>1, <2>1, <2>2, SameContentsRows DEF RunsKept
<1>7. /\ DOMAIN push'.answer = DOMAIN push.answer \ {e}
  BY <1>1, <1>3 DEF Applied, Sending, Without
<1>8. Fate(e)' = Fate(e) /\ (Fate(e) = "queued" => Pause(e)' = Pause(e))
  <2>1. CASE Confirm(e)
    <3>1. push.answer[e] = "confirmed"
      BY <2>1 DEF Confirm
    <3>2. Fate(e) = "synced"
      BY <1>2, <3>1 DEF Fate, Refused, Answered
    <3>3. Fate(e)' = "synced"
      BY <1>2, <1>5, <1>7, <2>1 DEF Fate
    <3>4. QED
      BY <3>2, <3>3
  <2>2. CASE BackOff(e)
    <3>1. push.answer[e] \in {"retry", "unsent"} /\ ~Refused(e) /\ ~outbox[e].synced
      BY <1>2, <2>2 DEF BackOff, Unsynced
    <3>2. Fate(e) = "queued" /\ Pause(e) = Delay(outbox[e].attempts)
      BY <1>2, <3>1 DEF Fate, Answered, Pause
    <3>3. Fate(e)' = "queued" /\ Pause(e)' = outbox'[e].wait
      BY <1>2, <1>5, <1>7, <2>2 DEF Fate, Answered, Pause
    <3>4. QED
      BY <1>5, <2>2, <3>2, <3>3
  <2>3. QED
    BY <2>1, <2>2
<1>9. Sole => DOMAIN outbox' \cap DOMAIN dead' = {}
  BY <1>1, <1>5 DEF RunInv, OneFate
<1>10. \A f \in Unsynced' : f \in Unsynced /\ outbox'[f].attempts = outbox[f].attempts
  BY <1>2, <1>5 DEF Unsynced
<1>11. QED
  BY <1>1, <1>5, <1>6, <1>8, <1>9, <1>10, AppliedRuns

(* Parking an event keeps its run in one fate.                             *)
LEMMA ParkRuns ==
  ASSUME Inv, Inv', RowInv, RunInv, NEW e \in Ids, Park(e)
  PROVE  RunInv'
<1>1. /\ Applying(e) /\ Applied(e) /\ UNCHANGED <<log, late, crashes>> /\ Aside /\ Refused(e)
      /\ dead' = Recorded(e) /\ outbox' = Without(outbox, {e})
  BY DEF Park
<1>2. e \in DOMAIN push.answer /\ e \in DOMAIN outbox
  BY <1>1, ToApplyIn
<1>3. RunsKept
  BY <1>1, <1>2, ParkedContents DEF RunsKept
<1>4. /\ DOMAIN outbox' = DOMAIN outbox \ {e} /\ DOMAIN dead' = DOMAIN dead \cup {e}
      /\ \A f \in DOMAIN outbox' : outbox'[f] = outbox[f]
  BY <1>1, <1>2 DEF Without, Recorded, Join, Only
<1>5. Fate(e) = "parked" /\ Fate(e)' = "parked"
  BY <1>1, <1>2, <1>4 DEF Fate
<1>6. Sole => DOMAIN outbox' \cap DOMAIN dead' = {}
  BY <1>4 DEF RunInv, OneFate
<1>7. \A f \in Unsynced' : f \in Unsynced /\ outbox'[f].attempts = outbox[f].attempts
  BY <1>4 DEF Unsynced
<1>8. QED
  BY <1>1, <1>3, <1>4, <1>5, <1>6, <1>7, AppliedRuns

(* Time passes for all events of a run alike.                              *)
LEMMA BackoffTickRuns ==
  ASSUME Inv, Inv', RowInv, RunInv, BackoffTick
  PROVE  RunInv'
<1>1. /\ push.phase = "idle" /\ UNCHANGED <<log, dead, heads, push, late, crashes>> /\ Aside
      /\ outbox' = [e \in DOMAIN outbox |-> [outbox[e] EXCEPT !.wait = IF @ > 0 THEN @ - 1 ELSE 0]]
  BY DEF BackoffTick
<1>2. Partial(outbox, Ids, Row)
  BY DEF Inv, Tables
<1>3. /\ DOMAIN outbox' = DOMAIN outbox
      /\ \A e \in DOMAIN outbox :
           /\ outbox'[e].key = outbox[e].key /\ outbox'[e].tx = outbox[e].tx
           /\ outbox'[e].synced = outbox[e].synced /\ outbox'[e].attempts = outbox[e].attempts
           /\ outbox'[e].wait = IF outbox[e].wait > 0 THEN outbox[e].wait - 1 ELSE 0
  <2>1. \A e \in DOMAIN outbox : outbox[e] \in Row
    BY <1>2 DEF Partial
  <2>2. QED
    BY <1>1, <2>1 DEF Row
<1>4. Stored' = Stored /\ LogGrows /\ Unsynced' = Unsynced
  BY <1>1, <1>3 DEF Stored, LogGrows, Unsynced
<1>5. /\ Stored \subseteq Committed /\ Unsynced \subseteq Committed /\ push.due \subseteq Committed
      /\ \A h \in push.open : TrueGroup(h)
      /\ \A q \in late : \A h \in q : TrueGroup(h)
  BY TrueGroups
<1>6. RunsKept
  BY <1>1, <1>3, <1>4, <1>5, SameContentsRows DEF SameContents, RunsKept
<1>7. RunsTold'
  BY <1>1, <1>4, <1>5, <1>6, ToldKept
<1>8. HandsEmpty' /\ DOMAIN push.answer = {} /\ DOMAIN push'.answer = {}
  BY <1>1 DEF RunInv, HandsEmpty
<1>9. ASSUME Sole PROVE RunsWhole' /\ OneFate'
  <2>1. RunsWhole /\ OneFate
    BY <1>9 DEF RunInv
  <2>2. /\ \A W : W \subseteq Committed /\ Whole(W) => Whole(W)'
        /\ \A q : (\A h \in q : TrueGroup(h) /\ Whole(Eids(h)) /\ OneRun(h)) => WholeGroups(q)'
    BY <1>6, WholeKept
  <2>3. Whole(Stored)' /\ Whole(push.due)' /\ WholeGroups(push.open)'
    BY <1>1, <1>4, <1>5, <2>1, <2>2 DEF RunsWhole, WholeGroups
  <2>4. \A q \in late' : WholeGroups(q)'
    BY <1>1, <1>5, <2>1, <2>2 DEF RunsWhole, WholeGroups
  <2>5. RunsWhole'
    BY <1>1, <2>3, <2>4 DEF RunsWhole
  <2>6. \A e : /\ Fate(e) = IF e \notin DOMAIN outbox THEN "parked"
                            ELSE IF outbox[e].synced THEN "synced" ELSE "queued"
               /\ Pause(e) = outbox[e].wait
    BY <1>8, NothingAnswered
  <2>7. \A e : /\ Fate(e)' = IF e \notin DOMAIN outbox' THEN "parked"
                             ELSE IF outbox'[e].synced THEN "synced" ELSE "queued"
               /\ Pause(e)' = outbox'[e].wait
    BY <1>8 DEF Fate, Pause, Answered
  <2>8. PICK S : S = Committed
    OBVIOUS
  <2>9. Whole(S)
    BY <2>8 DEF Whole
  <2>10. \A e : /\ Fate(e)' = Fate(e)
                /\ e \in DOMAIN outbox =>
                     Pause(e)' = IF Pause(e) > 0 THEN Pause(e) - 1 ELSE 0
    BY <1>3, <2>6, <2>7
  <2>11. \A e : Fate(e) = "queued" => e \in DOMAIN outbox
    BY <2>6
  <2>12. \A e, f \in S : RunOf(e) = RunOf(f) =>
           Fate(e)' = Fate(f)' /\ (Fate(e)' = "queued" => Pause(e)' = Pause(f)')
    BY <2>1, <2>8, <2>10, <2>11 DEF OneFate
  <2>13. DOMAIN outbox' \cap DOMAIN dead' = {}
    BY <1>1, <1>3, <2>1 DEF OneFate
  <2>14. \A e \in Unsynced' : e \in Unsynced /\ outbox'[e].attempts = outbox[e].attempts
    BY <1>3, <1>4 DEF Unsynced
  <2>15. OneFate'
    BY <1>5, <1>6, <2>1, <2>8, <2>9, <2>12, <2>13, <2>14, FatesSplit
  <2>16. QED
    BY <2>5, <2>15
<1>10. QED
  BY <1>1, <1>6, <1>7, <1>8, <1>9, PushedRuns DEF Aside

(* Other devices, their replay, and steps that change nothing.             *)
LEMMA OthersRuns ==
  ASSUME Inv, Inv', RowInv, RunInv, Others \/ UNCHANGED vars
  PROVE  RunInv'
<1>1. /\ UNCHANGED <<config, calls, crashes, outbox, dead, push, late>>
      /\ Stored' = Stored /\ \A e \in Stored : log'[e].tx = log[e].tx
  <2>1. ASSUME NEW f \in ForeignIds, NEW k \in Keys, Foreign(f, k)
        PROVE  /\ UNCHANGED <<config, calls, crashes, outbox, dead, push, late>>
               /\ Stored' = Stored /\ \A e \in Stored : log'[e].tx = log[e].tx
    <3>1. UNCHANGED <<outbox, dead, heads, push, late, crashes>> /\ Aside
      BY <2>1 DEF Foreign
    <3>2. PICK type \in MutationTypes :
            log' = Appended({[eid |-> f, tx |-> f, key |-> k, type |-> type, val |-> f,
                              base |-> NoEvent, seq |-> f]})
      BY <2>1 DEF Foreign
    <3>3. DOMAIN log' = DOMAIN log \cup {f} /\ LogGrows
      BY <3>2 DEF Appended, Eids, LogGrows
    <3>4. f \notin Ids
      BY ForeignApart
    <3>5. Stored' = Stored
      BY <3>3, <3>4 DEF Stored
    <3>6. QED
      BY <3>1, <3>3, <3>5 DEF Aside, LogGrows, Stored
  <2>2. CASE \/ \E f \in ForeignIds : ReplayRow(f)
             \/ ReplayVersion
             \/ UNCHANGED vars
    <3>1. UNCHANGED <<log, config, calls, crashes, outbox, dead, push, late>>
      BY <2>2 DEF ReplayRow, ReplayVersion, vars
    <3>2. QED
      BY <3>1 DEF Stored
  <2>3. QED
    BY <2>1, <2>2 DEF Others
<1>2. /\ RunsTold' /\ HandsEmpty' /\ Committed' = Committed
      /\ \A e : RunOf(e)' = RunOf(e)
      /\ RunsWhole => RunsWhole'
      /\ OneFate => OneFate'
  BY <1>1, AsideSends DEF RunInv
<1>3. RunsKept
  BY <1>2 DEF RunsKept
<1>4. Sole => RunsWhole' /\ OneFate'
  BY <1>2 DEF RunInv
<1>5. QED
  BY <1>1, <1>2, <1>3, <1>4, PushedRuns

(* A crash: what waited is gone, and what is said of runs without one      *)
(* is said no more.                                                        *)
LEMMA RestartRuns ==
  ASSUME Inv, Inv', RowInv, RunInv, Restart, RunsKept
  PROVE  RunInv'
<1>1. /\ pending' = Empty /\ stack' = <<>> /\ txs' = txs /\ log' = log
      /\ push' = PushIn("idle") /\ crashes' = crashes + 1
      /\ late' \in (IF push.phase = "waiting" THEN Abandoned ELSE {late})
  BY DEF Restart, Resting
<1>2. DOMAIN pending' = {} /\ Len(stack') = 0
  BY <1>1 DEF Empty
<1>3. Fewer
  BY <1>2 DEF Fewer
<1>4. RunsGoOn
  BY <1>1, <1>2, IdFacts DEF RunsGoOn, StackIds, OpenRuns
<1>5. Stored' = Stored /\ LogGrows
  BY <1>1 DEF Stored, LogGrows
<1>6. /\ Stored \subseteq Committed
      /\ \A h \in push.open : TrueGroup(h)
      /\ \A q \in late : \A h \in q : TrueGroup(h)
  BY TrueGroups
<1>7. /\ \A q \in late' : q \in late \/ q = push.open
      /\ push'.open = {} /\ push'.due = {} /\ DOMAIN push'.answer = {}
  BY <1>1 DEF Abandoned, PushIn, Empty
<1>8. RunsTold'
  BY <1>5, <1>6, <1>7, ToldKept
<1>9. HandsEmpty'
  BY <1>7 DEF HandsEmpty
<1>10. ~Sole'
  BY <1>1 DEF RowInv, Sole
<1>11. QED
  BY <1>3, <1>4, <1>8, <1>9, <1>10, KeptRuns DEF RunInv

(* After a crash nothing more is claimed of the fate of a group.           *)
LEMMA CrashRuns ==
  ASSUME Inv, Inv', RowInv, RunInv, Crash \/ CrashInPark \/ CrashInMark
  PROVE  RunInv'
<1>1. Restart /\ log' = log
  BY DEF Crash, CrashInPark, CrashInMark, Restart
<1>2. Stored' \subseteq Committed
  BY <1>1 DEF Stored, RowInv, TablesAgree
<1>3. Partial(outbox, Ids, Row)
  BY DEF Inv, Tables
<1>4. CASE Crash
  <2>1. SameContents /\ dead' = dead
    BY <1>4 DEF Crash, SameContents
  <2>2. RunsKept
    BY <1>2, <2>1, SameContentsRows DEF RunsKept
  <2>3. QED
    BY <1>1, <2>2, RestartRuns
<1>5. CASE CrashInPark
  <2>1. PICK e \in Ids : /\ Applying(e) /\ dead' = Recorded(e)
                         /\ outbox' \in {outbox, Without(outbox, {e})}
    BY <1>5 DEF CrashInPark
  <2>2. e \in DOMAIN outbox
    BY <2>1, ToApplyIn
  <2>3. RunsKept
    BY <1>1, <2>1, <2>2, ParkedContents DEF RunsKept
  <2>4. QED
    BY <1>1, <2>3, RestartRuns
<1>6. CASE CrashInMark
  <2>1. dead' = dead
    BY <1>6 DEF CrashInMark
  <2>2. SameContents
    <3> DEFINE sent == Eids(Events(NextBatch(ToMark)))
    <3>1. PICK e \in sent :
            outbox' = [f \in DOMAIN outbox |->
                         IF f \in sent /\ f <= e THEN Charged(outbox[f]) ELSE outbox[f]]
      BY <1>6 DEF CrashInMark
    <3> HIDE DEF sent
    <3>2. QED
      BY <1>3, <3>1, ChargedContents DEF SameContents
  <2>3. RunsKept
    BY <1>2, <2>1, <2>2, SameContentsRows DEF RunsKept
  <2>4. QED
    BY <1>1, <2>3, RestartRuns
<1>7. QED
  BY <1>4, <1>5, <1>6

(* There are no runs yet.                                                  *)
LEMMA InitRuns == Init => RunInv
<1> SUFFICES ASSUME Init PROVE RunInv
  OBVIOUS
<1>1. /\ outbox = Empty /\ dead = Empty /\ pending = Empty /\ stack = <<>>
      /\ push = PushIn("idle") /\ late = {}
      /\ DOMAIN Empty = {} /\ DOMAIN log = {} /\ Len(stack) = 0
  BY DEF Init, LogInit, Empty, Resting
<1>2. Committed = {} /\ Stored = {} /\ Unsynced = {} /\ Made = {} /\ StackIds = {}
  BY <1>1 DEF Committed, Stored, Unsynced, Made, StackIds
<1>3. push.phase = "idle" /\ push.due = {} /\ push.open = {} /\ DOMAIN push.answer = {}
  BY <1>1 DEF PushIn
<1>4. RunsCommitOnce /\ NeverSent /\ RunsTold /\ HandsEmpty
  BY <1>1, <1>2, <1>3 DEF RunsCommitOnce, NeverSent, RunsTold, HandsEmpty, BodiesTrue
<1>5. RunsInOrder /\ RunsWhole /\ OneFate
  BY <1>1, <1>2, <1>3 DEF RunsInOrder, RunsWhole, OneFate, Whole, WholeGroups
<1>6. QED
  BY <1>4, <1>5 DEF RunInv

(* Every step keeps the runs together.                                     *)
LEMMA NextRuns == Inv /\ Inv' /\ RowInv /\ RunInv /\ [Next]_vars => RunInv'
<1> SUFFICES ASSUME Inv, Inv', RowInv, RunInv, [Next]_vars PROVE RunInv'
  OBVIOUS
<1>1. CASE Mutate
  BY <1>1, CallRuns DEF Mutate
<1>2. CASE Settling
  BY <1>2, CommitCallRuns, StampRuns, AddEntryRuns, AddTooLateRuns DEF Settling
<1>3. CASE BeginTx
  BY <1>3, BeginTxRuns
<1>4. CASE Finish
  BY <1>4, CommitTxRuns, FailTxRuns DEF Finish
<1>5. CASE Apply
  BY <1>5, ConfirmRuns, ParkRuns, OverRuns DEF Apply
<1>6. CASE StartPush \/ ContinuePush \/ ServePush \/ ReceiveReply \/ EndSync
  BY <1>6, NextBatchRuns, ServePushRuns, OverRuns
<1>7. CASE TransportError \/ ServeLate \/ BackoffTick
  BY <1>7, TransportErrorRuns, ServeLateRuns, BackoffTickRuns
<1>8. CASE Others \/ UNCHANGED vars
  BY <1>8, OthersRuns
<1>9. CASE Crash \/ CrashInPark \/ CrashInMark
  BY <1>9, CrashRuns
<1>10. QED
  BY <1>1, <1>2, <1>3, <1>4, <1>5, <1>6, <1>7, <1>8, <1>9 DEF Next, Pushing

(* Hence they are together in every reachable state.                       *)
LEMMA RunsAlways == Spec => [](Inv /\ RowInv /\ RunInv)
<1>1. Init => Inv /\ RowInv /\ RunInv
  BY InitOK, InitRows, InitRuns
<1>2. Inv /\ RowInv /\ RunInv /\ [Next]_vars => Inv' /\ RowInv' /\ RunInv'
  BY NextOK, NextRows, NextRuns
<1>3. QED
  BY <1>1, <1>2, PTL DEF Spec

(* What one transact run wrote, or one call outside any, is on the server  *)
(* as a whole or not at all: no retry, refusal, late request or parked     *)
(* event splits it, for every batch size and every number of attempts, as  *)
(* long as runs do not nest and nothing crashes.                           *)
THEOREM TransactionsStayWhole == Spec => []TransactionsAtomic
<1>1. Inv /\ RowInv /\ RunInv => TransactionsAtomic
  <2> SUFFICES ASSUME Inv, RowInv, RunInv, config.depth <= 1, crashes = 0, NEW f \in Stored
               PROVE  /\ \A e \in DOMAIN outbox \ Stored : outbox[e].tx # log[f].tx
                      /\ \A e \in DOMAIN dead \ Stored : dead[e].tx # log[f].tx
    BY DEF TransactionsAtomic
  <2>1. Whole(Stored) /\ DOMAIN outbox \cap DOMAIN dead = {}
    BY DEF RunInv, Sole, RunsWhole, OneFate
  <2>2. log[f].tx = RunOf(f)
    BY DEF RunInv, RunsTold
  <2>3. /\ \A e \in DOMAIN outbox : RunOf(e) = outbox[e].tx
        /\ \A e \in DOMAIN dead : RunOf(e) = dead[e].tx
    BY <2>1 DEF RunOf, RowOf
  <2>4. QED
    BY <2>1, <2>2, <2>3 DEF Whole, Committed
<1>2. QED
  BY <1>1, RunsAlways, PTL
=============================================================================
