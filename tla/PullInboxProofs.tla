-------------------------- MODULE PullInboxProofs --------------------------
(***************************************************************************)
(* Proofs about the collection client's pull: for any numbers of rows,     *)
(* events, failures, crashes and replaced stores, any page size and any    *)
(* configurations, what is confirmed is held by the server, the cursor     *)
(* steps over no foreign event, and a device that caught up with one store *)
(* shows what the store holds.                                             *)
(***************************************************************************)
EXTENDS PullInbox, Extrema, SequenceTheorems

-----------------------------------------------------------------------------
(* What makes the properties inductive.                                    *)

SyncType == [phase : Phases, manual : BOOLEAN, booting : BOOLEAN, since : Nat,
             unchecked : BOOLEAN, requeued : BOOLEAN, work : Seq(Items),
             applied : Ids \cup {NoEvent}, top : 0..MaxEvents, more : BOOLEAN]

(* The server numbers its events from one, without gap or repetition.      *)
Numbered(l) ==
  /\ DOMAIN l \subseteq Ids
  /\ \A e \in DOMAIN l : l[e].key \in Keys /\ l[e].pos \in 1..Cardinality(DOMAIN l)
  /\ \A e, f \in DOMAIN l : l[e].pos = l[f].pos => e = f

LogNumbered == Numbered(log)

(* A device that never pulled cannot have been given another store.        *)
Confirmed == DOMAIN outbox \ Unsent
ConfirmedIsHeld == backendSeen \in {0, backend} => Confirmed \subseteq DOMAIN log

Unseen ==
  /\ backend # 0
  /\ backendSeen = 0 =>
       /\ cursor = 0 /\ DOMAIN inbox = {}
       /\ sync.since = 0 /\ sync.unchecked
       /\ sync.work = <<>> /\ sync.phase # "page"

(* An event that was written to its row is still the one at hand.          *)
AppliedIsAtHand ==
  /\ sync.applied # NoEvent => sync.work # <<>>
  /\ sync.work # <<>> => sync.phase \in {"page", "pending"}

(* A resolved inbox row is of an event of this device or of one settled.   *)
ResolvedIsSettled == Resolved \subseteq settled \cup mine

(* Everything up to p is accounted for, and p is not ahead of the log.     *)
Done == settled \cup DOMAIN inbox \cup mine
Reached(p) == /\ p <= Cardinality(DOMAIN log)
              /\ \A e \in DOMAIN log : log[e].pos <= p => e \in Done

Listed(q) == {q[i].eid : i \in DOMAIN q}

(* A page in hand, in order, leaves out nothing up to its end.             *)
PageCovers ==
  /\ sync.top <= Cardinality(DOMAIN log)
  /\ \A i \in DOMAIN sync.work :
       /\ sync.work[i].eid \in DOMAIN log
       /\ log[sync.work[i].eid].pos = sync.work[i].pos
       /\ sync.work[i].pos <= sync.top
  /\ \A i, j \in DOMAIN sync.work : i < j => sync.work[i].pos < sync.work[j].pos
  /\ \A e \in DOMAIN log : log[e].pos <= sync.top => e \in Done \cup Listed(sync.work)

NoGap ==
  ~TornReset /\ SameStore =>
    /\ Reached(cursor)
    /\ \A e \in DOMAIN inbox : Reached(inbox[e].pos)
    /\ sync.phase = "ask" => Reached(sync.since)
    /\ sync.phase = "pending" => \A i \in DOMAIN sync.work : Reached(sync.work[i].pos)
    /\ sync.phase = "page" => PageCovers

Inv == /\ TypeOK /\ LogNumbered /\ ConfirmedIsHeld /\ Unseen /\ AppliedIsAtHand
       /\ ResolvedIsSettled /\ NoGap

-----------------------------------------------------------------------------
(* Facts about the operators.                                              *)

LEMMA GreatestOf ==
  ASSUME NEW n \in Nat, NEW T, T \subseteq 0..n, T # {}
  PROVE  Greatest(T) \in T /\ \A m \in T : m <= Greatest(T)
<1> DEFINE U == {m + 1 : m \in T}
<1>1. U \subseteq 1..(n + 1) /\ U # {}
  <2>1. \A m \in T : m + 1 \in 1..(n + 1)
    OBVIOUS
  <2>2. QED
    BY <2>1
<1> HIDE DEF U
<1>2. PICK u \in U : \A v \in U : v <= u
  <2>1. n + 1 \in Nat
    OBVIOUS
  <2>2. QED
    BY <1>1, <2>1, MaxExists
<1>3. \A m \in T : m + 1 \in U
  BY DEF U
<1>4. PICK x \in T : u = x + 1
  BY DEF U
<1>5. \A m \in T : m <= x
  <2>1. \A m \in T : m + 1 <= x + 1
    BY <1>2, <1>3, <1>4
  <2>2. x \in Int /\ \A m \in T : m \in Int
    OBVIOUS
  <2>3. QED
    BY <2>1, <2>2
<1>6. QED
  BY <1>5 DEF Greatest

LEMMA IdleType ==
  /\ Idle \in SyncType /\ Idle.phase = "idle" /\ Idle.work = <<>> /\ Idle.applied = NoEvent
  /\ Idle.since = 0 /\ Idle.unchecked
<1>1. <<>> \in Seq(Items) /\ 0 \in 0..MaxEvents
  BY PullAssumption
<1>2. QED
  BY <1>1 DEF Idle, SyncType, NoEvent, Phases

(* The records a sync rests in: nothing asked for, nothing in hand.        *)
Rests(s) == /\ s \in SyncType /\ s.phase \in {"idle", "push", "load"}
            /\ s.work = <<>> /\ s.applied = NoEvent /\ s.since = 0 /\ s.unchecked

LEMMA AfterPushRests ==
  ASSUME Inv
  PROVE  Rests(AfterPush) /\ Rests(Idle)
BY IdleType DEF AfterPush, Rests, SyncType, Phases

LEMMA RestartRests ==
  ASSUME Restart
  PROVE  Rests(sync') /\ UNCHANGED <<log, config, backend, mine, nextId>>
BY IdleType DEF Restart, Rests, SyncType, Phases

LEMMA InitInv == Init => Inv
<1> SUFFICES ASSUME Init PROVE Inv
  OBVIOUS
<1>1. Rests(sync) /\ sync.phase = "idle"
  BY IdleType DEF Init, Rests
<1>2. /\ DOMAIN log = {} /\ DOMAIN inbox = {} /\ DOMAIN outbox = {} /\ mine = {}
      /\ settled = {} /\ dead = {} /\ cursor = 0 /\ backend = 1 /\ backendSeen = 0 /\ nextId = 1
      /\ config \in Configs /\ rows = [k \in Keys |-> NoEvent]
  BY DEF Init, LogInit
<1>3. TypeOK
  <2>1. cursor \in 0..MaxEvents /\ nextId \in 1..MaxEvents + 1 /\ config \in ConfigType
    BY <1>2, PullAssumption
  <2>2. rows \in [Keys -> Ids \cup {NoEvent}]
    BY <1>2
  <2>3. QED
    BY <1>1, <1>2, <2>1, <2>2 DEF TypeOK, Rests, SyncType
<1>4. LogNumbered /\ ConfirmedIsHeld /\ Unseen /\ AppliedIsAtHand /\ ResolvedIsSettled
  BY <1>1, <1>2 DEF LogNumbered, Numbered, ConfirmedIsHeld, Confirmed, Unseen, AppliedIsAtHand,
                    ResolvedIsSettled, Resolved, Rests
<1>5. NoGap
  BY <1>2 DEF NoGap, SameStore
<1>6. QED
  BY <1>3, <1>4, <1>5 DEF Inv

-----------------------------------------------------------------------------
(* Steps that leave the device and the server alone.                       *)

LEMMA RestInv ==
  ASSUME Inv, Rests(sync'), UNCHANGED <<log, config, backend, mine, nextId, device>>
  PROVE  Inv'
<1> USE DEF device
<1>1. TypeOK'
  BY DEF Inv, TypeOK, Rests, SyncType
<1>2. LogNumbered' /\ ConfirmedIsHeld' /\ Unseen' /\ AppliedIsAtHand' /\ ResolvedIsSettled'
  BY DEF Inv, LogNumbered, ConfirmedIsHeld, Confirmed, Unsent, Unseen, AppliedIsAtHand,
         ResolvedIsSettled, Resolved, Rests
<1>3. NoGap'
  BY DEF Inv, NoGap, SameStore, Reached, Done, Rests
<1>4. QED
  BY <1>1, <1>2, <1>3 DEF Inv

LEMMA StartSyncInv ==
  ASSUME Inv, NEW manual \in BOOLEAN, StartSync(manual)
  PROVE  Inv'
<1>1. Rests(sync')
  BY IdleType DEF StartSync, Rests, SyncType, Phases
<1>2. QED
  BY <1>1, RestInv DEF StartSync, outside

LEMMA StartReplayInv ==
  ASSUME Inv, StartReplay
  PROVE  Inv'
<1>1. Rests(sync')
  BY IdleType DEF StartReplay, Rests, SyncType, Phases
<1>2. QED
  BY <1>1, RestInv DEF StartReplay, outside

LEMMA PullFailsInv ==
  ASSUME Inv, PullFails
  PROVE  Inv'
<1>1. sync' = AfterPush
  BY DEF PullFails, AfterPull
<1>2. QED
  BY <1>1, AfterPushRests, RestInv DEF PullFails, outside

LEMMA FinishReplayInv ==
  ASSUME Inv, FinishReplay
  PROVE  Inv'
BY AfterPushRests, RestInv DEF FinishReplay, outside

LEMMA CrashInv ==
  ASSUME Inv, Crash
  PROVE  Inv'
BY RestartRests, RestInv DEF Crash

-----------------------------------------------------------------------------
(* The log.                                                                *)

LEMMA LogFinite ==
  ASSUME NEW l, Numbered(l)
  PROVE  /\ IsFiniteSet(DOMAIN l) /\ Cardinality(DOMAIN l) \in Nat
         /\ Cardinality(DOMAIN l) <= MaxEvents
         /\ \A e \in DOMAIN l : l[e].pos \in Ids
<1>1. MaxEvents \in Nat
  BY PullAssumption
<1>2. IsFiniteSet(Ids) /\ Cardinality(Ids) = MaxEvents
  BY <1>1, FS_Interval DEF Ids
<1>3. DOMAIN l \in SUBSET Ids
  BY DEF Numbered
<1>4. IsFiniteSet(DOMAIN l) /\ Cardinality(DOMAIN l) <= MaxEvents
  BY <1>2, <1>3, FS_Subset
<1>5. Cardinality(DOMAIN l) \in Nat
  BY <1>4, FS_CardinalityType
<1>6. QED
  BY <1>1, <1>4, <1>5 DEF Numbered, Ids

(* The events a push adds come after all that were there, in the order of  *)
(* their ids.                                                              *)
LEMMA AppendedNumbered ==
  ASSUME LogNumbered, NEW E, E \subseteq Ids, NEW keyOf \in [E -> Keys],
         log' = Appended({Body(e, keyOf[e]) : e \in E})
  PROVE  /\ LogNumbered'
         /\ DOMAIN log' = DOMAIN log \cup E
         /\ \A e \in DOMAIN log : log'[e] = log[e]
         /\ \A e \in E \ DOMAIN log :
              log'[e].pos > Cardinality(DOMAIN log) /\ log'[e].key = keyOf[e]
         /\ \A e, f \in E \ DOMAIN log : e < f => log'[e].pos < log'[f].pos
         /\ Cardinality(DOMAIN log) <= Cardinality(DOMAIN log')
<1> DEFINE group == {Body(e, keyOf[e]) : e \in E}
           n == Cardinality(DOMAIN log)
           N == E \ DOMAIN log
           before == {pair \in N \X N : pair[1] <= pair[2]}
           m == Cardinality(N)
<1>1. IsFiniteSet(DOMAIN log) /\ n \in Nat /\ MaxEvents \in Nat
  BY LogFinite, PullAssumption DEF LogNumbered
<1>2. N \in SUBSET Ids /\ IsFiniteSet(N) /\ m \in Nat
  <2>1. N \in SUBSET Ids
    OBVIOUS
  <2>2. IsFiniteSet(Ids)
    BY <1>1, FS_Interval DEF Ids
  <2>3. IsFiniteSet(N)
    BY <2>1, <2>2, FS_Subset
  <2>4. QED
    BY <2>1, <2>3, FS_CardinalityType
<1>3. \A e, f \in N : <<e, f>> \in before <=> e <= f
  OBVIOUS
<1>4. TotalOrder(N, before)
  <2>1. \A e \in N : e \in Int
    BY <1>2 DEF Ids
  <2> HIDE DEF before
  <2>2. QED
    BY <1>3, <2>1 DEF TotalOrder
<1>5. Eids(group) = E /\ log' = Appended(group)
  <2>1. \A b \in group : b.eid \in E
    BY DEF Body
  <2>2. ASSUME NEW e \in E PROVE \E b \in group : b.eid = e
    <3>1. Body(e, keyOf[e]) \in group /\ Body(e, keyOf[e]).eid = e
      BY DEF Body
    <3> HIDE DEF group
    <3>2. QED
      BY <3>1
  <2>3. log' = Appended(group)
    OBVIOUS
  <2> HIDE DEF group
  <2>4. QED
    BY <2>1, <2>2, <2>3 DEF Eids
<1>6. \A e \in N : Eids({c \in Fresh(group) : c.seq <= e}) = NotAfter(N, before, e)
  <2> SUFFICES ASSUME NEW e \in N
               PROVE  Eids({c \in Fresh(group) : c.seq <= e}) = NotAfter(N, before, e)
    OBVIOUS
  <2>1. ASSUME NEW f \in Eids({c \in Fresh(group) : c.seq <= e}) PROVE f \in NotAfter(N, before, e)
    <3>1. PICK c \in group : c.eid \notin DOMAIN log /\ c.seq <= e /\ f = c.eid
      BY <2>1 DEF Eids, Fresh
    <3>2. PICK g \in E : c = Body(g, keyOf[g])
      BY <3>1
    <3>3. c.eid = g /\ c.seq = g
      BY <3>2 DEF Body
    <3> HIDE DEF group, before
    <3>4. f \in N /\ f <= e
      BY <3>1, <3>3
    <3>5. QED
      BY <1>3, <3>4 DEF NotAfter
  <2>2. ASSUME NEW f \in NotAfter(N, before, e) PROVE f \in Eids({c \in Fresh(group) : c.seq <= e})
    <3>1. f \in N /\ <<f, e>> \in before
      BY <2>2 DEF NotAfter
    <3>2. f <= e
      BY <1>3, <3>1
    <3>3. Body(f, keyOf[f]) \in group /\ Body(f, keyOf[f]).eid = f /\ Body(f, keyOf[f]).seq = f
      BY <3>1 DEF Body
    <3> HIDE DEF group, before
    <3>4. QED
      BY <3>1, <3>2, <3>3 DEF Eids, Fresh
  <2>3. QED
    BY <2>1, <2>2
<1>7. \A e \in N : (CHOOSE c \in group : c.eid = e) = Body(e, keyOf[e])
  <2> SUFFICES ASSUME NEW e \in N PROVE (CHOOSE c \in group : c.eid = e) = Body(e, keyOf[e])
    OBVIOUS
  <2>1. Body(e, keyOf[e]) \in group /\ Body(e, keyOf[e]).eid = e
    BY DEF Body
  <2>2. \A c \in group : c.eid = e => c = Body(e, keyOf[e])
    BY DEF Body
  <2> HIDE DEF group
  <2>3. QED
    BY <2>1, <2>2
<1>8. \A e \in N : Body(e, keyOf[e]).seq = e /\ Body(e, keyOf[e]).key = keyOf[e]
  BY DEF Body
<1> HIDE DEF group, before, n, m, N
<1>9. /\ DOMAIN log' = DOMAIN log \cup E
      /\ \A e \in DOMAIN log : log'[e] = log[e]
  BY <1>5 DEF Appended
<1>10. \A e \in N : log'[e].pos = n + Rank(N, before, e) /\ log'[e].key = keyOf[e]
  <2> SUFFICES ASSUME NEW e \in N
               PROVE  log'[e].pos = n + Rank(N, before, e) /\ log'[e].key = keyOf[e]
    OBVIOUS
  <2> DEFINE b == CHOOSE c \in group : c.eid = e
  <2>1. e \in E /\ e \notin DOMAIN log
    BY DEF N
  <2>2. log'[e] = StoredEvent(b, n + Cardinality(Eids({c \in Fresh(group) : c.seq <= b.seq})))
    BY <1>5, <2>1 DEF Appended, n
  <2>3. b.seq = e /\ b.key = keyOf[e]
    BY <1>7, <1>8
  <2> HIDE DEF b
  <2>4. Cardinality(Eids({c \in Fresh(group) : c.seq <= b.seq})) = Rank(N, before, e)
    BY <1>6, <2>3 DEF Rank
  <2>5. QED
    BY <2>2, <2>3, <2>4 DEF StoredEvent
<1>11. \A e \in N : Rank(N, before, e) \in 1..m
  BY <1>2, <1>4, RankType DEF m
<1>12. Cardinality(DOMAIN log') = n + m /\ DOMAIN log' = DOMAIN log \cup N
  <2>1. DOMAIN log' = DOMAIN log \cup N /\ DOMAIN log \cap N = {}
    BY <1>9 DEF N
  <2>2. Cardinality(DOMAIN log \cap N) = 0
    BY <2>1, FS_EmptySet
  <2>3. Cardinality(DOMAIN log \cup N) = n + m - Cardinality(DOMAIN log \cap N)
    BY <1>1, <1>2, FS_Union DEF n, m
  <2>4. QED
    BY <1>1, <1>2, <2>1, <2>2, <2>3
<1>13. \A e \in N : log'[e].pos \in (n + 1)..(n + m)
  BY <1>1, <1>2, <1>10, <1>11
<1>14. \A e \in DOMAIN log : log'[e].pos \in 1..n /\ log'[e].key \in Keys
  BY <1>9 DEF LogNumbered, Numbered, n
<1>15. \A e, f \in N : log'[e].pos = log'[f].pos => e = f
  <2> SUFFICES ASSUME NEW e \in N, NEW f \in N, e # f PROVE log'[e].pos # log'[f].pos
    OBVIOUS
  <2>1. Rank(N, before, e) \in Int /\ Rank(N, before, f) \in Int
    BY <1>2, <1>11
  <2>2. <<e, f>> \in before \/ <<f, e>> \in before
    BY <1>4 DEF TotalOrder
  <2>3. Rank(N, before, e) # Rank(N, before, f)
    <3>1. CASE <<e, f>> \in before
      BY <1>2, <1>4, <2>1, <3>1, RankGrows
    <3>2. CASE <<f, e>> \in before
      BY <1>2, <1>4, <2>1, <3>2, RankGrows
    <3>3. QED
      BY <2>2, <3>1, <3>2
  <2>4. QED
    BY <1>1, <1>10, <2>1, <2>3
<1>16. \A e, f \in DOMAIN log' : log'[e].pos = log'[f].pos => e = f
  <2>1. \A e, f \in DOMAIN log : log'[e].pos = log'[f].pos => e = f
    BY <1>9 DEF LogNumbered, Numbered
  <2>2. \A e \in DOMAIN log, f \in N : log'[e].pos # log'[f].pos
    BY <1>1, <1>2, <1>13, <1>14
  <2>3. QED
    BY <1>12, <1>15, <2>1, <2>2
<1>17. \A e \in DOMAIN log' : log'[e].pos \in 1..(n + m) /\ log'[e].key \in Keys
  <2>1. \A e \in N : log'[e].key \in Keys
    BY <1>10 DEF N
  <2>2. QED
    BY <1>1, <1>2, <1>12, <1>13, <1>14, <2>1
<1>18. DOMAIN log' \subseteq Ids
  BY <1>2, <1>12 DEF LogNumbered, Numbered
<1>19. LogNumbered'
  BY <1>12, <1>16, <1>17, <1>18 DEF LogNumbered, Numbered
<1>20. \A e, f \in N : e < f => log'[e].pos < log'[f].pos
  <2> SUFFICES ASSUME NEW e \in N, NEW f \in N, e < f PROVE log'[e].pos < log'[f].pos
    OBVIOUS
  <2>1. <<e, f>> \in before /\ e # f
    BY <1>2, <1>3 DEF Ids
  <2>2. Rank(N, before, e) < Rank(N, before, f)
    BY <1>2, <1>4, <2>1, RankGrows
  <2>3. Rank(N, before, e) \in Int /\ Rank(N, before, f) \in Int
    BY <1>2, <1>11
  <2>4. QED
    BY <1>1, <1>10, <2>2, <2>3
<1>21. QED
  BY <1>1, <1>2, <1>9, <1>10, <1>12, <1>13, <1>19, <1>20 DEF N, n

(* A store that lost what came after some number still counts from one.    *)
LEMMA TruncatedNumbered ==
  ASSUME LogNumbered, NEW size \in Nat,
         log' = [e \in {f \in DOMAIN log : log[f].pos <= size} |-> log[e]]
  PROVE  LogNumbered'
<1> DEFINE S == DOMAIN log
           T == {e \in S : log[e].pos <= size}
           p == [e \in S |-> log[e].pos]
<1>1. IsFiniteSet(S)
  BY LogFinite DEF LogNumbered
<1>2. p \in [S -> 1..Cardinality(S)] /\ \A e, f \in S : p[e] = p[f] => e = f
  BY DEF LogNumbered, Numbered
<1>3. T = {e \in S : p[e] <= size}
  OBVIOUS
<1> HIDE DEF p
<1>4. \A e \in T : p[e] \in 1..Cardinality(T)
  BY <1>1, <1>2, <1>3, NumberedPart
<1>5. DOMAIN log' = T /\ \A e \in T : log'[e] = log[e] /\ p[e] = log[e].pos
  BY DEF p
<1>6. QED
  BY <1>4, <1>5 DEF LogNumbered, Numbered

-----------------------------------------------------------------------------
(* Steps of the user, of other devices and of the server.                  *)

(* What was accounted for stays so while the log only grows at its end.    *)
LEMMA ReachedKept ==
  ASSUME LogNumbered, DOMAIN log \subseteq DOMAIN log',
         \A e \in DOMAIN log : log'[e] = log[e],
         \A e \in DOMAIN log' \ DOMAIN log : e \in mine' \/ log'[e].pos > Cardinality(DOMAIN log),
         Cardinality(DOMAIN log') \in Nat,
         Cardinality(DOMAIN log) <= Cardinality(DOMAIN log'),
         \A e \in DOMAIN log' : log'[e].pos \in Nat,
         Done \subseteq Done', NEW p \in Nat, Reached(p)
  PROVE  Reached(p)'
<1>1. Cardinality(DOMAIN log) \in Nat
  BY LogFinite DEF LogNumbered
<1>2. p <= Cardinality(DOMAIN log')
  BY <1>1 DEF Reached
<1>3. ASSUME NEW e \in DOMAIN log', log'[e].pos <= p PROVE e \in Done'
  <2>1. CASE e \in DOMAIN log
    BY <1>3, <2>1 DEF Reached
  <2>2. CASE e \notin DOMAIN log
    BY <1>1, <1>3, <2>2 DEF Reached, Done
  <2>3. QED
    BY <2>1, <2>2
<1>4. QED
  BY <1>2, <1>3 DEF Reached

(* The positions the client keeps are numbers.                             *)
LEMMA Positions ==
  ASSUME TypeOK
  PROVE  /\ cursor \in 0..MaxEvents /\ cursor \in Nat /\ MaxEvents \in Nat
         /\ sync.since \in Nat /\ sync.top \in Nat
         /\ \A e \in DOMAIN inbox : inbox[e].pos \in Ids /\ inbox[e].pos \in Nat
         /\ \A i \in DOMAIN sync.work : sync.work[i] \in Items /\ sync.work[i].pos \in Nat
<1>1. MaxEvents \in Nat
  BY PullAssumption
<1>2. sync \in SyncType /\ sync.work \in Seq(Items)
  BY DEF TypeOK, SyncType
<1>3. \A i \in DOMAIN sync.work : sync.work[i] \in Items
  BY <1>2
<1>4. QED
  BY <1>1, <1>2, <1>3 DEF TypeOK, SyncType, Items, Ids

(* The client stands still while the log grows.                            *)
LEMMA NoGapKept ==
  ASSUME Inv, LogNumbered', DOMAIN log \subseteq DOMAIN log',
         \A e \in DOMAIN log : log'[e] = log[e],
         \A e \in DOMAIN log' \ DOMAIN log : e \in mine' \/ log'[e].pos > Cardinality(DOMAIN log),
         Cardinality(DOMAIN log) <= Cardinality(DOMAIN log'),
         Done \subseteq Done', UNCHANGED <<backend, backendSeen, cursor, inbox, sync>>
  PROVE  NoGap'
<1> SUFFICES ASSUME ~TornReset, SameStore' PROVE NoGap'
  BY DEF NoGap
<1>1. LogNumbered /\ TypeOK /\ SameStore
  BY DEF Inv, SameStore
<1>2. Cardinality(DOMAIN log') \in Nat /\ \A e \in DOMAIN log' : log'[e].pos \in Nat
  <2>1. Numbered(log')
    BY DEF LogNumbered
  <2>2. QED
    BY <2>1, LogFinite DEF Ids
<1>3. \A p \in Nat : Reached(p) => Reached(p)'
  BY <1>1, <1>2, ReachedKept
<1>4. (Reached(cursor) /\ \A e \in DOMAIN inbox : Reached(inbox[e].pos))'
  BY <1>1, <1>3, Positions DEF Inv, NoGap, Reached
<1>5. (sync.phase = "ask" => Reached(sync.since))'
  BY <1>1, <1>3, Positions DEF Inv, NoGap, Reached
<1>6. (sync.phase = "pending" => \A i \in DOMAIN sync.work : Reached(sync.work[i].pos))'
  BY <1>1, <1>3, Positions DEF Inv, NoGap, Reached
<1>7. ASSUME sync'.phase = "page" PROVE PageCovers'
  <2>1. PageCovers
    BY <1>1, <1>7 DEF Inv, NoGap
  <2>2. Cardinality(DOMAIN log) \in Nat /\ sync.top \in Nat
    BY <1>1, LogFinite, Positions DEF LogNumbered
  <2>3. sync'.top <= Cardinality(DOMAIN log')
    BY <1>2, <2>1, <2>2 DEF PageCovers
  <2>4. \A e \in DOMAIN log' : log'[e].pos <= sync'.top => e \in Done' \cup Listed(sync'.work)
    BY <1>2, <2>1, <2>2 DEF PageCovers, Done
  <2>5. QED
    BY <2>1, <2>3, <2>4 DEF PageCovers
<1>8. QED
  BY <1>4, <1>5, <1>6, <1>7 DEF NoGap

LEMMA EditInv ==
  ASSUME Inv, NEW k \in Keys, Edit(k)
  PROVE  Inv'
<1>1. /\ UNCHANGED <<log, config, backend, inbox, dead, cursor, backendSeen, settled, sync>>
      /\ rows' = [rows EXCEPT ![k] = nextId] /\ mine' = mine \cup {nextId}
      /\ nextId' = nextId + 1 /\ nextId \in Ids /\ MaxEvents \in Nat
  BY PullAssumption DEF Edit
<1>2. /\ DOMAIN outbox' = DOMAIN outbox \cup {nextId}
      /\ \A e \in DOMAIN outbox' :
           outbox'[e] = IF e = nextId THEN [key |-> k, synced |-> FALSE] ELSE outbox[e]
  BY DEF Edit, Put
<1>3. TypeOK'
  <2>1. nextId' \in 1..MaxEvents + 1 /\ rows' \in [Keys -> Ids \cup {NoEvent}]
    BY <1>1 DEF Inv, TypeOK, Ids
  <2>2. DOMAIN outbox' \subseteq mine' /\ mine' \subseteq Ids
    BY <1>1, <1>2 DEF Inv, TypeOK
  <2>3. \A e \in DOMAIN outbox' : outbox'[e] \in [key : Keys, synced : BOOLEAN]
    <3>1. [key |-> k, synced |-> FALSE] \in [key : Keys, synced : BOOLEAN]
      OBVIOUS
    <3>2. \A e \in DOMAIN outbox : outbox[e] \in [key : Keys, synced : BOOLEAN]
      BY DEF Inv, TypeOK
    <3>3. QED
      BY <1>2, <3>1, <3>2
  <2>4. QED
    BY <1>1, <2>1, <2>2, <2>3 DEF Inv, TypeOK
<1>4. LogNumbered' /\ Unseen' /\ AppliedIsAtHand' /\ ResolvedIsSettled'
  BY <1>1 DEF Inv, LogNumbered, Unseen, AppliedIsAtHand, ResolvedIsSettled, Resolved
<1>5. ConfirmedIsHeld'
  BY <1>1, <1>2 DEF Inv, ConfirmedIsHeld, Confirmed, Unsent
<1>6. NoGap'
  <2>1. Done \subseteq Done'
    BY <1>1 DEF Done
  <2>2. Cardinality(DOMAIN log) <= Cardinality(DOMAIN log')
    BY <1>1, LogFinite DEF Inv, LogNumbered
  <2>3. QED
    BY <1>1, <1>4, <2>1, <2>2, NoGapKept
<1>7. QED
  BY <1>3, <1>4, <1>5, <1>6 DEF Inv

LEMMA ForeignInv ==
  ASSUME Inv, NEW k \in Keys, Foreign(k)
  PROVE  Inv'
<1>1. /\ UNCHANGED <<config, backend, mine, rows, outbox, inbox, dead, cursor, backendSeen,
                     settled, sync>>
      /\ log' = Appended({Body(nextId, k)})
      /\ nextId' = nextId + 1 /\ nextId \in Ids /\ MaxEvents \in Nat
  BY PullAssumption DEF Foreign, device
<1>2. /\ LogNumbered' /\ DOMAIN log' = DOMAIN log \cup {nextId}
      /\ \A e \in DOMAIN log : log'[e] = log[e]
      /\ \A e \in {nextId} \ DOMAIN log : log'[e].pos > Cardinality(DOMAIN log)
      /\ Cardinality(DOMAIN log) <= Cardinality(DOMAIN log')
  <2> DEFINE keyOf == [e \in {nextId} |-> k]
  <2>1. {Body(nextId, k)} = {Body(e, keyOf[e]) : e \in {nextId}}
    OBVIOUS
  <2>2. keyOf \in [{nextId} -> Keys] /\ {nextId} \subseteq Ids
    BY <1>1
  <2> HIDE DEF keyOf
  <2>3. QED
    BY <1>1, <2>1, <2>2, AppendedNumbered DEF Inv
<1>3. TypeOK'
  <2>1. nextId' \in 1..MaxEvents + 1
    BY <1>1 DEF Ids
  <2>2. QED
    BY <1>1, <2>1 DEF Inv, TypeOK
<1>4. ConfirmedIsHeld' /\ Unseen' /\ AppliedIsAtHand' /\ ResolvedIsSettled'
  BY <1>1, <1>2 DEF Inv, ConfirmedIsHeld, Confirmed, Unsent, Unseen, AppliedIsAtHand,
                    ResolvedIsSettled, Resolved
<1>5. NoGap'
  <2>1. Done \subseteq Done'
    BY <1>1 DEF Done
  <2>2. QED
    BY <1>1, <1>2, <2>1, NoGapKept
<1>6. QED
  BY <1>2, <1>3, <1>4, <1>5 DEF Inv

(* The identity that was seen is no longer the store's.                    *)
LEMMA SwapBackendInv ==
  ASSUME Inv, NEW size \in 0..MaxEvents, SwapBackend(size)
  PROVE  Inv'
<1>1. /\ UNCHANGED <<config, mine, rows, outbox, inbox, dead, cursor, backendSeen, settled,
                     nextId, sync>>
      /\ log' = [e \in {f \in DOMAIN log : log[f].pos <= size} |-> log[e]]
      /\ backend' = backend + 1 /\ backendSeen # 0 /\ size \in Nat
  BY PullAssumption DEF SwapBackend, device
<1>2. LogNumbered'
  BY <1>1, TruncatedNumbered DEF Inv
<1>3. backendSeen \in 0..backend /\ backend \in Nat
  BY DEF Inv, TypeOK
<1>4. backendSeen' # backend' /\ backendSeen' # 0 /\ backend' # 0
  BY <1>1, <1>3
<1>5. TypeOK'
  BY <1>1, <1>3 DEF Inv, TypeOK
<1>6. ConfirmedIsHeld' /\ Unseen' /\ AppliedIsAtHand' /\ ResolvedIsSettled' /\ NoGap'
  BY <1>1, <1>4 DEF Inv, ConfirmedIsHeld, Unseen, AppliedIsAtHand, ResolvedIsSettled, Resolved,
                    NoGap, SameStore
<1>7. QED
  BY <1>2, <1>5, <1>6 DEF Inv

-----------------------------------------------------------------------------
(* The cursor, its rewinding and pruning.                                  *)

LEMMA EffectiveCursorIs ==
  ASSUME TypeOK
  PROVE  /\ EffectiveCursor \in 0..MaxEvents
         /\ EffectiveCursor = cursor \/ \E e \in Resolved : EffectiveCursor = inbox[e].pos
<1> DEFINE T == {cursor} \cup {inbox[e].pos : e \in Resolved}
<1>1. T \subseteq 0..MaxEvents /\ T # {} /\ MaxEvents \in Nat
  BY Positions DEF Resolved, Ids
<1> HIDE DEF T
<1>2. Greatest(T) \in T
  BY <1>1, GreatestOf
<1>3. EffectiveCursor = Greatest(T)
  BY DEF EffectiveCursor, T
<1>4. QED
  BY <1>1, <1>2, <1>3 DEF T

LEMMA SinceType ==
  ASSUME TypeOK
  PROVE  /\ EffectiveCursor \in Nat /\ Since \in Nat
         /\ Since = 0 \/ Since <= EffectiveCursor
<1>1. EffectiveCursor \in Nat /\ config.overlap \in Nat
  BY EffectiveCursorIs, PullAssumption DEF TypeOK, ConfigType
<1> DEFINE a == EffectiveCursor - config.overlap
<1>2. a \in Int /\ a <= EffectiveCursor
  BY <1>1
<1>3. Since = CHOOSE n \in {0, a} : \A m \in {0, a} : m <= n
  BY DEF Since, Greatest
<1> HIDE DEF a
<1>4. \E n \in {0, a} : \A m \in {0, a} : m <= n
  BY <1>2
<1>5. Since \in {0, a} /\ 0 <= Since
  BY <1>3, <1>4
<1>6. QED
  BY <1>1, <1>2, <1>5

(* What the effective cursor has passed is accounted for.                  *)
LEMMA EffectiveReached ==
  ASSUME Inv, ~TornReset, SameStore
  PROVE  Reached(EffectiveCursor)
<1>1. EffectiveCursor = cursor \/ \E e \in DOMAIN inbox : EffectiveCursor = inbox[e].pos
  BY EffectiveCursorIs DEF Inv, Resolved
<1>2. QED
  BY <1>1 DEF Inv, NoGap

LEMMA SinceReached ==
  ASSUME Inv, ~TornReset, SameStore
  PROVE  Reached(Since)
<1>1. Reached(EffectiveCursor) /\ EffectiveCursor \in Nat /\ Since \in Nat
      /\ (Since = 0 \/ Since <= EffectiveCursor)
  BY EffectiveReached, SinceType DEF Inv
<1>2. Cardinality(DOMAIN log) \in Nat /\ \A e \in DOMAIN log : log[e].pos \in Ids
  BY LogFinite DEF Inv, LogNumbered
<1>3. QED
  BY <1>1, <1>2, PullAssumption DEF Reached, Ids

LEMMA PruneInv ==
  ASSUME Inv, NEW newestOut \in 0..MaxEvents, NEW newestIn \in 0..MaxEvents,
         Prune(newestOut, newestIn)
  PROVE  Inv'
<1>1. /\ UNCHANGED <<log, config, backend, mine, rows, dead, backendSeen, settled, nextId, sync>>
      /\ sync.phase = "idle" /\ cursor' = EffectiveCursor
  BY DEF Prune, outside
<1>2. /\ DOMAIN outbox' \subseteq DOMAIN outbox /\ \A e \in DOMAIN outbox' : outbox'[e] = outbox[e]
      /\ DOMAIN inbox' \subseteq DOMAIN inbox /\ \A e \in DOMAIN inbox' : inbox'[e] = inbox[e]
      /\ DOMAIN inbox \ DOMAIN inbox' \subseteq Resolved
  BY DEF Prune, Drop
<1>3. TypeOK'
  BY <1>1, <1>2, EffectiveCursorIs DEF Inv, TypeOK
<1>4. LogNumbered' /\ ConfirmedIsHeld' /\ AppliedIsAtHand' /\ ResolvedIsSettled'
  BY <1>1, <1>2 DEF Inv, LogNumbered, ConfirmedIsHeld, Confirmed, Unsent, AppliedIsAtHand,
                    ResolvedIsSettled, Resolved
<1>5. Unseen'
  <2>1. ASSUME backendSeen = 0 PROVE EffectiveCursor = 0
    BY <2>1, EffectiveCursorIs DEF Inv, Unseen, Resolved
  <2>2. QED
    BY <1>1, <1>2, <2>1 DEF Inv, Unseen
<1>6. NoGap'
  <2> SUFFICES ASSUME ~TornReset, SameStore' PROVE NoGap'
    BY DEF NoGap
  <2>1. SameStore
    BY <1>1 DEF SameStore
  <2>2. Done = Done'
    BY <1>1, <1>2 DEF Inv, Done, ResolvedIsSettled
  <2>3. Reached(EffectiveCursor)
    BY <2>1, EffectiveReached
  <2>4. QED
    BY <1>1, <1>2, <2>1, <2>2, <2>3 DEF Inv, NoGap, Reached
<1>7. QED
  BY <1>3, <1>4, <1>5, <1>6 DEF Inv

-----------------------------------------------------------------------------
(* The push and the reset.                                                 *)

(* A rewrite of the outbox that only touches the synced flags.             *)
LEMMA FlagsType ==
  ASSUME TypeOK, DOMAIN outbox' = DOMAIN outbox,
         \A e \in DOMAIN outbox :
            \E b \in BOOLEAN : outbox'[e] = [outbox[e] EXCEPT !.synced = b]
  PROVE  \A e \in DOMAIN outbox' : outbox'[e] \in [key : Keys, synced : BOOLEAN]
<1>1. \A e \in DOMAIN outbox : outbox[e] \in [key : Keys, synced : BOOLEAN]
  BY DEF TypeOK
<1>2. QED
  BY <1>1

LEMMA UploadInv ==
  ASSUME Inv, Upload
  PROVE  Inv'
<1>1. PICK stored \in SUBSET Unsent : \E confirmed \in SUBSET stored :
        /\ log' = Appended({Body(e, outbox[e].key) : e \in stored})
        /\ outbox' = [e \in DOMAIN outbox |->
                        [outbox[e] EXCEPT !.synced = @ \/ e \in confirmed]]
  BY DEF Upload
<1>0. PICK confirmed \in SUBSET stored :
        /\ log' = Appended({Body(e, outbox[e].key) : e \in stored})
        /\ outbox' = [e \in DOMAIN outbox |->
                        [outbox[e] EXCEPT !.synced = @ \/ e \in confirmed]]
  BY <1>1
<1>2. /\ UNCHANGED <<config, backend, mine, rows, inbox, dead, cursor, backendSeen, settled, nextId>>
      /\ sync.phase \in {"push", "repush"}
      /\ sync' = IF sync.phase = "push" THEN [sync EXCEPT !.phase = "ask", !.since = Since]
                 ELSE AfterPush
  BY DEF Upload
<1>3. /\ stored \subseteq DOMAIN outbox /\ DOMAIN outbox \subseteq mine /\ mine \subseteq Ids
      /\ \A e \in DOMAIN outbox : outbox[e] \in [key : Keys, synced : BOOLEAN]
  BY DEF Inv, TypeOK, Unsent
<1>4. /\ LogNumbered' /\ DOMAIN log' = DOMAIN log \cup stored
      /\ \A e \in DOMAIN log : log'[e] = log[e]
      /\ Cardinality(DOMAIN log) <= Cardinality(DOMAIN log')
  <2> DEFINE keyOf == [e \in stored |-> outbox[e].key]
  <2>1. keyOf \in [stored -> Keys] /\ stored \subseteq Ids
    BY <1>3
  <2>2. {Body(e, outbox[e].key) : e \in stored} = {Body(e, keyOf[e]) : e \in stored}
    OBVIOUS
  <2>3. log' = Appended({Body(e, keyOf[e]) : e \in stored})
    BY <1>1, <2>2
  <2> HIDE DEF keyOf
  <2>4. QED
    BY <2>1, <2>3, AppendedNumbered DEF Inv
<1>5. /\ DOMAIN outbox' = DOMAIN outbox
      /\ \A e \in DOMAIN outbox : \E b \in BOOLEAN : outbox'[e] = [outbox[e] EXCEPT !.synced = b]
  <2>1. DOMAIN outbox' = DOMAIN outbox
    BY <1>0
  <2>2. ASSUME NEW e \in DOMAIN outbox
        PROVE  \E b \in BOOLEAN : outbox'[e] = [outbox[e] EXCEPT !.synced = b]
    <3> DEFINE b == outbox[e].synced \/ e \in confirmed
    <3>1. outbox'[e] = [outbox[e] EXCEPT !.synced = b]
      BY <1>0
    <3>2. b \in BOOLEAN
      BY <1>3
    <3>3. QED
      BY <3>1, <3>2
  <2>3. QED
    BY <2>1, <2>2
<1>6. Confirmed' \subseteq Confirmed \cup stored
  <2> SUFFICES ASSUME NEW e \in DOMAIN outbox, outbox'[e].synced, e \notin stored
               PROVE  outbox[e].synced
    BY <1>5 DEF Confirmed, Unsent
  <2>1. outbox'[e].synced = (outbox[e].synced \/ e \in confirmed)
    BY <1>0, <1>3
  <2>2. QED
    BY <2>1
<1>7. \/ Rests(sync')
      \/ /\ sync.phase = "push" /\ sync' \in SyncType /\ sync'.phase = "ask" /\ sync'.since = Since
         /\ sync'.work = sync.work /\ sync'.applied = sync.applied
         /\ sync'.unchecked = sync.unchecked
  <2>1. CASE sync.phase = "push"
    <3>1. Since \in Nat /\ sync \in SyncType
      BY SinceType DEF Inv, TypeOK, SyncType
    <3>2. QED
      BY <1>2, <2>1, <3>1 DEF SyncType, Phases
  <2>2. CASE sync.phase # "push"
    BY <1>2, <2>2, AfterPushRests
  <2>3. QED
    BY <2>1, <2>2
<1>8. sync.work = <<>> /\ sync.applied = NoEvent
  BY <1>2 DEF Inv, AppliedIsAtHand
<1>9. TypeOK'
  <2>1. sync' \in SyncType
    BY <1>7 DEF Rests
  <2>2. \A e \in DOMAIN outbox' : outbox'[e] \in [key : Keys, synced : BOOLEAN]
    BY <1>5, FlagsType DEF Inv
  <2>3. QED
    BY <1>2, <1>5, <2>1, <2>2 DEF Inv, TypeOK, SyncType
<1>10. ConfirmedIsHeld'
  BY <1>2, <1>4, <1>6 DEF Inv, ConfirmedIsHeld
<1>11. Unseen'
  <2>1. ASSUME backendSeen = 0 PROVE Since = 0
    <3>1. cursor = 0 /\ Resolved = {}
      BY <2>1 DEF Inv, Unseen, Resolved
    <3>2. EffectiveCursor = 0
      BY <3>1, EffectiveCursorIs DEF Inv
    <3>3. QED
      BY <3>2, SinceType DEF Inv
  <2>2. QED
    BY <1>2, <1>7, <1>8, <2>1 DEF Inv, Unseen, Rests
<1>12. AppliedIsAtHand' /\ ResolvedIsSettled'
  BY <1>2, <1>7, <1>8 DEF Inv, AppliedIsAtHand, ResolvedIsSettled, Resolved, Rests
<1>13. NoGap'
  <2> SUFFICES ASSUME ~TornReset, SameStore' PROVE NoGap'
    BY DEF NoGap
  <2>1. SameStore /\ Done' = Done
    BY <1>2 DEF SameStore, Done
  <2>2. Numbered(log')
    BY <1>4 DEF LogNumbered
  <2>3. Cardinality(DOMAIN log') \in Nat /\ \A e \in DOMAIN log' : log'[e].pos \in Nat
    BY <2>2, LogFinite DEF Ids
  <2>4. \A e \in DOMAIN log' \ DOMAIN log : e \in mine'
    BY <1>2, <1>3, <1>4
  <2>5. \A p \in Nat : Reached(p) => Reached(p)'
    BY <1>4, <2>1, <2>3, <2>4, ReachedKept DEF Inv
  <2>6. (Reached(cursor) /\ \A e \in DOMAIN inbox : Reached(inbox[e].pos))'
    BY <1>2, <2>1, <2>5, Positions DEF Inv, NoGap, Reached
  <2>7. Reached(Since) /\ Since \in Nat
    BY <2>1, SinceReached, SinceType DEF Inv
  <2>8. (sync.phase = "ask" => Reached(sync.since))'
    BY <1>7, <2>5, <2>7 DEF Reached, Rests
  <2>9. sync'.phase \notin {"pending", "page"}
    BY <1>7 DEF Rests
  <2>10. QED
    BY <2>6, <2>8, <2>9 DEF NoGap
<1>14. QED
  BY <1>4, <1>9, <1>10, <1>11, <1>12, <1>13 DEF Inv

LEMMA WhileResetting ==
  ASSUME Inv, Resetting
  PROVE  /\ sync.phase = "ask" /\ sync.work = <<>> /\ sync.applied = NoEvent
         /\ backendSeen # 0 /\ backendSeen # backend /\ backend # 0
         /\ sync \in SyncType /\ backend \in Nat
BY DEF Inv, TypeOK, SyncType, Unseen, AppliedIsAtHand, Resetting, Mismatch

(* Nothing counts as confirmed once it is offered again.                   *)
LEMMA RequeuedFlags ==
  ASSUME TypeOK, outbox' = Requeued
  PROVE  /\ DOMAIN outbox' = DOMAIN outbox /\ Confirmed' = {}
         /\ \A e \in DOMAIN outbox' : outbox'[e] \in [key : Keys, synced : BOOLEAN]
<1>1. DOMAIN outbox' = DOMAIN outbox
  BY DEF Requeued
<1>2. \A e \in DOMAIN outbox : outbox'[e] = [outbox[e] EXCEPT !.synced = FALSE]
  BY DEF Requeued
<1>3. \A e \in DOMAIN outbox : outbox[e] \in [key : Keys, synced : BOOLEAN]
  BY DEF TypeOK
<1>4. \A e \in DOMAIN outbox : ~outbox'[e].synced
  BY <1>2, <1>3
<1>5. Confirmed' = {}
  BY <1>1, <1>4 DEF Confirmed, Unsent
<1>6. QED
  BY <1>1, <1>2, <1>5, FlagsType

LEMMA ResetCursorInv ==
  ASSUME Inv, ResetCursor
  PROVE  Inv'
<1>1. /\ UNCHANGED <<log, config, backend, mine, rows, dead, settled, nextId>>
      /\ DOMAIN inbox' = {} /\ outbox' = Requeued /\ backendSeen' = backend /\ cursor' = 0
      /\ sync' = [sync EXCEPT !.unchecked = FALSE, !.since = 0, !.requeued = Unsent # DOMAIN outbox]
  BY DEF ResetCursor, outside, Drop, CursorAfterReset
<1>2. /\ sync.phase = "ask" /\ sync.work = <<>> /\ sync.applied = NoEvent /\ backend # 0
      /\ sync \in SyncType /\ backend \in Nat
  BY WhileResetting DEF ResetCursor
<1>3. /\ sync' \in SyncType /\ sync'.phase = "ask" /\ sync'.since = 0 /\ sync'.work = <<>>
      /\ sync'.applied = NoEvent
  <2>1. (Unsent # DOMAIN outbox) \in BOOLEAN
    OBVIOUS
  <2>2. QED
    BY <1>1, <1>2, <2>1 DEF SyncType
<1>4. /\ DOMAIN outbox' = DOMAIN outbox /\ Confirmed' = {}
      /\ \A e \in DOMAIN outbox' : outbox'[e] \in [key : Keys, synced : BOOLEAN]
  BY <1>1, RequeuedFlags DEF Inv
<1>5. TypeOK'
  <2>1. cursor' \in 0..MaxEvents
    BY <1>1, PullAssumption
  <2>2. QED
    BY <1>1, <1>2, <1>3, <1>4, <2>1 DEF Inv, TypeOK, SyncType
<1>6. LogNumbered' /\ ConfirmedIsHeld' /\ Unseen' /\ AppliedIsAtHand' /\ ResolvedIsSettled'
  BY <1>1, <1>2, <1>3, <1>4 DEF Inv, LogNumbered, ConfirmedIsHeld, Unseen, AppliedIsAtHand,
                                ResolvedIsSettled, Resolved
<1>7. (Reached(0))'
  <2>1. Numbered(log')
    BY <1>6 DEF LogNumbered
  <2>2. Cardinality(DOMAIN log') \in Nat /\ \A e \in DOMAIN log' : log'[e].pos \in Ids
    BY <2>1, LogFinite
  <2>3. QED
    BY <2>2, PullAssumption DEF Reached, Ids
<1>8. NoGap'
  BY <1>1, <1>3, <1>7 DEF NoGap, Reached
<1>9. QED
  BY <1>5, <1>6, <1>8 DEF Inv

LEMMA CrashInResetInv ==
  ASSUME Inv, CrashInReset
  PROVE  Inv'
<1>1. /\ Rests(sync') /\ UNCHANGED <<log, config, backend, mine, nextId>>
      /\ UNCHANGED <<rows, dead, cursor, backendSeen, settled>>
  BY RestartRests DEF CrashInReset
<1>2. backendSeen # 0 /\ backendSeen # backend
  BY WhileResetting DEF CrashInReset
<1>3. PICK gone \in SUBSET DOMAIN inbox, again \in SUBSET DOMAIN outbox :
        /\ inbox' = Drop(inbox, gone)
        /\ outbox' = [e \in DOMAIN outbox |->
                        [outbox[e] EXCEPT !.synced = @ /\ e \notin again]]
  BY DEF CrashInReset
<1>4. DOMAIN inbox' \subseteq DOMAIN inbox /\ \A e \in DOMAIN inbox' : inbox'[e] = inbox[e]
  BY <1>3 DEF Drop
<1>5. /\ DOMAIN outbox' = DOMAIN outbox
      /\ \A e \in DOMAIN outbox' : outbox'[e] \in [key : Keys, synced : BOOLEAN]
  <2>1. DOMAIN outbox' = DOMAIN outbox
    BY <1>3
  <2>2. ASSUME NEW e \in DOMAIN outbox
        PROVE  \E b \in BOOLEAN : outbox'[e] = [outbox[e] EXCEPT !.synced = b]
    <3> DEFINE b == outbox[e].synced /\ e \notin again
    <3>1. outbox'[e] = [outbox[e] EXCEPT !.synced = b]
      BY <1>3
    <3>2. b \in BOOLEAN
      OBVIOUS
    <3>3. QED
      BY <3>1, <3>2
  <2>3. QED
    BY <2>1, <2>2, FlagsType DEF Inv
<1>6. TypeOK'
  BY <1>1, <1>4, <1>5 DEF Inv, TypeOK, Rests, SyncType
<1>7. LogNumbered' /\ ConfirmedIsHeld' /\ Unseen' /\ AppliedIsAtHand' /\ ResolvedIsSettled'
  BY <1>1, <1>2, <1>4 DEF Inv, LogNumbered, ConfirmedIsHeld, Unseen, AppliedIsAtHand,
                          ResolvedIsSettled, Resolved, Rests
<1>8. NoGap'
  BY <1>1, <1>2 DEF NoGap, SameStore
<1>9. QED
  BY <1>6, <1>7, <1>8 DEF Inv

LEMMA CrashAfterIdentityInv ==
  ASSUME Inv, CrashAfterIdentity
  PROVE  Inv'
<1>1. /\ Rests(sync') /\ UNCHANGED <<log, config, backend, mine, nextId>>
      /\ UNCHANGED <<rows, dead, cursor, settled>>
      /\ DOMAIN inbox' = {} /\ outbox' = Requeued /\ backendSeen' = backend /\ TornReset
  BY RestartRests DEF CrashAfterIdentity, Drop
<1>2. backend # 0 /\ backend \in Nat
  BY WhileResetting DEF CrashAfterIdentity
<1>3. /\ DOMAIN outbox' = DOMAIN outbox /\ Confirmed' = {}
      /\ \A e \in DOMAIN outbox' : outbox'[e] \in [key : Keys, synced : BOOLEAN]
  BY <1>1, RequeuedFlags DEF Inv
<1>4. TypeOK'
  BY <1>1, <1>2, <1>3 DEF Inv, TypeOK, Rests, SyncType
<1>5. LogNumbered' /\ ConfirmedIsHeld' /\ Unseen' /\ AppliedIsAtHand' /\ ResolvedIsSettled'
  BY <1>1, <1>2, <1>3 DEF Inv, LogNumbered, ConfirmedIsHeld, Unseen, AppliedIsAtHand,
                          ResolvedIsSettled, Resolved, Rests
<1>6. NoGap'
  BY <1>1 DEF NoGap
<1>7. QED
  BY <1>4, <1>5, <1>6 DEF Inv

-----------------------------------------------------------------------------
(* Pages.                                                                  *)

(* The server's answer is in order and, up to its last event, whole.       *)
LEMMA AfterIs ==
  ASSUME LogNumbered, NEW since \in Nat, NEW q, q = After(since)
  PROVE  /\ q \in Seq(DOMAIN log)
         /\ \A i \in DOMAIN q : log[q[i]].pos > since
         /\ \A i, j \in DOMAIN q : i < j => log[q[i]].pos < log[q[j]].pos
         /\ q # <<>> =>
              \A e \in DOMAIN log : since < log[e].pos /\ log[e].pos <= log[q[Len(q)]].pos
                                      => \E i \in DOMAIN q : q[i] = e
<1> DEFINE S == {e \in DOMAIN log : log[e].pos > since}
           n == Cardinality(S)
           before == {pair \in S \X S : log[pair[1]].pos <= log[pair[2]].pos}
           Sorted(r) == \A i, j \in 1..n : i < j => r[i] # r[j] /\ log[r[i]].pos <= log[r[j]].pos
           all == CHOOSE r \in [1..n -> S] : Sorted(r)
           sizes == {m \in 0..PageSize : m <= Len(all)}
           k == Greatest(sizes)
<1>1. /\ IsFiniteSet(DOMAIN log) /\ S \in SUBSET DOMAIN log
      /\ \A e \in DOMAIN log : log[e].pos \in Nat
      /\ \A e, f \in DOMAIN log : log[e].pos = log[f].pos => e = f
  BY LogFinite DEF LogNumbered, Numbered, Ids
<1>2. IsFiniteSet(S) /\ n \in Nat
  <2>1. IsFiniteSet(S)
    BY <1>1, FS_Subset
  <2>2. QED
    BY <2>1, FS_CardinalityType
<1>3. \A e, f \in S : <<e, f>> \in before <=> log[e].pos <= log[f].pos
  OBVIOUS
<1>4. TotalOrder(S, before)
  <2> HIDE DEF before
  <2>1. \A e \in S : log[e].pos \in Int
    BY <1>1
  <2>2. \A e, f \in S : log[e].pos = log[f].pos => e = f
    BY <1>1
  <2> HIDE DEF S
  <2>3. QED
    BY <1>3, <2>1, <2>2 DEF TotalOrder
<1>5. \E r \in [1..n -> S] : Sorted(r)
  <2>1. PICK r \in [1..n -> S] : \A i, j \in 1..n : i < j => r[i] # r[j] /\ <<r[i], r[j]>> \in before
    BY <1>2, <1>4, ListExists
  <2> HIDE DEF before, S, n
  <2>2. Sorted(r)
    BY <1>3, <2>1
  <2>3. QED
    BY <2>2
<1>6. q = SubSeq(all, 1, k)
  BY DEF After, InOrder
<1> HIDE DEF before
<1>7. all \in [1..n -> S] /\ Sorted(all)
  BY <1>5
<1> HIDE DEF all
<1>8. all \in Seq(S) /\ Len(all) = n
  <2> HIDE DEF S, n
  <2>1. all \in Seq(S)
    BY <1>2, <1>7
  <2>2. QED
    BY <1>2, <1>7, <2>1
<1>9. k \in 0..n
  <2>1. sizes \subseteq 0..PageSize /\ 0 \in sizes /\ PageSize \in Nat
    BY <1>2, <1>8, PullAssumption
  <2> HIDE DEF sizes, n
  <2>2. k \in sizes
    BY <2>1, GreatestOf
  <2>3. QED
    BY <1>2, <1>8, <2>1, <2>2 DEF sizes
<1> HIDE DEF k
<1>10. /\ q \in Seq(S) /\ Len(q) = k /\ DOMAIN q = 1..k
       /\ \A i \in 1..k : q[i] = all[i]
  <2> HIDE DEF S, n
  <2>1. k \in Int /\ 1 \in Int /\ \A i \in 1..k : all[i] \in S
    BY <1>2, <1>7, <1>9
  <2>2. q \in Seq(S) /\ Len(q) = IF 1 <= k THEN k - 1 + 1 ELSE 0
    BY <1>6, <2>1, SubSeqProperties
  <2>3. \A i \in 1..k - 1 + 1 : q[i] = all[1 + i - 1]
    BY <1>6, <2>1, SubSeqProperties
  <2>4. Len(q) = k /\ \A i \in 1..k : q[i] = all[i]
    BY <1>2, <1>9, <2>1, <2>2, <2>3
  <2>5. QED
    BY <2>2, <2>4, LenProperties
<1>11. q \in Seq(DOMAIN log) /\ \A i \in DOMAIN q : log[q[i]].pos > since
  <2>1. \A i \in 1..k : q[i] \in S
    BY <1>2, <1>7, <1>9, <1>10
  <2>2. QED
    BY <1>1, <1>10, <2>1, SeqMonotonic
<1>12. \A i, j \in 1..n : i < j => log[all[i]].pos < log[all[j]].pos
  <2> SUFFICES ASSUME NEW i \in 1..n, NEW j \in 1..n, i < j PROVE log[all[i]].pos < log[all[j]].pos
    OBVIOUS
  <2>1. all[i] \in DOMAIN log /\ all[j] \in DOMAIN log
    BY <1>7
  <2>2. all[i] # all[j] /\ log[all[i]].pos <= log[all[j]].pos
    BY <1>7
  <2>3. QED
    BY <1>1, <2>1, <2>2
<1>13. \A i, j \in DOMAIN q : i < j => log[q[i]].pos < log[q[j]].pos
  BY <1>2, <1>9, <1>10, <1>12
<1>14. ASSUME q # <<>>, NEW e \in DOMAIN log, since < log[e].pos, log[e].pos <= log[q[Len(q)]].pos
       PROVE  \E i \in DOMAIN q : q[i] = e
  <2>1. k \in 1..n
    BY <1>2, <1>9, <1>10, <1>14, EmptySeq
  <2>2. e \in S
    BY <1>1, <1>14
  <2>3. PICK i \in 1..n : all[i] = e
    <3>1. \A i, j \in 1..n : i < j => all[i] # all[j]
      BY <1>7
    <3> HIDE DEF S, Sorted
    <3>2. QED
      BY <1>2, <1>7, <2>2, <3>1, ListIsFull
  <2>4. ASSUME k < i PROVE FALSE
    <3>1. log[all[k]].pos < log[all[i]].pos
      BY <1>12, <2>1, <2>3, <2>4
    <3>2. log[e].pos <= log[all[k]].pos
      BY <1>10, <1>14, <2>1
    <3>3. log[all[k]].pos \in Nat /\ log[e].pos \in Nat
      BY <1>1, <1>7, <2>1
    <3>4. QED
      BY <2>3, <3>1, <3>2, <3>3
  <2>5. i \in 1..k
    BY <1>2, <2>1, <2>3, <2>4
  <2>6. QED
    BY <1>10, <2>3, <2>5
<1>15. QED
  BY <1>11, <1>13, <1>14

LEMMA PageIs ==
  ASSUME Inv
  PROVE  /\ Page \in Seq(Items) /\ DOMAIN Page = 1..Len(Page)
         /\ \A i \in DOMAIN Page : /\ Page[i].eid \in DOMAIN log
                                   /\ Page[i].key = log[Page[i].eid].key
                                   /\ Page[i].pos = log[Page[i].eid].pos
                                   /\ Page[i].pos > sync.since
         /\ \A i, j \in DOMAIN Page : i < j => Page[i].pos < Page[j].pos
         /\ Page # <<>> =>
              /\ Len(Page) \in DOMAIN Page
              /\ \A e \in DOMAIN log : sync.since < log[e].pos /\ log[e].pos <= Page[Len(Page)].pos
                                         => e \in Listed(Page)
<1> DEFINE q == After(sync.since)
           n == Len(q)
<1>1. LogNumbered /\ sync.since \in Nat
  BY Positions DEF Inv
<1>2. /\ q \in Seq(DOMAIN log)
      /\ \A i \in DOMAIN q : log[q[i]].pos > sync.since
      /\ \A i, j \in DOMAIN q : i < j => log[q[i]].pos < log[q[j]].pos
      /\ q # <<>> =>
           \A e \in DOMAIN log : sync.since < log[e].pos /\ log[e].pos <= log[q[Len(q)]].pos
                                   => \E i \in DOMAIN q : q[i] = e
  BY <1>1, AfterIs
<1> HIDE DEF q
<1>3. n \in Nat /\ DOMAIN q = 1..n /\ \A i \in 1..n : q[i] \in DOMAIN log
  BY <1>2, LenProperties
<1>4. \A e \in DOMAIN log : /\ Event(e) \in Items /\ Event(e).eid = e
                           /\ Event(e).key = log[e].key /\ Event(e).pos = log[e].pos
  BY <1>1, LogFinite DEF Event, Items, LogNumbered, Numbered
<1>5. Page = [i \in 1..n |-> Event(q[i])]
  BY DEF Page, q
<1>6. \A i \in 1..n : /\ Page[i] \in Items /\ Page[i].eid = q[i]
                      /\ Page[i].key = log[q[i]].key /\ Page[i].pos = log[q[i]].pos
  BY <1>3, <1>4, <1>5
<1> HIDE DEF n
<1>7. Page \in Seq(Items) /\ Len(Page) = n /\ DOMAIN Page = 1..n
  <2>1. Page \in [1..n -> Items]
    BY <1>5, <1>6
  <2>2. Page \in Seq(Items)
    BY <1>3, <2>1, SeqDef
  <2>3. DOMAIN Page = 1..n /\ DOMAIN Page = 1..Len(Page) /\ Len(Page) \in Nat
    BY <2>1, <2>2, LenProperties
  <2>4. Len(Page) = n
    BY <1>3, <2>3
  <2>5. QED
    BY <2>2, <2>3, <2>4
<1>8. ASSUME Page # <<>>
      PROVE  /\ n \in 1..n
             /\ \A e \in DOMAIN log : sync.since < log[e].pos /\ log[e].pos <= Page[n].pos
                                        => e \in Listed(Page)
  <2>1. n # 0
    BY <1>7, <1>8, EmptySeq
  <2>2. n \in 1..n
    BY <1>3, <2>1
  <2>3. q # <<>>
    BY <2>1, EmptySeq DEF n
  <2>4. ASSUME NEW e \in DOMAIN log, sync.since < log[e].pos, log[e].pos <= Page[n].pos
        PROVE  e \in Listed(Page)
    <3>1. log[e].pos <= log[q[Len(q)]].pos
      BY <1>6, <2>2, <2>4 DEF n
    <3>2. PICK i \in 1..n : q[i] = e
      BY <1>2, <1>3, <2>3, <2>4, <3>1
    <3>3. QED
      BY <1>6, <1>7, <3>2 DEF Listed
  <2>5. QED
    BY <2>2, <2>4
<1>9. QED
  BY <1>2, <1>3, <1>6, <1>7, <1>8

(* A sync that ends its pull has nothing in hand.                          *)
LEMMA AfterPullType ==
  ASSUME Inv, sync.applied = NoEvent, NEW b \in BOOLEAN
  PROVE  /\ AfterPull(b) \in SyncType /\ AfterPull(b).phase \in {"idle", "push", "load", "repush"}
         /\ AfterPull(b).work = <<>> /\ AfterPull(b).applied = NoEvent
<1>1. sync \in SyncType /\ <<>> \in Seq(Items)
  BY DEF Inv, TypeOK, SyncType
<1>2. CASE b
  BY <1>1, <1>2 DEF AfterPull, SyncType, Phases
<1>3. CASE ~b
  BY <1>3, AfterPushRests DEF AfterPull, Rests
<1>4. QED
  BY <1>2, <1>3

LEMMA FetchPageInv ==
  ASSUME Inv, FetchPage
  PROVE  Inv'
<1>1. /\ UNCHANGED <<log, config, backend, mine, rows, outbox, inbox, dead, cursor, settled, nextId>>
      /\ sync.phase = "ask"
      /\ backendSeen' = IF backendSeen = 0 THEN backend ELSE backendSeen
      /\ sync' = IF Page = <<>> THEN AfterPull(sync.requeued)
                 ELSE [sync EXCEPT !.phase = "page", !.unchecked = FALSE, !.work = Page,
                         !.top = Page[Len(Page)].pos, !.more = Len(Page) = PageSize]
  BY DEF FetchPage, outside
<1>2. /\ sync \in SyncType /\ sync.applied = NoEvent /\ sync.requeued \in BOOLEAN
      /\ backend \in Nat /\ backend # 0 /\ backendSeen \in 0..backend
  BY <1>1 DEF Inv, TypeOK, SyncType, AppliedIsAtHand, Unseen
<1>3. \/ /\ sync' \in SyncType /\ sync'.phase \in {"idle", "push", "load", "repush"}
         /\ sync'.work = <<>> /\ sync'.applied = NoEvent
      \/ /\ Page # <<>> /\ sync' \in SyncType /\ sync'.phase = "page" /\ sync'.work = Page
         /\ sync'.top = Page[Len(Page)].pos /\ sync'.applied = NoEvent
  <2>1. CASE Page = <<>>
    BY <1>1, <1>2, <2>1, AfterPullType
  <2>2. CASE Page # <<>>
    <3>1. Page \in Seq(Items) /\ Len(Page) \in DOMAIN Page /\ DOMAIN Page = 1..Len(Page)
      BY <2>2, PageIs
    <3>2. Page[Len(Page)] \in Items
      BY <3>1, ElementOfSeq
    <3>3. Page[Len(Page)].pos \in 0..MaxEvents /\ (Len(Page) = PageSize) \in BOOLEAN
      BY <3>2, PullAssumption DEF Items, Ids
    <3>4. QED
      BY <1>1, <1>2, <2>2, <3>1, <3>3 DEF SyncType, Phases
  <2>3. QED
    BY <2>1, <2>2
<1>4. backendSeen' \in 0..backend /\ backendSeen' # 0
  BY <1>1, <1>2
<1>5. TypeOK'
  BY <1>1, <1>3, <1>4 DEF Inv, TypeOK, SyncType
<1>6. LogNumbered' /\ ConfirmedIsHeld' /\ Unseen' /\ AppliedIsAtHand' /\ ResolvedIsSettled'
  BY <1>1, <1>2, <1>3, <1>4 DEF Inv, LogNumbered, ConfirmedIsHeld, Confirmed, Unsent, Unseen,
                                AppliedIsAtHand, ResolvedIsSettled, Resolved
<1>7. NoGap'
  <2> SUFFICES ASSUME ~TornReset, SameStore' PROVE NoGap'
    BY DEF NoGap
  <2>1. /\ Cardinality(DOMAIN log) \in Nat /\ sync.since \in Nat
        /\ \A e \in DOMAIN log : log[e].pos \in Ids /\ log[e].pos \in Nat
                                 /\ log[e].pos <= Cardinality(DOMAIN log)
    BY LogFinite, Positions DEF Inv, LogNumbered, Numbered, Ids
  <2>2. /\ Reached(cursor) /\ Reached(sync.since)
        /\ \A e \in DOMAIN inbox : Reached(inbox[e].pos)
    <3>1. CASE backendSeen = 0
      <4>1. cursor = 0 /\ sync.since = 0 /\ DOMAIN inbox = {}
        BY <3>1 DEF Inv, Unseen
      <4>2. Reached(0)
        BY <2>1 DEF Reached, Ids
      <4>3. QED
        BY <4>1, <4>2
    <3>2. CASE backendSeen # 0
      BY <1>1, <3>2 DEF Inv, NoGap, SameStore
    <3>3. QED
      BY <3>1, <3>2
  <2>3. Done' = Done
    BY <1>1 DEF Done
  <2>4. ASSUME sync'.phase = "page" PROVE PageCovers'
    <3>1. Page # <<>> /\ sync'.work = Page /\ sync'.top = Page[Len(Page)].pos
      BY <1>3, <2>4
    <3>2. /\ DOMAIN Page = 1..Len(Page) /\ Len(Page) \in DOMAIN Page
          /\ \A i \in DOMAIN Page : Page[i].eid \in DOMAIN log /\ Page[i].pos = log[Page[i].eid].pos
          /\ \A i, j \in DOMAIN Page : i < j => Page[i].pos < Page[j].pos
          /\ \A e \in DOMAIN log : sync.since < log[e].pos /\ log[e].pos <= Page[Len(Page)].pos
                                     => e \in Listed(Page)
      BY <3>1, PageIs
    <3>3. \A i \in DOMAIN Page : Page[i].pos \in Nat
      BY <2>1, <3>2
    <3>4. \A i \in DOMAIN Page : Page[i].pos <= Page[Len(Page)].pos
      <4>1. SUFFICES ASSUME NEW i \in DOMAIN Page PROVE Page[i].pos <= Page[Len(Page)].pos
        OBVIOUS
      <4>2. i = Len(Page) \/ i < Len(Page)
        BY <3>2
      <4>3. QED
        BY <3>2, <3>3, <4>2
    <3>5. Page[Len(Page)].pos <= Cardinality(DOMAIN log)
      BY <2>1, <3>2
    <3>6. \A e \in DOMAIN log : log[e].pos <= Page[Len(Page)].pos => e \in Done \cup Listed(Page)
      BY <2>1, <2>2, <3>2 DEF Reached
    <3>7. QED
      BY <1>1, <2>3, <3>1, <3>2, <3>4, <3>5, <3>6 DEF PageCovers
  <2>5. sync'.phase \notin {"ask", "pending"}
    BY <1>3
  <2>6. QED
    BY <1>1, <2>2, <2>3, <2>4, <2>5 DEF NoGap, Reached
<1>8. QED
  BY <1>5, <1>6, <1>7 DEF Inv

LEMMA FinishPageInv ==
  ASSUME Inv, FinishPage
  PROVE  Inv'
<1>1. /\ UNCHANGED <<log, config, backend, mine, rows, outbox, inbox, dead, backendSeen, settled, nextId>>
      /\ sync.phase = "page" /\ sync.work = <<>> /\ cursor' = sync.top
      /\ sync' = IF sync.more THEN [sync EXCEPT !.phase = "ask", !.since = sync.top]
                 ELSE AfterPull(sync.requeued)
  BY DEF FinishPage, outside
<1>2. /\ sync \in SyncType /\ sync.applied = NoEvent /\ sync.requeued \in BOOLEAN
      /\ sync.top \in Nat /\ sync.top \in 0..MaxEvents /\ backendSeen # 0
  BY <1>1, PullAssumption DEF Inv, TypeOK, SyncType, AppliedIsAtHand, Unseen
<1>3. /\ sync' \in SyncType /\ sync'.work = <<>> /\ sync'.applied = NoEvent
      /\ \/ sync'.phase \in {"idle", "push", "load", "repush"}
         \/ sync'.phase = "ask" /\ sync'.since = sync.top
  <2>1. CASE sync.more
    BY <1>1, <1>2, <2>1 DEF SyncType, Phases
  <2>2. CASE ~sync.more
    BY <1>1, <1>2, <2>2, AfterPullType
  <2>3. QED
    BY <2>1, <2>2
<1>4. TypeOK'
  BY <1>1, <1>2, <1>3 DEF Inv, TypeOK, SyncType
<1>5. LogNumbered' /\ ConfirmedIsHeld' /\ Unseen' /\ AppliedIsAtHand' /\ ResolvedIsSettled'
  BY <1>1, <1>2, <1>3 DEF Inv, LogNumbered, ConfirmedIsHeld, Confirmed, Unsent, Unseen,
                          AppliedIsAtHand, ResolvedIsSettled, Resolved
<1>6. NoGap'
  <2> SUFFICES ASSUME ~TornReset, SameStore' PROVE NoGap'
    BY DEF NoGap
  <2>1. SameStore /\ Done' = Done
    BY <1>1 DEF SameStore, Done
  <2>2. PageCovers /\ \A e \in DOMAIN inbox : Reached(inbox[e].pos)
    BY <1>1, <2>1 DEF Inv, NoGap
  <2>3. Reached(sync.top)
    <3>1. Listed(sync.work) = {}
      BY <1>1 DEF Listed
    <3>2. QED
      BY <2>2, <3>1 DEF PageCovers, Reached
  <2>4. QED
    BY <1>1, <1>3, <2>1, <2>2, <2>3 DEF NoGap, Reached
<1>7. QED
  BY <1>4, <1>5, <1>6 DEF Inv

-----------------------------------------------------------------------------
(* The pending rows of the inbox.                                          *)

LEMMA PendingWorkIs ==
  ASSUME TypeOK
  PROVE  /\ PendingWork \in Seq(Items)
         /\ \A i \in DOMAIN PendingWork : \E e \in DOMAIN inbox : PendingWork[i].pos = inbox[e].pos
         /\ \A i \in DOMAIN PendingWork :
              LET e == PendingWork[i].eid
              IN  e \in Pending /\ PendingWork[i].key = inbox[e].key /\ PendingWork[i].pos = inbox[e].pos
         /\ \A i, j \in DOMAIN PendingWork :
              i < j => /\ PendingWork[i].eid # PendingWork[j].eid
                       /\ PendingWork[i].pos <= PendingWork[j].pos
         /\ DOMAIN inbox = {} => PendingWork = <<>>
<1> DEFINE S == Pending
           n == Cardinality(S)
           before == {pair \in S \X S : \/ inbox[pair[1]].pos < inbox[pair[2]].pos
                                        \/ inbox[pair[1]].pos = inbox[pair[2]].pos /\ pair[1] <= pair[2]}
           Sorted(r) == \A i, j \in 1..n : i < j => r[i] # r[j] /\ inbox[r[i]].pos <= inbox[r[j]].pos
           all == CHOOSE r \in [1..n -> S] : Sorted(r)
<1>1. /\ S \in SUBSET DOMAIN inbox /\ S \in SUBSET Ids /\ MaxEvents \in Nat
      /\ \A e \in S : inbox[e].pos \in Ids /\ inbox[e].key \in Keys
  BY PullAssumption DEF TypeOK, Pending
<1>2. IsFiniteSet(S) /\ n \in Nat
  <2>1. IsFiniteSet(Ids)
    BY <1>1, FS_Interval DEF Ids
  <2>2. IsFiniteSet(S)
    BY <1>1, <2>1, FS_Subset
  <2>3. QED
    BY <2>2, FS_CardinalityType
<1> HIDE DEF S
<1>3. \A e, f \in S : <<e, f>> \in before
        <=> \/ inbox[e].pos < inbox[f].pos
            \/ inbox[e].pos = inbox[f].pos /\ e <= f
  OBVIOUS
<1> HIDE DEF before
<1>4. \A e \in S : e \in Int /\ inbox[e].pos \in Int
  BY <1>1 DEF Ids
<1>5. TotalOrder(S, before)
  BY <1>3, <1>4 DEF TotalOrder
<1>6. \E r \in [1..n -> S] : Sorted(r)
  <2>1. PICK r \in [1..n -> S] : \A i, j \in 1..n : i < j => r[i] # r[j] /\ <<r[i], r[j]>> \in before
    BY <1>2, <1>5, ListExists
  <2>2. \A e, f \in S : <<e, f>> \in before => inbox[e].pos <= inbox[f].pos
    BY <1>3, <1>4
  <2> HIDE DEF n
  <2>3. Sorted(r)
    BY <2>1, <2>2
  <2>4. QED
    BY <2>3
<1>7. all \in [1..n -> S] /\ Sorted(all)
  BY <1>6
<1>8. PendingWork = [i \in 1..Len(all) |->
                       [eid |-> all[i], key |-> inbox[all[i]].key, pos |-> inbox[all[i]].pos]]
  BY DEF PendingWork, InOrder, S
<1> HIDE DEF all, n
<1>9. all \in Seq(S) /\ Len(all) = n
  <2>1. all \in Seq(S)
    BY <1>2, <1>7, SeqDef
  <2>2. QED
    BY <1>2, <1>7, <2>1
<1>10. /\ PendingWork \in [1..n -> Items]
       /\ \A i \in 1..n : /\ PendingWork[i].pos = inbox[all[i]].pos /\ all[i] \in S
                          /\ PendingWork[i].eid = all[i] /\ PendingWork[i].key = inbox[all[i]].key
  BY <1>1, <1>7, <1>8, <1>9 DEF Items
<1>11. PendingWork \in Seq(Items)
  BY <1>2, <1>10, SeqDef
<1>12. \A i \in DOMAIN PendingWork : \E e \in DOMAIN inbox : PendingWork[i].pos = inbox[e].pos
  BY <1>1, <1>7, <1>10
<1>13. ASSUME DOMAIN inbox = {} PROVE PendingWork = <<>>
  <2>1. n = 0
    BY <1>1, <1>13, FS_EmptySet DEF n
  <2>2. DOMAIN PendingWork = {}
    BY <1>10, <2>1
  <2>3. Len(PendingWork) = 0
    BY <1>11, <2>2, LenProperties
  <2>4. QED
    BY <1>11, <2>3, EmptySeq
<1>14. \A i \in DOMAIN PendingWork :
         LET e == PendingWork[i].eid
         IN  e \in Pending /\ PendingWork[i].key = inbox[e].key /\ PendingWork[i].pos = inbox[e].pos
  BY <1>10 DEF S
<1>15. \A i, j \in DOMAIN PendingWork :
         i < j => /\ PendingWork[i].eid # PendingWork[j].eid
                  /\ PendingWork[i].pos <= PendingWork[j].pos
  BY <1>7, <1>10
<1>16. QED
  BY <1>11, <1>12, <1>13, <1>14, <1>15

LEMMA LoadPendingInv ==
  ASSUME Inv, LoadPending
  PROVE  Inv'
<1>1. /\ UNCHANGED <<log, config, backend, mine, nextId, device>>
      /\ sync.phase = "load" /\ sync' = [sync EXCEPT !.phase = "pending", !.work = PendingWork]
  BY DEF LoadPending, outside
<1>2. PendingWork \in Seq(Items)
  BY PendingWorkIs DEF Inv
<1>3. /\ sync' \in SyncType /\ sync'.phase = "pending" /\ sync'.work = PendingWork
      /\ sync'.applied = NoEvent /\ sync'.since = sync.since /\ sync'.unchecked = sync.unchecked
  BY <1>1, <1>2 DEF Inv, TypeOK, SyncType, Phases, AppliedIsAtHand
<1> USE DEF device
<1>4. TypeOK'
  BY <1>1, <1>3 DEF Inv, TypeOK, SyncType
<1>5. LogNumbered' /\ ConfirmedIsHeld' /\ AppliedIsAtHand' /\ ResolvedIsSettled'
  BY <1>1, <1>3 DEF Inv, LogNumbered, ConfirmedIsHeld, Confirmed, Unsent, AppliedIsAtHand,
                    ResolvedIsSettled, Resolved
<1>6. Unseen'
  BY <1>1, <1>3, PendingWorkIs DEF Inv, Unseen
<1>7. NoGap'
  <2> SUFFICES ASSUME ~TornReset, SameStore' PROVE NoGap'
    BY DEF NoGap
  <2>1. /\ SameStore /\ Done' = Done
        /\ \A i \in DOMAIN PendingWork : \E e \in DOMAIN inbox : PendingWork[i].pos = inbox[e].pos
    BY <1>1, PendingWorkIs DEF Inv, SameStore, Done
  <2>2. Reached(cursor) /\ \A e \in DOMAIN inbox : Reached(inbox[e].pos)
    BY <2>1 DEF Inv, NoGap
  <2>3. \A i \in DOMAIN PendingWork : Reached(PendingWork[i].pos)
    BY <2>1, <2>2
  <2>4. (\A i \in DOMAIN sync.work : Reached(sync.work[i].pos))'
    BY <1>1, <1>3, <2>1, <2>3 DEF Reached
  <2>5. QED
    BY <1>1, <1>3, <2>1, <2>2, <2>4 DEF NoGap, Reached
<1>8. QED
  BY <1>4, <1>5, <1>6, <1>7 DEF Inv

-----------------------------------------------------------------------------
(* One event of a page, or one pending row.                                *)

InboxRow == [key : Keys, pos : Ids, sync : BOOLEAN, attempts : Nat]

LEMMA AtHand ==
  ASSUME TypeOK, sync.work # <<>>
  PROVE  /\ Item \in Items /\ Item.eid \in Ids /\ Item.key \in Keys /\ Item.pos \in Ids
         /\ 1 \in DOMAIN sync.work /\ sync.work[1] = Item
         /\ Tail(sync.work) \in Seq(Items)
         /\ \A i \in DOMAIN Tail(sync.work) : /\ i + 1 \in DOMAIN sync.work
                                             /\ Tail(sync.work)[i] = sync.work[i + 1]
         /\ \A i \in DOMAIN sync.work \ {1} : /\ i - 1 \in DOMAIN Tail(sync.work)
                                             /\ Tail(sync.work)[i - 1] = sync.work[i]
         /\ DOMAIN sync.work \subseteq Nat \ {0} /\ DOMAIN Tail(sync.work) \subseteq Nat
<1> DEFINE w == sync.work
<1>1. w \in Seq(Items) /\ w # <<>>
  BY DEF TypeOK
<1> HIDE DEF w
<1>2. /\ Len(w) \in Nat \ {0} /\ DOMAIN w = 1..Len(w) /\ Head(w) \in Items
      /\ Tail(w) \in Seq(Items) /\ Len(Tail(w)) = Len(w) - 1
      /\ DOMAIN Tail(w) = 1..Len(Tail(w))
      /\ \A i \in 1..Len(Tail(w)) : Tail(w)[i] = w[i + 1]
  BY <1>1, LenProperties, EmptySeq, HeadTailProperties
<1>3. Head(w) = w[1]
  BY <1>1
<1>4. Item = Head(w)
  BY DEF Item, w
<1>5. /\ 1 \in DOMAIN w
      /\ \A i \in DOMAIN Tail(w) : i + 1 \in DOMAIN w /\ Tail(w)[i] = w[i + 1]
      /\ \A i \in DOMAIN w \ {1} : i - 1 \in DOMAIN Tail(w) /\ Tail(w)[i - 1] = w[i]
      /\ DOMAIN w \subseteq Nat \ {0} /\ DOMAIN Tail(w) \subseteq Nat
  BY <1>2
<1>6. QED
  BY <1>2, <1>3, <1>4, <1>5 DEF w, Items

LEMMA MarkType ==
  ASSUME TypeOK, sync.work # <<>>, NEW b \in BOOLEAN, NEW n \in Nat, Mark(b, n)
  PROVE  \E row \in InboxRow : /\ inbox' = Put(inbox, Item.eid, row)
                               /\ row.pos = Item.pos /\ row.sync = b
<1> DEFINE row == [key |-> Item.key, pos |-> Item.pos, sync |-> b, attempts |-> n]
<1>1. row \in InboxRow /\ row.pos = Item.pos /\ row.sync = b
  BY AtHand DEF InboxRow
<1>2. inbox' = Put(inbox, Item.eid, row)
  BY DEF Mark
<1>3. QED
  BY <1>1, <1>2

LEMMA AttemptsType ==
  ASSUME TypeOK
  PROVE  Attempts \in Nat
BY DEF TypeOK, Attempts

(* What an event may do to the device, whatever becomes of it: its inbox   *)
(* row is written or left, and it leaves the list, stays to be marked, or  *)
(* the sync ends; it is accounted for.                                     *)
Ends(s) == /\ s \in SyncType /\ s.phase \in {"idle", "push", "load", "repush"}
           /\ s.work = <<>> /\ s.applied = NoEvent

InboxMarked ==
  \/ inbox' = inbox
  \/ \E row \in InboxRow : /\ inbox' = Put(inbox, Item.eid, row)
                           /\ row.pos = Item.pos
                           /\ row.sync => Item.eid \in settled' \cup mine

LEMMA InboxMarkedType ==
  ASSUME TypeOK, sync.work # <<>>, InboxMarked
  PROVE  /\ DOMAIN inbox \subseteq DOMAIN inbox'
         /\ DOMAIN inbox' \subseteq DOMAIN inbox \cup {Item.eid} /\ DOMAIN inbox' \subseteq Ids
         /\ \A e \in DOMAIN inbox' :
              /\ inbox'[e] \in InboxRow
              /\ \/ e \in DOMAIN inbox /\ inbox'[e] = inbox[e]
                 \/ /\ e = Item.eid /\ inbox'[e].pos = Item.pos
                    /\ inbox'[e].sync => Item.eid \in settled' \cup mine
<1>1. Item.eid \in Ids /\ DOMAIN inbox \subseteq Ids /\ \A e \in DOMAIN inbox : inbox[e] \in InboxRow
  BY AtHand DEF TypeOK, InboxRow
<1>2. CASE inbox' = inbox
  BY <1>1, <1>2
<1>3. CASE inbox' # inbox
  <2>1. PICK row \in InboxRow : /\ inbox' = Put(inbox, Item.eid, row) /\ row.pos = Item.pos
                                /\ row.sync => Item.eid \in settled' \cup mine
    BY <1>3 DEF InboxMarked
  <2>2. /\ DOMAIN inbox' = DOMAIN inbox \cup {Item.eid}
        /\ \A e \in DOMAIN inbox' : inbox'[e] = IF e = Item.eid THEN row ELSE inbox[e]
    BY <2>1 DEF Put
  <2>3. QED
    BY <1>1, <2>1, <2>2
<1>4. QED
  BY <1>2, <1>3

LEMMA ItemInv ==
  ASSUME Inv, sync.work # <<>>,
         UNCHANGED <<log, config, backend, mine, outbox, cursor, backendSeen, nextId>>,
         rows' \in [Keys -> Ids \cup {NoEvent}], dead' \subseteq Ids,
         settled \subseteq settled', settled' \subseteq Ids,
         InboxMarked, Item.eid \in Done',
         \/ sync' = NextItem
         \/ sync' = [sync EXCEPT !.applied = Item.eid]
         \/ Ends(sync')
  PROVE  Inv'
<1>1. /\ sync \in SyncType /\ TypeOK /\ sync.phase \in {"page", "pending"} /\ backendSeen # 0
  BY DEF Inv, TypeOK, SyncType, AppliedIsAtHand, Unseen
<1>2. /\ Item.eid \in Ids /\ Item.pos \in Ids /\ Tail(sync.work) \in Seq(Items)
      /\ 1 \in DOMAIN sync.work /\ sync.work[1] = Item
      /\ \A i \in DOMAIN Tail(sync.work) : i + 1 \in DOMAIN sync.work /\ Tail(sync.work)[i] = sync.work[i + 1]
      /\ \A i \in DOMAIN sync.work \ {1} : /\ i - 1 \in DOMAIN Tail(sync.work)
                                          /\ Tail(sync.work)[i - 1] = sync.work[i]
      /\ DOMAIN sync.work \subseteq Nat \ {0} /\ DOMAIN Tail(sync.work) \subseteq Nat
  BY <1>1, AtHand
<1>3. /\ sync' \in SyncType
      /\ \/ Ends(sync')
         \/ /\ sync'.phase = sync.phase /\ sync'.top = sync.top
            /\ \/ sync'.work = Tail(sync.work) /\ sync'.applied = NoEvent
               \/ sync'.work = sync.work /\ sync'.applied = Item.eid
  <2>1. CASE sync' = NextItem
    BY <1>1, <1>2, <2>1 DEF NextItem, SyncType
  <2>2. CASE sync' = [sync EXCEPT !.applied = Item.eid]
    BY <1>1, <1>2, <2>2 DEF SyncType
  <2>3. CASE Ends(sync')
    BY <2>3 DEF Ends
  <2>4. QED
    BY <2>1, <2>2, <2>3
<1>4. /\ DOMAIN inbox \subseteq DOMAIN inbox'
      /\ DOMAIN inbox' \subseteq DOMAIN inbox \cup {Item.eid} /\ DOMAIN inbox' \subseteq Ids
      /\ \A e \in DOMAIN inbox' :
           /\ inbox'[e] \in InboxRow
           /\ \/ e \in DOMAIN inbox /\ inbox'[e] = inbox[e]
              \/ /\ e = Item.eid /\ inbox'[e].pos = Item.pos
                 /\ inbox'[e].sync => Item.eid \in settled' \cup mine
  BY <1>1, InboxMarkedType
<1>5. TypeOK'
  BY <1>3, <1>4 DEF Inv, TypeOK, SyncType, InboxRow
<1>6. LogNumbered' /\ ConfirmedIsHeld' /\ Unseen'
  BY <1>1 DEF Inv, LogNumbered, ConfirmedIsHeld, Confirmed, Unsent, Unseen
<1>7. AppliedIsAtHand'
  BY <1>1, <1>3 DEF AppliedIsAtHand, Ends
<1>8. ResolvedIsSettled'
  BY <1>4 DEF Inv, ResolvedIsSettled, Resolved
<1>9. NoGap'
  <2> SUFFICES ASSUME ~TornReset, SameStore' PROVE NoGap'
    BY DEF NoGap
  <2>1. SameStore /\ Done \subseteq Done'
    BY <1>4 DEF SameStore, Done
  <2>2. \A p \in Nat : Reached(p) => Reached(p)'
    BY <2>1 DEF Reached
  <2>3. \A e \in DOMAIN log : log[e].pos \in Nat
    BY LogFinite DEF Inv, LogNumbered, Ids
  <2>4. Cardinality(DOMAIN log) \in Nat /\ Item.pos \in Nat /\ sync.top \in Nat
        /\ \A i \in DOMAIN sync.work : sync.work[i].pos \in Nat
    BY <1>1, <1>2, LogFinite, Positions DEF Inv, LogNumbered, Ids
  <2>5. PICK p \in Nat : p = Item.pos
    BY <2>4
  <2>6. Reached(p)'
    <3>1. CASE sync.phase = "pending"
      BY <1>2, <2>1, <2>2, <2>5, <3>1 DEF Inv, NoGap
    <3>2. CASE sync.phase = "page"
      <4>1. PageCovers
        BY <2>1, <3>2 DEF Inv, NoGap
      <4>2. p <= sync.top /\ sync.top <= Cardinality(DOMAIN log) /\ p <= Cardinality(DOMAIN log)
        BY <1>2, <2>4, <2>5, <4>1 DEF PageCovers
      <4>3. ASSUME NEW e \in DOMAIN log, log[e].pos <= p PROVE e \in Done'
        <5>1. log[e].pos <= sync.top
          BY <2>3, <2>4, <4>2, <4>3
        <5>2. CASE e \in Done
          BY <2>1, <5>2
        <5>3. CASE e \in Listed(sync.work)
          <6>1. PICK i \in DOMAIN sync.work : sync.work[i].eid = e
            BY <5>3 DEF Listed
          <6>2. log[e].pos = sync.work[i].pos
            BY <4>1, <6>1 DEF PageCovers
          <6>3. i = 1 \/ 1 < i
            BY <1>2
          <6>4. 1 < i => p < sync.work[i].pos
            BY <1>2, <2>5, <4>1 DEF PageCovers
          <6>5. i = 1
            BY <2>4, <4>3, <6>2, <6>3, <6>4
          <6>6. QED
            BY <1>2, <6>1, <6>5
        <5>4. QED
          BY <4>1, <5>1, <5>2, <5>3 DEF PageCovers
      <4>4. QED
        BY <4>2, <4>3 DEF Reached
    <3>3. QED
      BY <1>1, <3>1, <3>2
  <2>7. (Reached(cursor) /\ \A e \in DOMAIN inbox : Reached(inbox[e].pos))'
    <3>1. Reached(cursor)'
      BY <2>1, <2>2, Positions DEF Inv, NoGap, Reached
    <3>2. ASSUME NEW e \in DOMAIN inbox' PROVE Reached(inbox[e].pos)'
      <4>1. CASE e \in DOMAIN inbox /\ inbox'[e] = inbox[e]
        <5>1. Reached(inbox[e].pos) /\ inbox[e].pos \in Nat
          BY <2>1, <4>1, Positions DEF Inv, NoGap
        <5>2. QED
          BY <2>2, <4>1, <5>1 DEF Reached
      <4>2. CASE inbox'[e].pos = p
        BY <2>6, <4>2 DEF Reached
      <4>3. QED
        BY <1>4, <2>5, <4>1, <4>2
    <3>3. QED
      BY <3>1, <3>2
  <2>8. CASE Ends(sync')
    BY <2>7, <2>8 DEF NoGap, Ends
  <2>9. CASE sync'.work = sync.work /\ sync'.phase = sync.phase /\ sync'.top = sync.top
    <3>1. ASSUME sync.phase = "page" PROVE PageCovers'
      BY <2>1, <2>9, <3>1 DEF Inv, NoGap, PageCovers
    <3>2. ASSUME sync.phase = "pending"
          PROVE  (\A i \in DOMAIN sync.work : Reached(sync.work[i].pos))'
      BY <2>1, <2>2, <2>4, <2>9, <3>2 DEF Inv, NoGap, Reached
    <3>3. QED
      BY <1>1, <2>7, <2>9, <3>1, <3>2 DEF NoGap
  <2>10. CASE sync'.work = Tail(sync.work) /\ sync'.phase = sync.phase /\ sync'.top = sync.top
    <3>1. ASSUME sync.phase = "page" PROVE PageCovers'
      <4>1. PageCovers
        BY <2>1, <3>1 DEF Inv, NoGap
      <4>2. \A i \in DOMAIN sync'.work :
              /\ sync'.work[i].eid \in DOMAIN log
              /\ log[sync'.work[i].eid].pos = sync'.work[i].pos
              /\ sync'.work[i].pos <= sync'.top
        BY <1>2, <2>10, <4>1 DEF PageCovers
      <4>3. ASSUME NEW i \in DOMAIN sync'.work, NEW j \in DOMAIN sync'.work, i < j
            PROVE  sync'.work[i].pos < sync'.work[j].pos
        <5>1. /\ i \in Nat /\ i + 1 \in DOMAIN sync.work /\ sync'.work[i] = sync.work[i + 1]
              /\ j \in Nat /\ j + 1 \in DOMAIN sync.work /\ sync'.work[j] = sync.work[j + 1]
          BY <1>2, <2>10
        <5>2. i + 1 < j + 1
          BY <4>3, <5>1
        <5>3. QED
          BY <4>1, <5>1, <5>2 DEF PageCovers
      <4>4. Listed(sync.work) \subseteq Listed(sync'.work) \cup {Item.eid}
        <5> SUFFICES ASSUME NEW i \in DOMAIN sync.work, sync.work[i].eid # Item.eid
                     PROVE  sync.work[i].eid \in Listed(sync'.work)
          BY DEF Listed
        <5>1. i # 1
          BY <1>2
        <5>2. i - 1 \in DOMAIN sync'.work /\ sync'.work[i - 1] = sync.work[i]
          BY <1>2, <2>10, <5>1
        <5>3. QED
          BY <5>2 DEF Listed
      <4>5. \A e \in DOMAIN log : log[e].pos <= sync'.top => e \in Done' \cup Listed(sync'.work)
        BY <2>1, <2>10, <4>1, <4>4 DEF PageCovers
      <4>6. QED
        BY <2>10, <4>1, <4>2, <4>3, <4>5 DEF PageCovers
    <3>2. ASSUME sync.phase = "pending"
          PROVE  (\A i \in DOMAIN sync.work : Reached(sync.work[i].pos))'
      <4>1. \A i \in DOMAIN sync.work : Reached(sync.work[i].pos) /\ sync.work[i].pos \in Nat
        BY <2>1, <2>4, <3>2 DEF Inv, NoGap
      <4>2. \A i \in DOMAIN sync'.work : i + 1 \in DOMAIN sync.work /\ sync'.work[i] = sync.work[i + 1]
        BY <1>2, <2>10
      <4>3. QED
        BY <2>2, <4>1, <4>2 DEF Reached
    <3>3. QED
      BY <1>1, <2>7, <2>10, <3>1, <3>2 DEF NoGap
  <2>11. QED
    BY <1>3, <2>8, <2>9, <2>10
<1>10. QED
  BY <1>5, <1>6, <1>7, <1>8, <1>9 DEF Inv

LEMMA SkipOwnInv ==
  ASSUME Inv, SkipOwn
  PROVE  Inv'
<1>1. /\ sync.work # <<>> /\ Item.eid \in mine /\ sync' = NextItem
      /\ UNCHANGED <<log, config, backend, mine, rows, outbox, dead, cursor, backendSeen, settled, nextId>>
  BY DEF Inv, TypeOK, SkipOwn, AtItem, IsLocalOrigin, outside
<1>2. InboxMarked
  <2>1. CASE Mark(TRUE, Attempts)
    BY <1>1, <2>1, MarkType, AttemptsType DEF Inv, InboxMarked
  <2>2. CASE inbox' = inbox
    BY <2>2 DEF InboxMarked
  <2>3. QED
    BY <2>1, <2>2 DEF SkipOwn
<1>3. Item.eid \in Done'
  BY <1>1 DEF Done
<1>4. QED
  BY <1>1, <1>2, <1>3, ItemInv DEF Inv, TypeOK

LEMMA SkipResolvedInv ==
  ASSUME Inv, SkipResolved
  PROVE  Inv'
<1>1. /\ sync.work # <<>> /\ Item.eid \in DOMAIN inbox /\ sync' = NextItem
      /\ UNCHANGED <<log, config, backend, mine, rows, outbox, inbox, dead, cursor, backendSeen,
                     settled, nextId>>
  BY DEF SkipResolved, AtItem, Resolved, device, outside
<1>2. InboxMarked /\ Item.eid \in Done'
  BY <1>1 DEF InboxMarked, Done
<1>3. QED
  BY <1>1, <1>2, ItemInv DEF Inv, TypeOK

(* An event that is marked, resolved or not.                               *)
LEMMA MarkedInv ==
  ASSUME Inv, sync.work # <<>>, NEW b \in BOOLEAN, NEW n \in Nat, Mark(b, n), b => Settle,
         UNCHANGED <<log, config, backend, mine, outbox, cursor, backendSeen, nextId>>,
         rows' \in [Keys -> Ids \cup {NoEvent}], dead' \subseteq Ids,
         settled' = settled \/ Settle,
         \/ sync' = NextItem
         \/ sync' = [sync EXCEPT !.applied = Item.eid]
         \/ Ends(sync')
  PROVE  Inv'
<1>1. Item.eid \in Ids
  BY AtHand DEF Inv
<1>2. PICK row \in InboxRow : /\ inbox' = Put(inbox, Item.eid, row)
                              /\ row.pos = Item.pos /\ row.sync = b
  BY MarkType DEF Inv
<1>3. InboxMarked
  BY <1>2 DEF InboxMarked, Settle
<1>4. Item.eid \in DOMAIN inbox'
  BY <1>2 DEF Put
<1>5. Item.eid \in Done'
  BY <1>4 DEF Done
<1>6. settled \subseteq settled' /\ settled' \subseteq Ids
  BY <1>1 DEF Settle, Inv, TypeOK
<1>7. QED
  BY <1>3, <1>5, <1>6, ItemInv

LEMMA HaltEnds ==
  ASSUME Inv, sync.applied = NoEvent, Halt
  PROVE  Ends(sync')
<1>1. sync.requeued \in BOOLEAN
  BY DEF Inv, TypeOK
<1>2. QED
  BY <1>1, AfterPullType, AfterPushRests DEF Halt, Ends, Rests

LEMMA RestsEnds ==
  ASSUME NEW s, Rests(s)
  PROVE  Ends(s)
BY DEF Rests, Ends

LEMMA SkipUnknownInv ==
  ASSUME Inv, SkipUnknown
  PROVE  Inv'
<1>1. sync.work # <<>>
  BY DEF SkipUnknown, ToReplay, AtItem
<1>2. Attempts \in Nat
  BY AttemptsType DEF Inv
<1>3. QED
  BY <1>1, <1>2, MarkedInv DEF Inv, TypeOK, SkipUnknown, outside

LEMMA HaltAtUnknownInv ==
  ASSUME Inv, HaltAtUnknown
  PROVE  Inv'
<1>1. sync.work # <<>> /\ sync.applied = NoEvent
  BY DEF HaltAtUnknown, ToReplay, AtItem
<1>2. Attempts \in Nat
  BY AttemptsType DEF Inv
<1>3. Ends(sync')
  BY <1>1, HaltEnds DEF HaltAtUnknown
<1>4. QED
  BY <1>1, <1>2, <1>3, MarkedInv DEF Inv, TypeOK, HaltAtUnknown, outside

LEMMA ApplyInv ==
  ASSUME Inv, Apply
  PROVE  Inv'
<1>1. sync.work # <<>>
  BY DEF Apply, ToReplay, AtItem
<1>2. Attempts \in Nat /\ Item.eid \in Ids
  BY <1>1, AttemptsType, AtHand DEF Inv
<1>3. rows' \in [Keys -> Ids \cup {NoEvent}]
  BY <1>2 DEF Apply, Inv, TypeOK
<1>4. QED
  BY <1>1, <1>2, <1>3, MarkedInv DEF Inv, TypeOK, Apply, outside

LEMMA ResolveInv ==
  ASSUME Inv, Resolve
  PROVE  Inv'
<1>1. sync.work # <<>>
  BY DEF Inv, AppliedIsAtHand, Resolve
<1>2. Attempts \in Nat
  BY AttemptsType DEF Inv
<1>3. QED
  BY <1>1, <1>2, MarkedInv DEF Inv, TypeOK, Resolve, outside

LEMMA FailAndRetryInv ==
  ASSUME Inv, FailAndRetry
  PROVE  Inv'
<1>1. sync.work # <<>> /\ sync.applied = NoEvent
  BY DEF FailAndRetry, ReplayThrows, ToReplay, AtItem
<1>2. Attempts + 1 \in Nat
  BY AttemptsType DEF Inv
<1>3. Ends(sync')
  BY <1>1, HaltEnds DEF FailAndRetry
<1>4. QED
  BY <1>1, <1>2, <1>3, MarkedInv DEF Inv, TypeOK, FailAndRetry, outside

LEMMA FailAndParkInv ==
  ASSUME Inv, FailAndPark
  PROVE  Inv'
<1>1. sync.work # <<>>
  BY DEF FailAndPark, ReplayThrows, ToReplay, AtItem
<1>2. Attempts + 1 \in Nat /\ Item.eid \in Ids
  BY <1>1, AttemptsType, AtHand DEF Inv
<1>3. dead' \subseteq Ids
  BY <1>2 DEF FailAndPark, Inv, TypeOK
<1>4. QED
  BY <1>1, <1>2, <1>3, MarkedInv DEF Inv, TypeOK, FailAndPark, outside

LEMMA CrashBeforeApplyInv ==
  ASSUME Inv, CrashBeforeApply
  PROVE  Inv'
<1>1. sync.work # <<>> /\ Attempts \in Nat
  BY AttemptsType DEF CrashBeforeApply, ToReplay, AtItem, Inv
<1>2. Ends(sync') /\ UNCHANGED <<log, config, backend, mine, nextId>>
  BY RestartRests, RestsEnds DEF CrashBeforeApply
<1>3. QED
  BY <1>1, <1>2, MarkedInv DEF Inv, TypeOK, CrashBeforeApply

LEMMA CrashInParkInv ==
  ASSUME Inv, CrashInPark
  PROVE  Inv'
<1>1. sync.work # <<>> /\ Attempts + 1 \in Nat
  BY AttemptsType DEF CrashInPark, ReplayThrows, ToReplay, AtItem, Inv
<1>2. Ends(sync') /\ UNCHANGED <<log, config, backend, mine, nextId>>
  BY RestartRests, RestsEnds DEF CrashInPark
<1>3. dead' \subseteq Ids
  BY <1>1, AtHand DEF CrashInPark, Inv, TypeOK
<1>4. QED
  BY <1>1, <1>2, <1>3, MarkedInv DEF Inv, TypeOK, CrashInPark

-----------------------------------------------------------------------------
(* All steps.                                                              *)

LEMMA StutterInv ==
  ASSUME Inv, UNCHANGED vars
  PROVE  Inv'
<1> USE DEF vars
<1>1. TypeOK'
  BY DEF Inv, TypeOK
<1>2. LogNumbered' /\ ConfirmedIsHeld' /\ Unseen' /\ AppliedIsAtHand' /\ ResolvedIsSettled'
  BY DEF Inv, LogNumbered, ConfirmedIsHeld, Confirmed, Unsent, Unseen, AppliedIsAtHand,
         ResolvedIsSettled, Resolved
<1>3. NoGap'
  BY DEF Inv, NoGap, SameStore, Reached, Done, PageCovers
<1>4. QED
  BY <1>1, <1>2, <1>3 DEF Inv

LEMMA NextInv ==
  ASSUME Inv, [Next]_vars
  PROVE  Inv'
<1>1. CASE Others
  BY <1>1, EditInv, ForeignInv DEF Others
<1>2. CASE Replacing
  BY <1>2, SwapBackendInv DEF Replacing
<1>3. CASE Starting
  BY <1>3, StartReplayInv, StartSyncInv DEF Starting
<1>4. CASE Upload
  BY <1>4, UploadInv
<1>5. CASE Pulling
  BY <1>5, FetchPageInv, ResetCursorInv DEF Pulling
<1>6. CASE PullFails
  BY <1>6, PullFailsInv
<1>7. CASE Replaying
  <2>1. CASE Skipping
    BY <2>1, SkipOwnInv, SkipResolvedInv, SkipUnknownInv, HaltAtUnknownInv DEF Skipping
  <2>2. CASE Apply \/ Resolve
    BY <2>2, ApplyInv, ResolveInv
  <2>3. CASE Failing
    BY <2>3, FailAndRetryInv, FailAndParkInv DEF Failing
  <2>4. CASE Finishing
    BY <2>4, FinishPageInv, LoadPendingInv, FinishReplayInv DEF Finishing
  <2>5. QED
    BY <1>7, <2>1, <2>2, <2>3, <2>4 DEF Replaying
<1>8. CASE Pruning
  BY <1>8, PruneInv DEF Pruning
<1>9. CASE Crashing
  BY <1>9, CrashInv, CrashBeforeApplyInv, CrashInParkInv, CrashInResetInv, CrashAfterIdentityInv
     DEF Crashing
<1>10. CASE UNCHANGED vars
  BY <1>10, StutterInv
<1>11. QED
  BY <1>1, <1>2, <1>3, <1>4, <1>5, <1>6, <1>7, <1>8, <1>9, <1>10 DEF Next

-----------------------------------------------------------------------------
(* The invariant of the collection client's pull, for every configuration. *)
THEOREM Invariance == Spec => []Inv
<1>1. Init => Inv
  BY InitInv
<1>2. Inv /\ [Next]_vars => Inv'
  BY NextInv
<1>3. QED
  BY <1>1, <1>2, PTL DEF Spec

(* Every variable of the pull keeps its type: no page, inbox row or cursor *)
(* gets a value the handlers of pull.ts do not expect.                     *)
THEOREM TypeCorrect == Spec => []TypeOK
<1>1. Inv => TypeOK
  BY DEF Inv
<1>2. QED
  BY <1>1, Invariance, PTL

(* What the outbox takes for confirmed is held by the store the device     *)
(* talks to, through wiped and restored stores and crashes in a reset      *)
(* (resetPullCursor puts the flags back before it saves the identity).     *)
THEOREM ConfirmedIsSafe == Spec => []SyncedIsHeld
<1>1. Inv => SyncedIsHeld
  BY DEF Inv, ConfirmedIsHeld, Confirmed, SyncedIsHeld, SameStore
<1>2. QED
  BY <1>1, Invariance, PTL

(* Unless a crash comes between the last two writes of a reset, the cursor *)
(* steps over no foreign event, whatever fails, crashes, is pruned, rewound *)
(* or replaced.                                                            *)
THEOREM NothingIsMissed == ASSUME ~TornReset PROVE Spec => []NoEventMissed
<1>1. Inv => NoEventMissed
  <2> SUFFICES ASSUME Inv, SameStore, NEW e \in DOMAIN log \ mine, log[e].pos <= EffectiveCursor
               PROVE  e \in settled \cup DOMAIN inbox
    BY DEF NoEventMissed
  <2>1. Reached(EffectiveCursor)
    BY EffectiveReached
  <2>2. QED
    BY <2>1 DEF Reached, Done
<1>2. QED
  BY <1>1, Invariance, PTL

-----------------------------------------------------------------------------
(* Agreement.  On one store and with nothing given up, the device works    *)
(* through the log in its order, and a row shows the newest event of those *)
(* it has seen: its own and the settled ones.                              *)

Steady == swaps = 0 /\ dead = {}

Foreigners     == DOMAIN log \ mine
PassedBelow(p) == \A e \in Foreigners : log[e].pos < p => e \in settled
Passed(p)      == \A e \in Foreigners : log[e].pos <= p => e \in settled

(* Ids are drawn in order; an own event is in the log or the outbox, and   *)
(* both tell its row.                                                      *)
IdsInUse ==
  /\ backend = 1
  /\ \A e \in DOMAIN log \cup mine : e < nextId
  /\ settled \subseteq Foreigners
  /\ mine \subseteq DOMAIN log \cup DOMAIN outbox
  /\ \A o \in DOMAIN outbox \cap DOMAIN log : outbox[o].key = log[o].key

(* An event that is not settled came after everything this device wrote to *)
(* its row: nobody edits a row before seeing its newest event.             *)
OwnComesFirst ==
  \A e \in Foreigners \ settled :
    /\ \A o \in mine \cap DOMAIN log : log[o].key = log[e].key => log[o].pos < log[e].pos
    /\ \A o \in mine \ DOMAIN log : outbox[o].key # log[e].key

(* An inbox row tells what the log does, and is written when everything    *)
(* before it is settled.                                                   *)
InboxTold ==
  \A e \in DOMAIN inbox :
    /\ e \in DOMAIN log /\ inbox[e].key = log[e].key /\ inbox[e].pos = log[e].pos
    /\ PassedBelow(log[e].pos)
    /\ e \in Pending => e \notin mine \cup settled

SettledInOrder ==
  /\ \A e \in settled : PassedBelow(log[e].pos)
  /\ Passed(cursor)

(* Cursors do not run ahead of the log.                                    *)
PlacesInLog ==
  LET size == Cardinality(DOMAIN log)
  IN  /\ cursor <= size
      /\ sync.phase = "ask" => sync.since <= size
      /\ sync.phase = "page" => sync.top <= size

(* What is in hand is of the log, in its order.                            *)
ItemsTold ==
  /\ \A i \in DOMAIN sync.work :
       LET w == sync.work[i]
       IN  /\ w.eid \in DOMAIN log /\ w.key = log[w.eid].key /\ w.pos = log[w.eid].pos
           /\ sync.phase = "pending" => w.eid \in Pending
           /\ sync.phase = "page" => w.pos <= sync.top
  /\ \A i, j \in DOMAIN sync.work : i < j => sync.work[i].pos < sync.work[j].pos

PageWhole ==
  /\ sync.phase = "ask" => Passed(sync.since)
  /\ sync.phase = "page" =>
       \A e \in Foreigners : log[e].pos <= sync.top => e \in settled \cup Listed(sync.work)

(* Without overlap no page goes back to a settled event; with it, the      *)
(* inbox still has them all.                                               *)
SettledOnce ==
  IF config.overlap = 0
  THEN /\ \A e \in settled : \/ log[e].pos <= cursor
                             \/ \E r \in Resolved : log[e].pos <= log[r].pos
       /\ sync.phase = "ask" => \A e \in settled : log[e].pos <= sync.since
       /\ sync.phase = "page" => \A e \in settled : /\ e \notin Listed(sync.work)
                                                    /\ log[e].pos <= sync.top
  ELSE settled \subseteq Resolved

(* Between the row and the mark nobody else writes the row.                *)
AppliedShown ==
  sync.applied # NoEvent =>
    /\ sync.applied = Item.eid /\ Item.eid \in Pending
    /\ Item.key \notin UnknownKeys /\ rows[Item.key] = Item.eid

(* A row shows this device's last event of it, if that came last, else the *)
(* newest of what is stored and seen, or the event that is being marked.   *)
RowShows(k) ==
  LET r == rows[k]
  IN  /\ \A u \in DOMAIN outbox \ DOMAIN log : outbox[u].key = k => u <= r /\ r \in mine
      /\ r \in mine => \A o \in DOMAIN log \cap mine : log[o].key = k => o <= r
      /\ r \in DOMAIN log =>
           /\ log[r].key = k /\ r \in mine \cup settled \cup Pending
           /\ \A e \in DOMAIN log \cap (mine \cup settled) :
                log[e].key = k => log[e].pos <= log[r].pos \/ {r, e} \subseteq mine
      /\ r = NoEvent => \A e \in DOMAIN log \cap (mine \cup settled) : log[e].key # k
      /\ r # NoEvent /\ r \notin DOMAIN log => r \in DOMAIN outbox /\ outbox[r].key = k

RowsShown == \A k \in Keys \ UnknownKeys : RowShows(k)

AgreeInv ==
  /\ swaps \in Nat /\ config \in Configs
  /\ Steady => /\ PlacesInLog /\ IdsInUse /\ OwnComesFirst /\ InboxTold /\ SettledInOrder
               /\ ItemsTold /\ PageWhole /\ SettledOnce /\ AppliedShown /\ RowsShown

(* An edit never comes between a replayed row and its mark, and what is    *)
(* pruned is not pulled again (see README).                                *)
Restrained == ~SwiftEdits /\ \A c \in Configs : c.prune => c.overlap = 0

LEMMA InitAgree == Init => AgreeInv
<1> SUFFICES ASSUME Init PROVE AgreeInv
  OBVIOUS
<1>1. /\ DOMAIN log = {} /\ DOMAIN inbox = {} /\ DOMAIN outbox = {} /\ mine = {}
      /\ settled = {} /\ cursor = 0 /\ backend = 1 /\ nextId = 1 /\ swaps = 0
      /\ rows = [k \in Keys |-> NoEvent] /\ config \in Configs
      /\ sync.work = <<>> /\ sync.applied = NoEvent /\ sync.phase = "idle"
  BY IdleType DEF Init, LogInit
<1>2. IdsInUse /\ OwnComesFirst /\ InboxTold /\ SettledInOrder
  BY <1>1 DEF IdsInUse, OwnComesFirst, InboxTold, SettledInOrder, Foreigners,
              PassedBelow, Passed
<1>3. ItemsTold /\ PageWhole /\ SettledOnce /\ AppliedShown
  BY <1>1 DEF ItemsTold, PageWhole, SettledOnce, AppliedShown, Resolved
<1>4. RowsShown
  BY <1>1 DEF RowsShown, RowShows
<1>5. PlacesInLog
  <2>1. 0 <= Cardinality(DOMAIN log)
    BY <1>1, FS_EmptySet
  <2>2. QED
    BY <1>1, <2>1 DEF PlacesInLog
<1>6. QED
  BY <1>1, <1>2, <1>3, <1>4, <1>5 DEF AgreeInv

(* The positions of the log are numbers, all different.                    *)
LEMMA Places ==
  ASSUME Inv
  PROVE  /\ \A e \in DOMAIN log : e \in Ids /\ log[e].pos \in Ids /\ log[e].pos \in Nat /\ log[e].key \in Keys
         /\ \A e, f \in DOMAIN log : log[e].pos = log[f].pos => e = f
         /\ \A e, f \in DOMAIN log : e # f => log[e].pos < log[f].pos \/ log[f].pos < log[e].pos
         /\ Ids \subseteq Nat /\ NoEvent \notin Ids /\ NoEvent = 0
<1>1. LogNumbered /\ MaxEvents \in Nat
  BY PullAssumption DEF Inv
<1>2. /\ \A e \in DOMAIN log : e \in Ids /\ log[e].pos \in Ids /\ log[e].key \in Keys
      /\ \A e, f \in DOMAIN log : log[e].pos = log[f].pos => e = f
  BY <1>1, LogFinite DEF LogNumbered, Numbered
<1>3. Ids \subseteq Nat /\ NoEvent \notin Ids /\ NoEvent = 0
  BY <1>1 DEF Ids, NoEvent
<1>4. \A e \in DOMAIN log : log[e].pos \in Nat
  BY <1>2, <1>3
<1>5. QED
  BY <1>2, <1>3, <1>4

(* The types the steps below need most.                                    *)
LEMMA Typed ==
  ASSUME Inv
  PROVE  /\ mine \subseteq Ids /\ settled \subseteq Ids /\ DOMAIN outbox \subseteq mine
         /\ DOMAIN inbox \subseteq Ids /\ rows \in [Keys -> Ids \cup {NoEvent}]
         /\ cursor \in Nat /\ sync.since \in Nat /\ sync.top \in Nat /\ nextId \in Nat
         /\ config.overlap \in Nat /\ Cardinality(DOMAIN log) \in Nat
         /\ sync.applied \in Ids \cup {NoEvent}
         /\ \A e \in mine \cup settled \cup DOMAIN inbox : e \in Nat /\ e # NoEvent
<1>1. /\ mine \subseteq Ids /\ settled \subseteq Ids /\ DOMAIN outbox \subseteq mine
      /\ DOMAIN inbox \subseteq Ids /\ rows \in [Keys -> Ids \cup {NoEvent}]
      /\ cursor \in 0..MaxEvents /\ sync.since \in Nat /\ sync.top \in 0..MaxEvents
      /\ nextId \in 1..MaxEvents + 1 /\ config \in ConfigType
      /\ sync.applied \in Ids \cup {NoEvent}
  BY DEF Inv, TypeOK
<1>2. MaxEvents \in Nat /\ Cardinality(DOMAIN log) \in Nat
  BY LogFinite, PullAssumption DEF Inv, LogNumbered
<1>3. config.overlap \in Nat
  BY <1>1 DEF ConfigType
<1>4. Ids \subseteq Nat /\ NoEvent \notin Ids
  BY Places
<1>5. QED
  BY <1>1, <1>2, <1>3, <1>4

(* The head of a row is one event, and there is one if the row has any.    *)
LEMMA HeadIs ==
  ASSUME Inv, NEW k
  PROVE  /\ \A e, f \in HeadOf(k) : e = f
         /\ HeadOf(k) = {} => \A e \in DOMAIN log : log[e].key # k
<1> DEFINE T == {log[e].pos : e \in {f \in DOMAIN log : log[f].key = k}}
<1>1. \A e, f \in HeadOf(k) : e = f
  BY Places DEF HeadOf
<1>2. ASSUME NEW e \in DOMAIN log, log[e].key = k PROVE HeadOf(k) # {}
  <2>1. T \subseteq 1..MaxEvents /\ T # {} /\ MaxEvents \in Nat
    BY <1>2, Places, PullAssumption DEF Ids
  <2>2. PICK p \in T : \A q \in T : q <= p
    <3> HIDE DEF T
    <3>1. QED
      BY <2>1, MaxExists
  <2>3. PICK h \in DOMAIN log : log[h].key = k /\ log[h].pos = p
    BY <2>2
  <2>4. h \in HeadOf(k)
    BY <2>2, <2>3 DEF HeadOf
  <2>5. QED
    BY <2>4
<1>3. QED
  BY <1>1, <1>2

(* A step that ends a sync, or begins one, and does nothing else.          *)
LEMMA RestAgree ==
  ASSUME AgreeInv, Ends(sync'),
         UNCHANGED <<log, config, backend, mine, nextId, rows, outbox, inbox, dead, cursor,
                     settled, swaps>>
  PROVE  AgreeInv'
<1> SUFFICES ASSUME Steady' PROVE AgreeInv'
  BY DEF AgreeInv
<1>1. Steady
  BY DEF Steady
<1>2. (IdsInUse /\ OwnComesFirst /\ InboxTold /\ SettledInOrder)'
  BY <1>1 DEF AgreeInv, IdsInUse, OwnComesFirst, InboxTold, SettledInOrder, Foreigners,
              PassedBelow, Passed, Pending, Resolved
<1>3. (ItemsTold /\ PageWhole /\ AppliedShown /\ PlacesInLog)'
  BY <1>1 DEF AgreeInv, Ends, ItemsTold, PageWhole, AppliedShown, PlacesInLog
<1>4. SettledOnce'
  BY <1>1 DEF AgreeInv, Ends, SettledOnce, Resolved
<1>5. RowsShown'
  BY <1>1 DEF AgreeInv, RowsShown, RowShows, Pending, Resolved
<1>6. QED
  BY <1>2, <1>3, <1>4, <1>5 DEF AgreeInv

(* An edit: the row now shows the newest event of all, not yet stored.     *)
LEMMA EditAgree ==
  ASSUME Inv, AgreeInv, Restrained, NEW k \in Keys, Edit(k)
  PROVE  AgreeInv'
<1> SUFFICES ASSUME Steady' PROVE AgreeInv'
  BY DEF AgreeInv, Edit
<1>1. /\ UNCHANGED <<log, config, backend, inbox, dead, cursor, backendSeen, settled, sync, swaps>>
      /\ rows' = [rows EXCEPT ![k] = nextId] /\ mine' = mine \cup {nextId}
      /\ nextId' = nextId + 1 /\ nextId \in Ids /\ k \notin UnknownKeys
      /\ ShowsNewest(k) /\ ~BetweenWrites(k)
  BY DEF Edit, Restrained
<1>2. /\ DOMAIN outbox' = DOMAIN outbox \cup {nextId}
      /\ \A e \in DOMAIN outbox' :
           outbox'[e] = IF e = nextId THEN [key |-> k, synced |-> FALSE] ELSE outbox[e]
  BY DEF Edit, Put
<1>3. /\ Steady /\ IdsInUse /\ OwnComesFirst /\ InboxTold /\ SettledInOrder
      /\ ItemsTold /\ PageWhole /\ SettledOnce /\ AppliedShown /\ RowsShown /\ PlacesInLog
  BY <1>1 DEF Steady, AgreeInv
<1>4. /\ \A e \in DOMAIN log : e \in Nat /\ e # nextId
      /\ \A e \in mine : e \in Nat /\ e < nextId /\ e # nextId /\ nextId \in Nat /\ nextId # NoEvent
      /\ DOMAIN outbox \subseteq mine
  BY <1>1, <1>3, Places DEF IdsInUse, Inv, TypeOK
<1>5. nextId \notin DOMAIN log /\ nextId \notin mine /\ nextId \notin DOMAIN outbox
      /\ nextId \in Nat /\ nextId # NoEvent
  BY <1>1, <1>3, <1>4, Places DEF IdsInUse
<1>6. Foreigners' = Foreigners
  BY <1>1, <1>5 DEF Foreigners
<1>7. IdsInUse'
  BY <1>1, <1>2, <1>3, <1>4, <1>5, <1>6 DEF IdsInUse
<1>8. InboxTold' /\ SettledInOrder'
  BY <1>1, <1>3, <1>5, <1>6 DEF InboxTold, SettledInOrder, PassedBelow, Passed, Pending, Resolved
<1>9. ItemsTold' /\ PageWhole' /\ SettledOnce' /\ PlacesInLog'
  BY <1>1, <1>3, <1>6 DEF PlacesInLog, ItemsTold, PageWhole, Passed, SettledOnce, Resolved, Pending
<1>10. AppliedShown'
  <2> SUFFICES ASSUME sync.applied # NoEvent PROVE AppliedShown'
    BY <1>1 DEF AppliedShown
  <2>1. Item.eid \in Pending /\ rows[Item.key] = Item.eid /\ sync.work # <<>>
    BY <1>3 DEF AppliedShown, Inv, AppliedIsAtHand
  <2>2. Item.key = log[Item.eid].key /\ inbox[Item.eid].key = log[Item.eid].key
    BY <1>3, <2>1, AtHand DEF Inv, ItemsTold, InboxTold, Pending
  <2>3. Item.key # k
    BY <1>1, <2>1, <2>2 DEF BetweenWrites
  <2>4. Item' = Item /\ Pending' = Pending
    BY <1>1 DEF Item, Pending, Resolved
  <2>5. rows'[Item.key] = rows[Item.key]
    BY <1>1, <2>3, AtHand, <2>1 DEF Inv, TypeOK
  <2>6. QED
    BY <1>1, <1>3, <2>1, <2>4, <2>5 DEF AppliedShown
<1>11. OwnComesFirst'
  <2> SUFFICES ASSUME NEW e \in Foreigners \ settled, log[e].key = k PROVE FALSE
    BY <1>1, <1>2, <1>3, <1>4, <1>5, <1>6 DEF OwnComesFirst, IdsInUse
  <2>1. e \in DOMAIN log /\ e \notin mine /\ log[e].pos \in Nat
    BY Places DEF Foreigners
  <2>2. RowShows(k)
    BY <1>1, <1>3 DEF RowsShown
  <2>3. HeadOf(k) # {}
    BY <2>1, HeadIs
  <2>4. CASE {rows[k]} = HeadOf(k)
    <3> DEFINE h == rows[k]
    <3>1. h \in DOMAIN log /\ log[h].key = k /\ log[e].pos <= log[h].pos /\ log[h].pos \in Nat
      BY <2>1, <2>4, Places DEF HeadOf
    <3>2. h \in mine \cup settled \cup Pending
      BY <2>2, <3>1 DEF RowShows
    <3>3. h \notin Pending
      BY <1>1, <1>3, <3>1 DEF BetweenWrites, InboxTold, Pending
    <3>4. CASE h \in mine
      BY <1>3, <2>1, <3>1, <3>4 DEF OwnComesFirst
    <3>5. CASE h \in settled
      <4>1. e # h
        BY <3>5
      <4>2. log[e].pos < log[h].pos
        BY <2>1, <3>1, <4>1, Places
      <4>3. QED
        BY <1>3, <3>5, <4>2 DEF SettledInOrder, PassedBelow
    <3>6. QED
      BY <3>2, <3>3, <3>4, <3>5
  <2>5. CASE rows[k] \in mine \ DOMAIN log
    <3>1. rows[k] \in DOMAIN outbox /\ outbox[rows[k]].key = k
      BY <1>3, <1>4, <2>2, <2>5, Places DEF RowShows, Inv, TypeOK
    <3>2. QED
      BY <1>3, <2>5, <3>1 DEF OwnComesFirst
  <2>6. CASE HeadOf(k) \subseteq mine
    <3>1. PICK h \in HeadOf(k) : h \in mine /\ h \in DOMAIN log /\ log[h].key = k
                                /\ log[e].pos <= log[h].pos /\ log[h].pos \in Nat
      BY <2>1, <2>3, <2>6, Places DEF HeadOf
    <3>2. QED
      BY <1>3, <2>1, <3>1 DEF OwnComesFirst
  <2>7. QED
    BY <1>1, <2>3, <2>4, <2>5, <2>6 DEF ShowsNewest
<1>12. RowsShown'
  <2> SUFFICES ASSUME NEW j \in Keys \ UnknownKeys PROVE RowShows(j)'
    BY DEF RowsShown
  <2>1. RowShows(j) /\ Pending' = Pending
    BY <1>1, <1>3 DEF RowsShown, Pending, Resolved
  <2>2. rows'[j] = IF j = k THEN nextId ELSE rows[j]
    BY <1>1 DEF Inv, TypeOK
  <2>3. CASE j = k
    <3>1. \A u \in DOMAIN outbox' : u <= nextId
      BY <1>2, <1>4, <1>5
    <3>2. nextId \in mine' /\ \A o \in DOMAIN log \cap mine' : o <= nextId
      BY <1>1, <1>4, <1>5
    <3>3. nextId \notin DOMAIN log' /\ log' = log /\ rows'[j] = nextId /\ outbox'[nextId].key = j
      BY <1>1, <1>2, <1>5, <2>2, <2>3
    <3>4. nextId \in DOMAIN outbox' /\ nextId # NoEvent
      BY <1>2, <1>5
    <3>5. QED
      BY <3>1, <3>2, <3>3, <3>4 DEF RowShows
  <2>4. CASE j # k
    <3>1. rows'[j] = rows[j]
      BY <2>2, <2>4
    <3>2. rows[j] # nextId
      BY <1>5, <2>1 DEF RowShows
    <3>3. \A u \in DOMAIN outbox' \ DOMAIN log' : outbox'[u].key = j =>
              u \in DOMAIN outbox \ DOMAIN log /\ outbox[u].key = j
      BY <1>1, <1>2, <2>4
    <3>4. \A e \in DOMAIN log \cap (mine' \cup settled) : e \in DOMAIN log \cap (mine \cup settled)
      BY <1>1, <1>5
    <3>5. QED
      BY <1>1, <1>2, <1>5, <2>1, <2>2, <2>4, <3>2, <3>3, <3>4 DEF RowShows
  <2>5. QED
    BY <2>3, <2>4
<1>13. QED
  BY <1>1, <1>3, <1>7, <1>8, <1>9, <1>10, <1>11, <1>12 DEF AgreeInv

(* The events a server appends come after all it had.                      *)
LEMMA Grown ==
  ASSUME Inv, LogNumbered', \A e \in DOMAIN log : log'[e] = log[e],
         NEW E, DOMAIN log' = DOMAIN log \cup E,
         \A e \in E \ DOMAIN log : log'[e].pos > Cardinality(DOMAIN log)
  PROVE  \A e \in DOMAIN log, f \in E \ DOMAIN log : log'[e].pos < log'[f].pos
<1>1. Numbered(log) /\ Numbered(log')
  BY DEF Inv, LogNumbered
<1>2. /\ Cardinality(DOMAIN log) \in Nat
      /\ \A e \in DOMAIN log : log[e].pos \in Nat /\ log[e].pos <= Cardinality(DOMAIN log)
  BY <1>1, LogFinite DEF Numbered
<1>3. \A e \in DOMAIN log' : log'[e].pos \in Nat
  BY <1>1, LogFinite, PullAssumption DEF Ids
<1>4. QED
  BY <1>2, <1>3

(* Another device writes to a row of which the server has all this device  *)
(* wrote.                                                                  *)
LEMMA ForeignAgree ==
  ASSUME Inv, AgreeInv, NEW k \in Keys, Foreign(k)
  PROVE  AgreeInv'
<1> SUFFICES ASSUME Steady' PROVE AgreeInv'
  BY DEF AgreeInv, Foreign
<1>1. /\ UNCHANGED <<config, backend, mine, rows, outbox, inbox, dead, cursor, backendSeen,
                     settled, sync, swaps>>
      /\ log' = Appended({Body(nextId, k)})
      /\ nextId' = nextId + 1 /\ nextId \in Ids /\ MaxEvents \in Nat
      /\ \A e \in DOMAIN outbox : outbox[e].key = k => e \in DOMAIN log
  BY PullAssumption DEF Foreign, device
<1>2. /\ LogNumbered' /\ DOMAIN log' = DOMAIN log \cup {nextId}
      /\ \A e \in DOMAIN log : log'[e] = log[e]
      /\ \A e \in {nextId} \ DOMAIN log :
           log'[e].pos > Cardinality(DOMAIN log) /\ log'[e].key = k
      /\ Cardinality(DOMAIN log) <= Cardinality(DOMAIN log')
  <2> DEFINE E == {nextId}
             keyOf == [e \in E |-> k]
             group == {Body(e, keyOf[e]) : e \in E}
  <2>1. keyOf \in [E -> Keys] /\ E \subseteq Ids /\ \A e \in E : keyOf[e] = k
    BY <1>1
  <2>2. group = {Body(nextId, k)}
    <3>1. keyOf[nextId] = k
      OBVIOUS
    <3>2. group = {Body(nextId, keyOf[nextId])}
      <4> HIDE DEF keyOf
      <4>1. QED
        OBVIOUS
    <3> HIDE DEF keyOf, group
    <3>3. QED
      BY <3>1, <3>2
  <2>3. log' = Appended(group)
    <3> HIDE DEF group
    <3>1. QED
      BY <1>1, <2>2
  <2> HIDE DEF keyOf
  <2>4. LogNumbered
    BY DEF Inv
  <2>5. /\ LogNumbered' /\ DOMAIN log' = DOMAIN log \cup E
        /\ \A e \in DOMAIN log : log'[e] = log[e]
        /\ \A e \in E \ DOMAIN log :
             log'[e].pos > Cardinality(DOMAIN log) /\ log'[e].key = keyOf[e]
        /\ Cardinality(DOMAIN log) <= Cardinality(DOMAIN log')
    <3> HIDE DEF E
    <3>1. QED
      BY <2>1, <2>3, <2>4, AppendedNumbered
  <2>6. QED
    BY <2>1, <2>5
<1>3. /\ Steady /\ IdsInUse /\ OwnComesFirst /\ InboxTold /\ SettledInOrder
      /\ ItemsTold /\ PageWhole /\ SettledOnce /\ AppliedShown /\ RowsShown /\ PlacesInLog
  BY <1>1 DEF Steady, AgreeInv
<1>4. /\ nextId \notin DOMAIN log /\ nextId \notin mine /\ nextId \notin DOMAIN outbox
      /\ nextId \in Nat /\ nextId # NoEvent /\ DOMAIN outbox \subseteq mine
      /\ \A e \in DOMAIN log \cup mine : e \in Nat
  <2>1. /\ nextId \in Nat /\ nextId # NoEvent /\ DOMAIN outbox \subseteq mine
        /\ \A e \in DOMAIN log \cup mine : e \in Nat
    BY <1>1, Places, Typed
  <2>2. \A e \in DOMAIN log \cup mine : e < nextId
    BY <1>3 DEF IdsInUse
  <2>3. QED
    BY <2>1, <2>2
<1>5. \A e \in DOMAIN log : log'[e].pos < log'[nextId].pos
  BY <1>2, <1>4, Grown
<1>6. Foreigners' = Foreigners \cup {nextId} /\ nextId \notin settled /\ settled \subseteq DOMAIN log
  BY <1>1, <1>2, <1>3, <1>4 DEF Foreigners, IdsInUse
<1>7. log'[nextId].pos > Cardinality(DOMAIN log) /\ log'[nextId].key = k
      /\ log'[nextId].pos \in Nat
  <2>1. Numbered(log')
    BY <1>2 DEF LogNumbered
  <2>2. QED
    BY <1>2, <1>4, <2>1, LogFinite, PullAssumption DEF Ids
<1>8. IdsInUse'
  <2>1. \A e \in DOMAIN log' \cup mine' : e < nextId'
    BY <1>1, <1>2, <1>3, <1>4 DEF IdsInUse
  <2>2. \A o \in DOMAIN outbox' \cap DOMAIN log' : outbox'[o].key = log'[o].key
    BY <1>1, <1>2, <1>3, <1>4 DEF IdsInUse
  <2>3. settled' \subseteq Foreigners' /\ mine' \subseteq DOMAIN log' \cup DOMAIN outbox'
    BY <1>1, <1>2, <1>3, <1>6 DEF IdsInUse
  <2>4. QED
    BY <1>1, <1>3, <2>1, <2>2, <2>3 DEF IdsInUse
<1>9. OwnComesFirst'
  <2>1. mine' \cap DOMAIN log' = mine \cap DOMAIN log /\ mine' \ DOMAIN log' = mine \ DOMAIN log
    BY <1>1, <1>2, <1>4
  <2>2. mine \ DOMAIN log \subseteq DOMAIN outbox
    BY <1>3 DEF IdsInUse
  <2> SUFFICES ASSUME NEW e \in Foreigners' \ settled'
               PROVE  /\ \A o \in mine \cap DOMAIN log :
                            log'[o].key = log'[e].key => log'[o].pos < log'[e].pos
                      /\ \A o \in mine \ DOMAIN log : outbox[o].key # log'[e].key
    BY <1>1, <2>1 DEF OwnComesFirst
  <2>3. CASE e = nextId
    BY <1>1, <1>2, <1>5, <1>7, <2>2, <2>3
  <2>4. CASE e # nextId
    <3>1. e \in Foreigners \ settled /\ e \in DOMAIN log
      BY <1>1, <1>6, <2>4 DEF Foreigners
    <3>2. QED
      BY <1>2, <1>3, <3>1 DEF OwnComesFirst
  <2>5. QED
    BY <2>3, <2>4
<1>10. Resolved' = Resolved /\ Pending' = Pending
  BY <1>1 DEF Resolved, Pending
<1>11. \A e \in DOMAIN log : PassedBelow(log[e].pos) => PassedBelow(log[e].pos)'
  <2>1. \A e \in DOMAIN log : log[e].pos \in Nat
    BY Places
  <2> SUFFICES ASSUME NEW e \in DOMAIN log, PassedBelow(log[e].pos),
                      NEW f \in Foreigners', log'[f].pos < log[e].pos
               PROVE  f \in settled
    BY <1>1, <1>2 DEF PassedBelow
  <2>2. f # nextId
    BY <1>2, <1>5, <1>7, <2>1
  <2>3. f \in Foreigners /\ log'[f] = log[f]
    BY <1>2, <1>6, <2>2 DEF Foreigners
  <2>4. QED
    BY <2>3 DEF PassedBelow
<1>12. ASSUME NEW p \in Nat, p <= Cardinality(DOMAIN log), Passed(p)
       PROVE  \A e \in Foreigners' : log'[e].pos <= p => e \in settled'
  <2>1. Cardinality(DOMAIN log) \in Nat
    BY LogFinite DEF Inv, LogNumbered
  <2>2. log'[nextId].pos > p
    BY <1>7, <1>12, <2>1
  <2>3. SUFFICES ASSUME NEW e \in Foreigners', log'[e].pos <= p PROVE e \in settled
    BY <1>1
  <2>4. e # nextId
    BY <1>7, <1>12, <2>2, <2>3
  <2>5. e \in Foreigners /\ log'[e] = log[e]
    BY <1>2, <1>6, <2>4 DEF Foreigners
  <2>6. QED
    BY <1>12, <2>3, <2>5 DEF Passed
<1>13. InboxTold'
  BY <1>1, <1>2, <1>3, <1>10, <1>11 DEF InboxTold
<1>14. SettledInOrder' /\ PlacesInLog'
  <2>1. Cardinality(DOMAIN log) \in Nat /\ Cardinality(DOMAIN log') \in Nat
    BY <1>2, LogFinite DEF Inv, LogNumbered
  <2>2. PlacesInLog'
    BY <1>1, <1>2, <1>3, <2>1, Typed DEF PlacesInLog
  <2>3. cursor \in Nat /\ cursor <= Cardinality(DOMAIN log)
    BY <1>3 DEF PlacesInLog, Inv, TypeOK
  <2>4. Passed(cursor)'
    BY <1>1, <1>3, <1>12, <2>3 DEF Passed, SettledInOrder
  <2>5. \A e \in settled : PassedBelow(log[e].pos)'
    BY <1>3, <1>6, <1>11 DEF SettledInOrder
  <2>6. QED
    BY <1>1, <1>2, <1>6, <2>2, <2>4, <2>5 DEF SettledInOrder, PassedBelow
<1>15. ItemsTold' /\ PageWhole'
  <2>1. ItemsTold'
    BY <1>1, <1>2, <1>3, <1>10 DEF ItemsTold
  <2>2. ASSUME sync.phase = "ask" PROVE Passed(sync.since)'
    BY <1>1, <1>3, <1>12, <2>2 DEF Passed, PageWhole, PlacesInLog, Inv, TypeOK
  <2>3. ASSUME sync.phase = "page", NEW e \in Foreigners', log'[e].pos <= sync.top
        PROVE  e \in settled \cup Listed(sync.work)
    <3>1. e # nextId
      <4>1. sync.top <= Cardinality(DOMAIN log) /\ sync.top \in Nat
        BY <1>3, <2>3 DEF PlacesInLog, Inv, TypeOK
      <4>2. Cardinality(DOMAIN log) \in Nat
        BY LogFinite DEF Inv, LogNumbered
      <4>3. QED
        BY <1>7, <2>3, <4>1, <4>2
    <3>2. e \in Foreigners /\ log[e].pos <= sync.top
      BY <1>2, <1>6, <2>3, <3>1 DEF Foreigners
    <3>3. QED
      BY <1>3, <2>3, <3>2 DEF PageWhole
  <2>4. QED
    BY <1>1, <2>1, <2>2, <2>3 DEF PageWhole, Listed
<1>16. SettledOnce' /\ AppliedShown'
  <2>1. \A e \in settled \cup Resolved : e \in DOMAIN log => log'[e] = log[e]
    BY <1>2
  <2>2. Resolved \subseteq DOMAIN log
    BY <1>3 DEF InboxTold, Resolved
  <2>3. SettledOnce'
    BY <1>1, <1>2, <1>3, <1>6, <1>10, <2>2 DEF SettledOnce, Listed
  <2>4. AppliedShown'
    BY <1>1, <1>3, <1>10 DEF AppliedShown, Item
  <2>5. QED
    BY <2>3, <2>4
<1>17. RowsShown'
  <2> SUFFICES ASSUME NEW j \in Keys \ UnknownKeys PROVE RowShows(j)'
    BY DEF RowsShown
  <2>1. RowShows(j)
    BY <1>3 DEF RowsShown
  <2>2. rows[j] # nextId
    BY <1>4, <2>1 DEF RowShows
  <2>3. DOMAIN log' \cap (mine \cup settled) = DOMAIN log \cap (mine \cup settled)
    BY <1>2, <1>4, <1>6
  <2>4. DOMAIN outbox \ DOMAIN log' = DOMAIN outbox \ DOMAIN log
    BY <1>2, <1>4
  <2>5. /\ rows'[j] = rows[j] /\ outbox' = outbox
        /\ rows[j] \in DOMAIN log' => rows[j] \in DOMAIN log
        /\ rows[j] \in DOMAIN log => rows[j] \in DOMAIN log'
        /\ mine' \cup settled' \cup Pending' = mine \cup settled \cup Pending
        /\ mine' \cup settled' = mine \cup settled /\ mine' = mine
        /\ DOMAIN log' \cap mine = DOMAIN log \cap mine
    BY <1>1, <1>2, <1>4, <1>10, <2>2
  <2>6. \A e \in DOMAIN log \cap (mine \cup settled) : log'[e] = log[e]
    BY <1>2
  <2>7. rows[j] \in DOMAIN log => log'[rows[j]] = log[rows[j]]
    BY <1>2
  <2>8. QED
    BY <2>1, <2>3, <2>4, <2>5, <2>6, <2>7 DEF RowShows
<1>18. QED
  BY <1>1, <1>3, <1>8, <1>9, <1>13, <1>14, <1>15, <1>16, <1>17 DEF AgreeInv

(* What is known while there is one store and nothing is given up.         *)
LEMMA Steadily ==
  ASSUME Inv, AgreeInv, Steady
  PROVE  /\ PlacesInLog /\ IdsInUse /\ OwnComesFirst /\ InboxTold /\ SettledInOrder
         /\ ItemsTold /\ PageWhole /\ SettledOnce /\ AppliedShown /\ RowsShown
         /\ Confirmed \subseteq DOMAIN log /\ ~Mismatch
<1>1. /\ PlacesInLog /\ IdsInUse /\ OwnComesFirst /\ InboxTold /\ SettledInOrder
      /\ ItemsTold /\ PageWhole /\ SettledOnce /\ AppliedShown /\ RowsShown
  BY DEF AgreeInv
<1>2. backend = 1 /\ backendSeen \in 0..1
  BY <1>1 DEF IdsInUse, Inv, TypeOK
<1>3. backendSeen \in {0, backend}
  BY <1>2
<1>4. QED
  BY <1>1, <1>3 DEF Inv, ConfirmedIsHeld, Mismatch

(* The effective cursor has passed every resolved row, and nothing open.   *)
LEMMA EffectivePassed ==
  ASSUME Inv, AgreeInv, Steady
  PROVE  /\ Passed(EffectiveCursor) /\ EffectiveCursor \in Nat
         /\ EffectiveCursor <= Cardinality(DOMAIN log) /\ cursor <= EffectiveCursor
         /\ \A r \in Resolved : log[r].pos <= EffectiveCursor
         /\ config.overlap = 0 => \A e \in settled : log[e].pos <= EffectiveCursor
<1> DEFINE T == {cursor} \cup {inbox[e].pos : e \in Resolved}
<1>1. T \subseteq 0..MaxEvents /\ T # {} /\ MaxEvents \in Nat
  BY Positions DEF Inv, Resolved, Ids
<1>2. \A r \in Resolved : /\ r \in DOMAIN log /\ inbox[r].pos = log[r].pos /\ r \in settled \cup mine
                          /\ PassedBelow(log[r].pos)
  BY Steadily DEF InboxTold, Resolved, Inv, ResolvedIsSettled
<1>3. EffectiveCursor \in T /\ \A m \in T : m <= EffectiveCursor
  <2> HIDE DEF T
  <2>1. EffectiveCursor = Greatest(T)
    BY DEF EffectiveCursor, T
  <2>2. QED
    BY <1>1, <2>1, GreatestOf
<1>4. /\ EffectiveCursor \in Nat /\ cursor <= EffectiveCursor
      /\ \A r \in Resolved : log[r].pos <= EffectiveCursor
  BY <1>1, <1>2, <1>3
<1>5. EffectiveCursor = cursor \/ \E r \in Resolved : EffectiveCursor = log[r].pos
  BY <1>2, <1>3
<1>6. Passed(EffectiveCursor) /\ EffectiveCursor <= Cardinality(DOMAIN log)
  <2>1. CASE EffectiveCursor = cursor
    BY <2>1, Steadily DEF SettledInOrder, PlacesInLog
  <2>2. CASE \E r \in Resolved : EffectiveCursor = log[r].pos
    <3>1. PICK r \in Resolved : EffectiveCursor = log[r].pos
      BY <2>2
    <3>2. Passed(log[r].pos)
      BY <1>2, Places DEF Passed, PassedBelow, Foreigners
    <3>3. log[r].pos <= Cardinality(DOMAIN log)
      BY <1>2, Typed DEF Inv, LogNumbered, Numbered
    <3>4. QED
      BY <3>1, <3>2, <3>3
  <2>3. QED
    BY <1>5, <2>1, <2>2
<1>7. ASSUME config.overlap = 0, NEW e \in settled PROVE log[e].pos <= EffectiveCursor
  <2>1. e \in DOMAIN log /\ log[e].pos \in Nat /\ cursor \in Nat
    BY Steadily, Places, Typed DEF IdsInUse, Foreigners
  <2>2. log[e].pos <= cursor \/ \E r \in Resolved : log[e].pos <= log[r].pos
    BY <1>7, Steadily DEF SettledOnce
  <2>3. \A r \in Resolved : log[r].pos \in Nat
    BY <1>2, Places
  <2>4. QED
    BY <1>4, <2>1, <2>2, <2>3
<1>8. QED
  BY <1>4, <1>6, <1>7

(* Where a pull begins: no further than the effective cursor, and without  *)
(* overlap just there.                                                     *)
LEMMA SincePassed ==
  ASSUME Inv, AgreeInv, Steady
  PROVE  /\ Since \in Nat /\ Since <= Cardinality(DOMAIN log) /\ Passed(Since)
         /\ config.overlap = 0 => \A e \in settled : log[e].pos <= Since
<1>1. /\ Passed(EffectiveCursor) /\ EffectiveCursor \in Nat
      /\ EffectiveCursor <= Cardinality(DOMAIN log) /\ Cardinality(DOMAIN log) \in Nat
      /\ config.overlap = 0 => \A e \in settled : log[e].pos <= EffectiveCursor
  BY EffectivePassed, Typed
<1>2. Since \in Nat /\ (Since = 0 \/ Since <= EffectiveCursor)
  BY SinceType DEF Inv
<1>3. Since <= EffectiveCursor
  BY <1>1, <1>2
<1>4. Passed(Since)
  BY <1>1, <1>2, <1>3, Places DEF Passed, Foreigners
<1>5. ASSUME config.overlap = 0 PROVE Since = EffectiveCursor
  <2> DEFINE n == EffectiveCursor
  <2>1. n - config.overlap = n /\ n \in Nat
    BY <1>1, <1>5
  <2>2. Since = Greatest({0, n})
    BY <2>1 DEF Since
  <2> HIDE DEF n
  <2>3. Greatest({0, n}) = n
    <3>1. {0, n} \subseteq 0..n /\ {0, n} # {}
      BY <2>1
    <3>2. Greatest({0, n}) \in {0, n} /\ \A m \in {0, n} : m <= Greatest({0, n})
      BY <2>1, <3>1, GreatestOf
    <3>3. QED
      BY <2>1, <3>2
  <2>4. QED
    BY <2>2, <2>3 DEF n
<1>6. QED
  BY <1>1, <1>2, <1>3, <1>4, <1>5

(* A push sends the oldest events the server lacks, in their order.        *)
LEMMA UploadAgree ==
  ASSUME Inv, AgreeInv, Upload
  PROVE  AgreeInv'
<1> SUFFICES ASSUME Steady' PROVE AgreeInv'
  BY DEF AgreeInv, Upload
<1>1. PICK stored \in SUBSET Unsent : \E confirmed \in SUBSET stored :
        /\ log' = Appended({Body(e, outbox[e].key) : e \in stored})
        /\ outbox' = [e \in DOMAIN outbox |->
                        [outbox[e] EXCEPT !.synced = @ \/ e \in confirmed]]
  BY DEF Upload
<1>0. PICK confirmed \in SUBSET stored :
        /\ log' = Appended({Body(e, outbox[e].key) : e \in stored})
        /\ outbox' = [e \in DOMAIN outbox |->
                        [outbox[e] EXCEPT !.synced = @ \/ e \in confirmed]]
  BY <1>1
<1>2. /\ UNCHANGED <<config, backend, mine, rows, inbox, dead, cursor, backendSeen, settled, nextId,
                     swaps>>
      /\ sync.phase \in {"push", "repush"}
      /\ sync' = IF sync.phase = "push" THEN [sync EXCEPT !.phase = "ask", !.since = Since]
                 ELSE AfterPush
  BY DEF Upload
<1> DEFINE new == stored \ DOMAIN log
<1>3. /\ stored \subseteq DOMAIN outbox /\ DOMAIN outbox \subseteq mine /\ mine \subseteq Ids
      /\ \A e \in DOMAIN outbox : outbox[e] \in [key : Keys, synced : BOOLEAN]
  BY DEF Inv, TypeOK, Unsent
<1>4. /\ LogNumbered' /\ DOMAIN log' = DOMAIN log \cup stored
      /\ \A e \in DOMAIN log : log'[e] = log[e]
      /\ \A e \in new : log'[e].pos > Cardinality(DOMAIN log) /\ log'[e].key = outbox[e].key
      /\ \A e, f \in new : e < f => log'[e].pos < log'[f].pos
      /\ Cardinality(DOMAIN log) <= Cardinality(DOMAIN log')
  <2> DEFINE keyOf == [e \in stored |-> outbox[e].key]
  <2>1. keyOf \in [stored -> Keys] /\ stored \subseteq Ids
    BY <1>3
  <2>2. {Body(e, outbox[e].key) : e \in stored} = {Body(e, keyOf[e]) : e \in stored}
    OBVIOUS
  <2>3. log' = Appended({Body(e, keyOf[e]) : e \in stored})
    BY <1>1, <2>2
  <2>4. LogNumbered
    BY DEF Inv
  <2> HIDE DEF keyOf
  <2>5. /\ LogNumbered' /\ DOMAIN log' = DOMAIN log \cup stored
        /\ \A e \in DOMAIN log : log'[e] = log[e]
        /\ \A e \in stored \ DOMAIN log :
             log'[e].pos > Cardinality(DOMAIN log) /\ log'[e].key = keyOf[e]
        /\ \A e, f \in stored \ DOMAIN log : e < f => log'[e].pos < log'[f].pos
        /\ Cardinality(DOMAIN log) <= Cardinality(DOMAIN log')
    BY <2>1, <2>3, <2>4, AppendedNumbered
  <2>6. \A e \in stored : keyOf[e] = outbox[e].key
    BY DEF keyOf
  <2>7. QED
    BY <2>5, <2>6
<1>5. /\ DOMAIN outbox' = DOMAIN outbox
      /\ \A e \in DOMAIN outbox : outbox'[e].key = outbox[e].key
  BY <1>0, <1>3
<1>6. /\ Steady /\ PlacesInLog /\ IdsInUse /\ OwnComesFirst /\ InboxTold /\ SettledInOrder
      /\ SettledOnce /\ RowsShown /\ Confirmed \subseteq DOMAIN log
  BY <1>2, Steadily DEF Steady
<1>7. mine \ DOMAIN log \subseteq Unsent /\ mine \ DOMAIN log \subseteq DOMAIN outbox
  BY <1>6 DEF IdsInUse, Confirmed, Unsent
<1>8. /\ \A e \in DOMAIN log : e \notin new
      /\ DOMAIN log' = DOMAIN log \cup new /\ new \subseteq mine \ DOMAIN log
  BY <1>3, <1>4
<1>9. \A e \in DOMAIN log, f \in new : log'[e].pos < log'[f].pos
  BY <1>4, Grown
<1>10. /\ \A e \in DOMAIN log' : log'[e].pos \in Nat
       /\ \A e \in mine : e \in Nat /\ e # NoEvent
  <2>1. Numbered(log')
    BY <1>4 DEF LogNumbered
  <2>2. QED
    BY <2>1, LogFinite, Places, Typed
<1>11. Foreigners' = Foreigners
  BY <1>2, <1>8 DEF Foreigners
<1> HIDE DEF new
<1>12. IdsInUse'
  <2>1. \A e \in DOMAIN log' \cup mine' : e < nextId'
    BY <1>2, <1>6, <1>8 DEF IdsInUse
  <2>2. \A o \in DOMAIN outbox' \cap DOMAIN log' : outbox'[o].key = log'[o].key
    BY <1>4, <1>5, <1>6, <1>8 DEF IdsInUse
  <2>3. QED
    BY <1>2, <1>5, <1>6, <1>8, <1>11, <2>1, <2>2 DEF IdsInUse
<1>14. OwnComesFirst'
  <2> SUFFICES ASSUME NEW e \in Foreigners \ settled
               PROVE  /\ \A o \in mine \cap DOMAIN log' :
                            log'[o].key = log'[e].key => log'[o].pos < log'[e].pos
                      /\ \A o \in mine \ DOMAIN log' : outbox'[o].key # log'[e].key
    BY <1>2, <1>11 DEF OwnComesFirst
  <2>1. log'[e] = log[e] /\ e \in DOMAIN log
    BY <1>4 DEF Foreigners
  <2>2. /\ \A o \in mine \cap DOMAIN log : log[o].key = log[e].key => log[o].pos < log[e].pos
        /\ \A o \in mine \ DOMAIN log : outbox[o].key # log[e].key
    BY <1>6 DEF OwnComesFirst
  <2>3. \A o \in new : log'[o].key # log'[e].key
    BY <1>4, <1>8, <2>1, <2>2
  <2>4. QED
    BY <1>4, <1>5, <1>7, <1>8, <2>1, <2>2, <2>3
<1>15. \A e \in Foreigners : log'[e] = log[e]
  BY <1>4 DEF Foreigners
<1>16. \A p : Passed(p) => \A e \in Foreigners' : log'[e].pos <= p => e \in settled'
  BY <1>2, <1>11, <1>15 DEF Passed
<1>17. \A p : PassedBelow(p) => \A e \in Foreigners' : log'[e].pos < p => e \in settled'
  BY <1>2, <1>11, <1>15 DEF PassedBelow
<1>18. InboxTold' /\ SettledInOrder'
  <2>1. Pending' = Pending
    BY <1>2 DEF Pending, Resolved
  <2>2. InboxTold'
    BY <1>2, <1>4, <1>6, <1>17, <2>1 DEF InboxTold, PassedBelow
  <2>3. SettledInOrder'
    BY <1>2, <1>6, <1>15, <1>16, <1>17 DEF SettledInOrder, PassedBelow, Passed, IdsInUse
  <2>4. QED
    BY <2>2, <2>3
<1>19. /\ sync'.phase \in {"idle", "load", "ask"} /\ sync'.work = <<>> /\ sync'.applied = NoEvent
       /\ sync'.phase = "ask" => sync'.since = Since
  <2>1. sync \in SyncType /\ sync.work = <<>> /\ sync.applied = NoEvent
    BY <1>2 DEF Inv, TypeOK, SyncType, AppliedIsAtHand
  <2>2. QED
    BY <1>2, <2>1, IdleType DEF AfterPush, SyncType
<1>20. /\ Since \in Nat /\ Since <= Cardinality(DOMAIN log) /\ Passed(Since)
       /\ config.overlap = 0 => \A e \in settled : log[e].pos <= Since
  BY <1>6, SincePassed
<1>21. PlacesInLog' /\ ItemsTold' /\ PageWhole' /\ AppliedShown'
  <2>1. Cardinality(DOMAIN log) \in Nat /\ Cardinality(DOMAIN log') \in Nat /\ cursor \in Nat
    BY <1>4, LogFinite, Typed DEF LogNumbered
  <2>2. PlacesInLog'
    BY <1>2, <1>4, <1>6, <1>19, <1>20, <2>1 DEF PlacesInLog
  <2>3. ItemsTold' /\ AppliedShown'
    BY <1>19 DEF ItemsTold, AppliedShown
  <2>4. PageWhole'
    BY <1>16, <1>19, <1>20 DEF PageWhole, Passed
  <2>5. QED
    BY <2>2, <2>3, <2>4
<1>22. SettledOnce'
  <2>1. Resolved' = Resolved /\ Resolved \subseteq DOMAIN log /\ settled \subseteq DOMAIN log
    BY <1>2, <1>6 DEF Resolved, InboxTold, IdsInUse, Foreigners
  <2>2. QED
    BY <1>2, <1>4, <1>6, <1>19, <1>20, <2>1 DEF SettledOnce
<1>23. RowsShown'
  <2> SUFFICES ASSUME NEW k \in Keys \ UnknownKeys PROVE RowShows(k)'
    BY DEF RowsShown
  <2> DEFINE r == rows[k]
  <2>1. RowShows(k)
    BY <1>6 DEF RowsShown
  <2>2. r \in Ids \cup {NoEvent} /\ r \in Nat /\ rows' = rows
    BY <1>2, Places, Typed
  <2> HIDE DEF r
  <2>3. ASSUME NEW u \in DOMAIN outbox, outbox[u].key = k, u \notin DOMAIN log
        PROVE  u <= r /\ r \in mine
    BY <2>1, <2>3 DEF RowShows, r
  <2>4. ASSUME NEW u \in DOMAIN outbox, outbox[u].key = k, u \notin DOMAIN log'
        PROVE  u <= r /\ r \in mine
    BY <1>8, <2>3, <2>4
  <2>5. \A e \in new : log'[e].key = k => e \in DOMAIN outbox \ DOMAIN log /\ outbox[e].key = k
    BY <1>4, <1>7, <1>8
  <2>6. ASSUME r \in mine, NEW o \in DOMAIN log' \cap mine, log'[o].key = k PROVE o <= r
    <3>1. CASE o \in DOMAIN log
      BY <1>4, <2>1, <2>6, <3>1 DEF RowShows, r
    <3>2. CASE o \in new
      BY <2>3, <2>5, <2>6, <3>2
    <3>3. QED
      BY <1>8, <2>6, <3>1, <3>2
  <2>7. ASSUME r \in DOMAIN log'
        PROVE  /\ log'[r].key = k /\ r \in mine \cup settled \cup Pending
               /\ \A e \in DOMAIN log' \cap (mine \cup settled) :
                    log'[e].key = k => log'[e].pos <= log'[r].pos \/ {r, e} \subseteq mine
    <3>1. CASE r \in DOMAIN log
      <4>1. /\ log[r].key = k /\ r \in mine \cup settled \cup Pending
            /\ \A e \in DOMAIN log \cap (mine \cup settled) :
                 log[e].key = k => log[e].pos <= log[r].pos \/ {r, e} \subseteq mine
        BY <2>1, <3>1 DEF RowShows, r
      <4>2. \A e \in new : log'[e].key = k => r \in mine /\ e \in mine
        BY <1>8, <2>3, <2>5
      <4>3. QED
        BY <1>4, <1>8, <3>1, <4>1, <4>2
    <3>2. CASE r \in new
      <4>1. r # NoEvent /\ r \notin DOMAIN log /\ r \in mine
        BY <1>8, <1>10, <3>2
      <4>2. log'[r].key = k
        BY <1>4, <2>1, <3>2, <4>1 DEF RowShows, r
      <4>3. ASSUME NEW e \in DOMAIN log' \cap (mine \cup settled)
            PROVE  log'[e].pos <= log'[r].pos \/ e \in mine
        <5>1. log'[e].pos \in Nat /\ log'[r].pos \in Nat
          BY <1>8, <1>10, <3>2
        <5>2. CASE e \in DOMAIN log
          BY <1>9, <3>2, <5>1, <5>2
        <5>3. QED
          BY <1>8, <5>2
      <4>4. QED
        BY <4>1, <4>2, <4>3
    <3>3. QED
      BY <1>8, <2>7, <3>1, <3>2
  <2>11. ASSUME r = NoEvent PROVE \A e \in DOMAIN log' \cap (mine \cup settled) : log'[e].key # k
    <3>1. \A e \in DOMAIN log \cap (mine \cup settled) : log[e].key # k
      BY <2>1, <2>11 DEF RowShows, r
    <3>2. \A e \in new : log'[e].key # k
      BY <1>10, <2>3, <2>5, <2>11
    <3>3. QED
      BY <1>4, <1>8, <3>1, <3>2
  <2>8. r # NoEvent /\ r \notin DOMAIN log' => r \in DOMAIN outbox /\ outbox[r].key = k
    BY <1>8, <2>1 DEF RowShows, r
  <2>9. Pending' = Pending
    BY <1>2 DEF Pending, Resolved
  <2>10. QED
    BY <1>2, <1>5, <2>2, <2>4, <2>6, <2>7, <2>8, <2>9, <2>11 DEF RowShows, r
<1>24. QED
  BY <1>2, <1>12, <1>14, <1>18, <1>21, <1>22, <1>23 DEF AgreeInv

(* A page of the log: all of it that is not settled, in its order.         *)
LEMMA FetchPageAgree ==
  ASSUME Inv, AgreeInv, FetchPage
  PROVE  AgreeInv'
<1>1. /\ UNCHANGED <<log, config, backend, mine, nextId, rows, outbox, inbox, dead, cursor, settled,
                     swaps>>
      /\ sync.phase = "ask"
      /\ sync' = IF Page = <<>> THEN AfterPull(sync.requeued)
                 ELSE [sync EXCEPT !.phase = "page", !.unchecked = FALSE, !.work = Page,
                         !.top = Page[Len(Page)].pos, !.more = Len(Page) = PageSize]
  BY DEF FetchPage, outside
<1>2. sync \in SyncType /\ sync.applied = NoEvent /\ sync.requeued \in BOOLEAN
  BY <1>1 DEF Inv, TypeOK, SyncType, AppliedIsAtHand
<1>3. CASE Page = <<>>
  BY <1>1, <1>2, <1>3, AfterPullType, RestAgree DEF Ends
<1>4. CASE Page # <<>>
  <2> SUFFICES ASSUME Steady' PROVE AgreeInv'
    BY <1>1 DEF AgreeInv
  <2> DEFINE n == Len(Page)
  <2>1. /\ sync'.phase = "page" /\ sync'.work = Page /\ sync'.top = Page[n].pos
        /\ sync'.applied = NoEvent
    BY <1>1, <1>2, <1>4 DEF SyncType
  <2>2. Steady
    BY <1>1 DEF Steady
  <2>3. /\ DOMAIN Page = 1..n /\ n \in DOMAIN Page
        /\ \A i \in DOMAIN Page : /\ Page[i].eid \in DOMAIN log
                                  /\ Page[i].key = log[Page[i].eid].key
                                  /\ Page[i].pos = log[Page[i].eid].pos
                                  /\ Page[i].pos > sync.since
        /\ \A i, j \in DOMAIN Page : i < j => Page[i].pos < Page[j].pos
        /\ \A e \in DOMAIN log : sync.since < log[e].pos /\ log[e].pos <= Page[n].pos
                                   => e \in Listed(Page)
    BY <1>4, PageIs
  <2> HIDE DEF n
  <2>4. \A i \in DOMAIN Page : Page[i].pos \in Nat
    BY <2>3, Places
  <2>5. \A i \in DOMAIN Page : Page[i].pos <= Page[n].pos
    <3> SUFFICES ASSUME NEW i \in DOMAIN Page PROVE Page[i].pos <= Page[n].pos
      OBVIOUS
    <3>1. i = n \/ i < n
      BY <2>3
    <3>2. QED
      BY <2>3, <2>4, <3>1
  <2>6. ItemsTold'
    BY <1>1, <2>1, <2>3, <2>5 DEF ItemsTold
  <2>7. /\ PlacesInLog /\ IdsInUse /\ OwnComesFirst /\ InboxTold /\ SettledInOrder
        /\ PageWhole /\ SettledOnce /\ RowsShown
    BY <2>2, Steadily
  <2>8. PageWhole'
    <3> SUFFICES ASSUME NEW e \in Foreigners, log[e].pos <= Page[n].pos
                 PROVE  e \in settled \cup Listed(Page)
      BY <1>1, <2>1 DEF PageWhole, Foreigners
    <3>1. CASE log[e].pos <= sync.since
      BY <1>1, <2>7, <3>1 DEF PageWhole, Passed
    <3>2. CASE sync.since < log[e].pos
      BY <2>3, <3>2 DEF Foreigners
    <3>3. QED
      BY <3>1, <3>2, Places, Typed DEF Foreigners
  <2>9. SettledOnce'
    <3>1. Resolved' = Resolved
      BY <1>1 DEF Resolved
    <3>2. ASSUME config.overlap = 0, NEW e \in settled
          PROVE  e \notin Listed(Page) /\ log[e].pos <= Page[n].pos
      <4>1. log[e].pos <= sync.since
        BY <1>1, <2>7, <3>2 DEF SettledOnce
      <4>2. log[e].pos \in Nat /\ sync.since \in Nat
        BY <2>7, Places, Typed DEF IdsInUse, Foreigners
      <4>3. QED
        BY <2>3, <2>4, <4>1, <4>2 DEF Listed
    <3>3. QED
      BY <1>1, <2>1, <2>7, <3>1, <3>2 DEF SettledOnce
  <2>10. PlacesInLog' /\ AppliedShown'
    <3>1. Page[n].pos <= Cardinality(DOMAIN log)
      BY <2>3, Typed DEF Inv, LogNumbered, Numbered
    <3>2. QED
      BY <1>1, <2>1, <2>7, <3>1 DEF PlacesInLog, AppliedShown
  <2>11. (IdsInUse /\ OwnComesFirst /\ InboxTold /\ SettledInOrder)'
    BY <1>1, <2>7 DEF IdsInUse, OwnComesFirst, InboxTold, SettledInOrder, Foreigners,
                      PassedBelow, Passed, Pending, Resolved
  <2>12. RowsShown'
    BY <1>1, <2>7 DEF RowsShown, RowShows, Pending, Resolved
  <2>13. QED
    BY <1>1, <2>6, <2>8, <2>9, <2>10, <2>11, <2>12 DEF AgreeInv
<1>5. QED
  BY <1>3, <1>4

(* Of a page that was worked through, everything is settled.               *)
LEMMA FinishPageAgree ==
  ASSUME Inv, AgreeInv, FinishPage
  PROVE  AgreeInv'
<1> SUFFICES ASSUME Steady' PROVE AgreeInv'
  BY DEF AgreeInv, FinishPage, outside
<1>1. /\ UNCHANGED <<log, config, backend, mine, rows, outbox, inbox, dead, settled, nextId, swaps>>
      /\ sync.phase = "page" /\ sync.work = <<>> /\ cursor' = sync.top
      /\ sync' = IF sync.more THEN [sync EXCEPT !.phase = "ask", !.since = sync.top]
                 ELSE AfterPull(sync.requeued)
  BY DEF FinishPage, outside
<1>2. sync \in SyncType /\ sync.applied = NoEvent /\ sync.requeued \in BOOLEAN
  BY <1>1 DEF Inv, TypeOK, SyncType, AppliedIsAtHand
<1>3. /\ sync'.work = <<>> /\ sync'.applied = NoEvent
      /\ \/ sync'.phase \in {"idle", "push", "load", "repush"}
         \/ sync'.phase = "ask" /\ sync'.since = sync.top
  <2>1. CASE sync.more
    BY <1>1, <1>2, <2>1 DEF SyncType
  <2>2. CASE ~sync.more
    BY <1>1, <1>2, <2>2, AfterPullType
  <2>3. QED
    BY <2>1, <2>2
<1>4. Steady
  BY <1>1 DEF Steady
<1>5. /\ PlacesInLog /\ IdsInUse /\ OwnComesFirst /\ InboxTold /\ SettledInOrder
      /\ PageWhole /\ SettledOnce /\ RowsShown
  BY <1>4, Steadily
<1>6. Passed(sync.top)
  <2>1. Listed(sync.work) = {}
    BY <1>1 DEF Listed
  <2>2. QED
    BY <1>1, <1>5, <2>1 DEF PageWhole, Passed
<1>7. SettledInOrder' /\ PageWhole' /\ ItemsTold' /\ AppliedShown' /\ PlacesInLog'
  <2>1. SettledInOrder'
    BY <1>1, <1>5, <1>6 DEF SettledInOrder, PassedBelow, Passed, Foreigners
  <2>2. PageWhole' /\ ItemsTold' /\ AppliedShown'
    BY <1>1, <1>3, <1>6 DEF PageWhole, Passed, Foreigners, ItemsTold, AppliedShown
  <2>3. PlacesInLog'
    BY <1>1, <1>3, <1>5 DEF PlacesInLog
  <2>4. QED
    BY <2>1, <2>2, <2>3
<1>8. SettledOnce'
  <2>1. Resolved' = Resolved
    BY <1>1 DEF Resolved
  <2>2. QED
    BY <1>1, <1>3, <1>5, <2>1 DEF SettledOnce
<1>9. (IdsInUse /\ OwnComesFirst /\ InboxTold)'
  BY <1>1, <1>5 DEF IdsInUse, OwnComesFirst, InboxTold, Foreigners, PassedBelow, Pending,
                    Resolved
<1>10. RowsShown'
  BY <1>1, <1>5 DEF RowsShown, RowShows, Pending, Resolved
<1>11. QED
  BY <1>1, <1>7, <1>8, <1>9, <1>10 DEF AgreeInv

(* The pending rows are of the log, in its order.                          *)
LEMMA LoadPendingAgree ==
  ASSUME Inv, AgreeInv, LoadPending
  PROVE  AgreeInv'
<1> SUFFICES ASSUME Steady' PROVE AgreeInv'
  BY DEF AgreeInv, LoadPending, outside, device
<1>1. /\ UNCHANGED <<log, config, backend, mine, rows, outbox, inbox, dead, cursor, settled, nextId,
                     swaps>>
      /\ sync.phase = "load" /\ sync' = [sync EXCEPT !.phase = "pending", !.work = PendingWork]
  BY DEF LoadPending, outside, device
<1>2. sync'.phase = "pending" /\ sync'.work = PendingWork /\ sync'.applied = NoEvent
  BY <1>1 DEF Inv, TypeOK, AppliedIsAtHand
<1>3. Steady
  BY <1>1 DEF Steady
<1>4. /\ PlacesInLog /\ IdsInUse /\ OwnComesFirst /\ InboxTold /\ SettledInOrder
      /\ SettledOnce /\ RowsShown
  BY <1>3, Steadily
<1>5. /\ \A i \in DOMAIN PendingWork :
           LET e == PendingWork[i].eid
           IN  e \in Pending /\ PendingWork[i].key = inbox[e].key /\ PendingWork[i].pos = inbox[e].pos
      /\ \A i, j \in DOMAIN PendingWork :
           i < j => PendingWork[i].eid # PendingWork[j].eid /\ PendingWork[i].pos <= PendingWork[j].pos
  BY PendingWorkIs DEF Inv
<1>6. \A i \in DOMAIN PendingWork :
        LET e == PendingWork[i].eid
        IN  /\ e \in DOMAIN log /\ PendingWork[i].key = log[e].key /\ PendingWork[i].pos = log[e].pos
            /\ e \in Pending
  BY <1>4, <1>5 DEF InboxTold, Pending
<1>7. \A i, j \in DOMAIN PendingWork : i < j => PendingWork[i].pos < PendingWork[j].pos
  <2> SUFFICES ASSUME NEW i \in DOMAIN PendingWork, NEW j \in DOMAIN PendingWork, i < j
               PROVE  PendingWork[i].pos < PendingWork[j].pos
    OBVIOUS
  <2>1. PendingWork[i].eid # PendingWork[j].eid /\ PendingWork[i].pos <= PendingWork[j].pos
    BY <1>5
  <2>2. PendingWork[i].pos # PendingWork[j].pos
    BY <1>6, <2>1, Places
  <2>3. PendingWork[i].pos \in Nat /\ PendingWork[j].pos \in Nat
    BY <1>6, Places
  <2>4. QED
    BY <2>1, <2>2, <2>3
<1>8. ItemsTold'
  <2>1. Pending' = Pending
    BY <1>1 DEF Pending, Resolved
  <2>2. QED
    BY <1>1, <1>2, <1>6, <1>7, <2>1 DEF ItemsTold
<1>9. PageWhole' /\ AppliedShown' /\ PlacesInLog'
  BY <1>1, <1>2, <1>4 DEF PageWhole, AppliedShown, PlacesInLog
<1>10. SettledOnce'
  <2>1. Resolved' = Resolved
    BY <1>1 DEF Resolved
  <2>2. QED
    BY <1>1, <1>2, <1>4, <2>1 DEF SettledOnce
<1>11. (IdsInUse /\ OwnComesFirst /\ InboxTold /\ SettledInOrder)'
  BY <1>1, <1>4 DEF IdsInUse, OwnComesFirst, InboxTold, SettledInOrder, Foreigners,
                    PassedBelow, Passed, Pending, Resolved
<1>12. RowsShown'
  BY <1>1, <1>4 DEF RowsShown, RowShows, Pending, Resolved
<1>13. QED
  BY <1>1, <1>8, <1>9, <1>10, <1>11, <1>12 DEF AgreeInv

(* Pruning saves the cursor first, so that what goes is not pulled again.  *)
LEMMA PruneAgree ==
  ASSUME Inv, AgreeInv, Restrained, NEW newestOut \in 0..MaxEvents, NEW newestIn \in 0..MaxEvents,
         Prune(newestOut, newestIn)
  PROVE  AgreeInv'
<1> SUFFICES ASSUME Steady' PROVE AgreeInv'
  BY DEF AgreeInv, Prune, outside
<1>1. /\ UNCHANGED <<log, config, backend, mine, rows, dead, settled, nextId, sync, swaps>>
      /\ sync.phase = "idle" /\ cursor' = EffectiveCursor /\ config.prune
  BY DEF Prune, outside
<1>2. /\ DOMAIN outbox' \subseteq DOMAIN outbox /\ \A e \in DOMAIN outbox' : outbox'[e] = outbox[e]
      /\ DOMAIN outbox \ DOMAIN outbox' \subseteq Confirmed
      /\ DOMAIN inbox' \subseteq DOMAIN inbox /\ \A e \in DOMAIN inbox' : inbox'[e] = inbox[e]
      /\ DOMAIN inbox \ DOMAIN inbox' \subseteq Resolved
  BY DEF Prune, Drop, Confirmed
<1>3. Steady
  BY <1>1 DEF Steady
<1>4. /\ PlacesInLog /\ IdsInUse /\ OwnComesFirst /\ InboxTold /\ SettledInOrder
      /\ SettledOnce /\ RowsShown /\ Confirmed \subseteq DOMAIN log
  BY <1>3, Steadily
<1>5. config.overlap = 0
  BY <1>1 DEF AgreeInv, Restrained
<1>6. Pending' = Pending
  BY <1>2 DEF Pending, Resolved
<1>7. DOMAIN outbox' \ DOMAIN log = DOMAIN outbox \ DOMAIN log
  BY <1>2, <1>4
<1>8. /\ Passed(EffectiveCursor) /\ EffectiveCursor <= Cardinality(DOMAIN log)
      /\ \A e \in settled : log[e].pos <= EffectiveCursor
  BY <1>3, <1>5, EffectivePassed
<1>9. sync.work = <<>> /\ sync.applied = NoEvent
  BY <1>1 DEF Inv, AppliedIsAtHand
<1>10. IdsInUse'
  BY <1>1, <1>2, <1>4 DEF IdsInUse, Foreigners
<1>11. OwnComesFirst'
  <2>1. mine \ DOMAIN log \subseteq DOMAIN outbox'
    BY <1>4, <1>7 DEF IdsInUse
  <2>2. QED
    BY <1>1, <1>2, <1>4, <2>1 DEF OwnComesFirst, Foreigners
<1>12. InboxTold' /\ SettledInOrder'
  BY <1>1, <1>2, <1>4, <1>6, <1>8 DEF InboxTold, SettledInOrder, PassedBelow, Passed, Foreigners
<1>13. ItemsTold' /\ PageWhole' /\ AppliedShown' /\ PlacesInLog'
  BY <1>1, <1>8, <1>9 DEF ItemsTold, PageWhole, AppliedShown, PlacesInLog
<1>14. SettledOnce'
  BY <1>1, <1>5, <1>8 DEF SettledOnce
<1>15. RowsShown'
  <2> SUFFICES ASSUME NEW k \in Keys \ UnknownKeys PROVE RowShows(k)'
    BY DEF RowsShown
  <2>1. RowShows(k)
    BY <1>4 DEF RowsShown
  <2>2. \A u \in DOMAIN outbox \ DOMAIN log : u \in DOMAIN outbox' /\ outbox'[u] = outbox[u]
    BY <1>2, <1>7
  <2>3. QED
    BY <1>1, <1>6, <1>7, <2>1, <2>2 DEF RowShows
<1>16. QED
  BY <1>1, <1>10, <1>11, <1>12, <1>13, <1>14, <1>15 DEF AgreeInv

(* The event at hand is of the log, and everything before it is settled.   *)
LEMMA ItemPassed ==
  ASSUME Inv, AgreeInv, Steady, sync.work # <<>>
  PROVE  /\ Item.eid \in DOMAIN log /\ Item.key = log[Item.eid].key /\ Item.pos = log[Item.eid].pos
         /\ PassedBelow(Item.pos)
         /\ sync.phase = "pending" => Item.eid \in Pending
         /\ sync.phase = "page" => Item.pos <= sync.top
         /\ sync.phase \in {"page", "pending"}
<1>1. ItemsTold /\ PageWhole /\ InboxTold
  BY Steadily
<1>2. 1 \in DOMAIN sync.work /\ sync.work[1] = Item /\ DOMAIN sync.work \subseteq Nat \ {0}
  BY AtHand DEF Inv
<1>3. /\ Item.eid \in DOMAIN log /\ Item.key = log[Item.eid].key /\ Item.pos = log[Item.eid].pos
      /\ sync.phase = "pending" => Item.eid \in Pending
      /\ sync.phase = "page" => Item.pos <= sync.top
  BY <1>1, <1>2 DEF ItemsTold
<1>4. sync.phase \in {"page", "pending"}
  BY DEF Inv, AppliedIsAtHand
<1>5. CASE sync.phase = "pending"
  BY <1>1, <1>3, <1>5 DEF InboxTold, Pending
<1>6. CASE sync.phase = "page"
  <2> SUFFICES ASSUME NEW e \in Foreigners, log[e].pos < Item.pos PROVE e \in settled
    BY <1>3, <1>4, <1>6 DEF PassedBelow
  <2>1. log[e].pos \in Nat /\ Item.pos \in Nat /\ sync.top \in Nat
    BY <1>3, Places, Typed DEF Foreigners
  <2>2. log[e].pos <= sync.top
    BY <1>3, <1>6, <2>1
  <2>3. ASSUME NEW i \in DOMAIN sync.work, sync.work[i].eid = e PROVE FALSE
    <3>1. sync.work[i].pos = log[e].pos
      BY <1>1, <2>3 DEF ItemsTold
    <3>2. i = 1 \/ 1 < i
      BY <1>2
    <3>3. 1 < i => Item.pos < sync.work[i].pos
      BY <1>1, <1>2 DEF ItemsTold
    <3>4. QED
      BY <1>2, <2>1, <3>1, <3>2, <3>3
  <2>4. QED
    BY <1>1, <1>6, <2>2, <2>3 DEF PageWhole, Listed
<1>7. QED
  BY <1>3, <1>4, <1>5, <1>6

(* What a replay is about to write is a foreign event not seen before.     *)
LEMMA ReplaysNew ==
  ASSUME Inv, AgreeInv, Steady, ToReplay
  PROVE  Item.eid \in Foreigners \ settled
<1>1. sync.work # <<>> /\ (sync.phase = "page" => ~IsLocalOrigin(Item.eid) /\ Item.eid \notin Resolved)
  BY DEF ToReplay, AtItem
<1>2. Item.eid \in DOMAIN log /\ sync.phase \in {"page", "pending"}
      /\ (sync.phase = "pending" => Item.eid \in Pending)
  BY <1>1, ItemPassed
<1>3. InboxTold /\ SettledOnce
  BY Steadily
<1>4. CASE sync.phase = "pending"
  BY <1>2, <1>3, <1>4 DEF InboxTold, Pending, Foreigners
<1>5. CASE sync.phase = "page"
  <2>1. Item.eid \notin mine /\ Item.eid \notin Resolved
    BY <1>1, <1>5 DEF IsLocalOrigin
  <2>2. Item.eid \in Listed(sync.work)
    BY <1>1, AtHand DEF Listed, Inv
  <2>3. Item.eid \notin settled
    BY <1>3, <1>5, <2>1, <2>2 DEF SettledOnce
  <2>4. QED
    BY <1>2, <2>1, <2>3 DEF Foreigners
<1>6. QED
  BY <1>2, <1>4, <1>5

LEMMA MarkIs ==
  ASSUME Inv, NEW b \in BOOLEAN, NEW n, Mark(b, n)
  PROVE  /\ DOMAIN inbox' = DOMAIN inbox \cup {Item.eid}
         /\ \A e \in DOMAIN inbox' :
              \/ e = Item.eid /\ inbox'[e].key = Item.key /\ inbox'[e].pos = Item.pos
              \/ e # Item.eid /\ e \in DOMAIN inbox /\ inbox'[e] = inbox[e]
         /\ Resolved' = IF b THEN Resolved \cup {Item.eid} ELSE Resolved \ {Item.eid}
         /\ Pending'  = IF b THEN Pending \ {Item.eid} ELSE Pending \cup {Item.eid}
<1>1. /\ DOMAIN inbox' = DOMAIN inbox \cup {Item.eid}
      /\ \A e \in DOMAIN inbox' :
           inbox'[e] = IF e = Item.eid
                       THEN [key |-> Item.key, pos |-> Item.pos, sync |-> b, attempts |-> n]
                       ELSE inbox[e]
  BY DEF Mark, Put
<1>2. Resolved' = IF b THEN Resolved \cup {Item.eid} ELSE Resolved \ {Item.eid}
  <2>1. \A e \in DOMAIN inbox' : inbox'[e].sync <=> IF e = Item.eid THEN b ELSE inbox[e].sync
    BY <1>1
  <2>2. \A e : e \in Resolved' <=> e \in DOMAIN inbox' /\ inbox'[e].sync
    BY DEF Resolved
  <2>3. \A e : e \in Resolved <=> e \in DOMAIN inbox /\ inbox[e].sync
    BY DEF Resolved
  <2>4. \A e : e \in Resolved' <=> e \in IF b THEN Resolved \cup {Item.eid} ELSE Resolved \ {Item.eid}
    BY <1>1, <2>1, <2>2, <2>3
  <2>5. QED
    BY <2>4
<1>3. Pending' = IF b THEN Pending \ {Item.eid} ELSE Pending \cup {Item.eid}
  BY <1>1, <1>2 DEF Pending
<1>4. QED
  BY <1>1, <1>2, <1>3

(* A foreign event is taken up: its inbox row is written, its row perhaps. *)
LEMMA TakenAgree ==
  ASSUME Inv, AgreeInv, Steady', sync.work # <<>>, Item.eid \in Foreigners \ settled,
         NEW n, Mark(FALSE, n),
         UNCHANGED <<log, config, backend, mine, outbox, dead, cursor, settled, nextId, swaps>>,
         \/ Ends(sync') /\ rows' = rows
         \/ /\ sync' = [sync EXCEPT !.applied = Item.eid]
            /\ rows' = [rows EXCEPT ![Item.key] = Item.eid]
            /\ Item.key \notin UnknownKeys
  PROVE  AgreeInv'
<1>1. Steady
  BY DEF Steady
<1>2. /\ PlacesInLog /\ IdsInUse /\ OwnComesFirst /\ InboxTold /\ SettledInOrder
      /\ ItemsTold /\ PageWhole /\ SettledOnce /\ RowsShown
  BY <1>1, Steadily
<1>3. /\ Item.eid \in DOMAIN log /\ Item.key = log[Item.eid].key /\ Item.pos = log[Item.eid].pos
      /\ PassedBelow(Item.pos) /\ Item.eid \notin mine /\ Item.eid \notin settled
  BY <1>1, ItemPassed DEF Foreigners
<1>4. /\ DOMAIN inbox' = DOMAIN inbox \cup {Item.eid}
      /\ \A e \in DOMAIN inbox' :
           \/ e = Item.eid /\ inbox'[e].key = Item.key /\ inbox'[e].pos = Item.pos
           \/ e # Item.eid /\ e \in DOMAIN inbox /\ inbox'[e] = inbox[e]
      /\ Resolved' = Resolved /\ Pending' = Pending \cup {Item.eid}
  <2>1. Item.eid \notin Resolved
    BY <1>3 DEF Inv, ResolvedIsSettled
  <2>2. QED
    BY <2>1, MarkIs
<1>5. /\ \/ Ends(sync')
         \/ /\ sync'.phase = sync.phase /\ sync'.work = sync.work /\ sync'.top = sync.top
            /\ sync'.since = sync.since /\ sync'.applied = Item.eid
  BY DEF Inv, TypeOK
<1>6. InboxTold'
  <2>1. \A e \in DOMAIN inbox' : /\ e \in DOMAIN log /\ inbox'[e].key = log[e].key
                                 /\ inbox'[e].pos = log[e].pos /\ PassedBelow(log[e].pos)
    BY <1>2, <1>3, <1>4 DEF InboxTold
  <2>2. \A e \in Pending' : e \notin mine \cup settled
    BY <1>2, <1>3, <1>4 DEF InboxTold, Pending
  <2>3. QED
    BY <1>4, <2>1, <2>2 DEF InboxTold, PassedBelow, Foreigners
<1>7. (IdsInUse /\ OwnComesFirst /\ SettledInOrder)'
  BY <1>2 DEF IdsInUse, OwnComesFirst, SettledInOrder, Foreigners, PassedBelow, Passed
<1>8. ItemsTold' /\ PageWhole' /\ SettledOnce' /\ PlacesInLog'
  <2>1. CASE Ends(sync')
    BY <1>2, <1>4, <2>1 DEF Ends, ItemsTold, PageWhole, SettledOnce, PlacesInLog
  <2>2. CASE /\ sync'.phase = sync.phase /\ sync'.work = sync.work /\ sync'.top = sync.top
             /\ sync'.since = sync.since
    <3>1. ItemsTold' /\ PlacesInLog'
      BY <1>2, <1>4, <2>2 DEF ItemsTold, PlacesInLog
    <3>2. PageWhole'
      BY <1>2, <2>2 DEF PageWhole, Passed, Foreigners
    <3>3. SettledOnce'
      BY <1>2, <1>4, <2>2 DEF SettledOnce
    <3>4. QED
      BY <3>1, <3>2, <3>3
  <2>3. QED
    BY <1>5, <2>1, <2>2
<1>9. AppliedShown'
  <2>1. CASE Ends(sync')
    BY <2>1 DEF Ends, AppliedShown
  <2>2. CASE ~Ends(sync')
    <3>1. sync'.applied = Item.eid /\ sync'.work = sync.work
      BY <1>5, <2>2
    <3>2. Item' = Item
      BY <3>1 DEF Item
    <3>3. Item.key \in Keys
      BY <1>3, Places
    <3>4. rows'[Item.key] = Item.eid /\ Item.key \notin UnknownKeys
      BY <2>2, <3>3, Typed
    <3>5. QED
      BY <1>4, <3>1, <3>2, <3>4 DEF AppliedShown
  <2>3. QED
    BY <2>1, <2>2
<1>10. RowsShown'
  <2> SUFFICES ASSUME NEW k \in Keys \ UnknownKeys PROVE RowShows(k)'
    BY DEF RowsShown
  <2>1. RowShows(k) /\ Pending \subseteq Pending'
    BY <1>2, <1>4 DEF RowsShown
  <2>2. CASE rows'[k] = rows[k]
    BY <2>1, <2>2 DEF RowShows
  <2>3. CASE rows'[k] # rows[k]
    <3>1. k = Item.key /\ rows'[k] = Item.eid
      BY <2>3, Typed
    <3>2. /\ \A o \in mine \cap DOMAIN log : log[o].key = k => log[o].pos < Item.pos
          /\ \A o \in mine \ DOMAIN log : outbox[o].key # k
      BY <1>2, <1>3, <3>1 DEF OwnComesFirst, Foreigners
    <3>3. ASSUME NEW e \in DOMAIN log \cap (mine \cup settled), log[e].key = k
          PROVE  log[e].pos <= Item.pos
      <4>1. log[e].pos \in Nat /\ Item.pos \in Nat
        BY <1>3, Places
      <4>2. CASE e \in mine
        BY <3>2, <3>3, <4>1, <4>2
      <4>3. CASE e \in settled
        <5>1. ~(Item.pos < log[e].pos)
          BY <1>2, <1>3, <4>3 DEF SettledInOrder, PassedBelow, Foreigners
        <5>2. QED
          BY <4>1, <5>1
      <4>4. QED
        BY <4>2, <4>3
    <3>4. Item.eid # NoEvent /\ DOMAIN outbox \subseteq mine
      BY <1>3, Places, Typed
    <3>5. QED
      BY <1>3, <1>4, <3>1, <3>2, <3>3, <3>4 DEF RowShows
  <2>4. QED
    BY <2>2, <2>3
<1>11. QED
  BY <1>6, <1>7, <1>8, <1>9, <1>10 DEF AgreeInv

(* The event at hand is done with, and the next one is at hand.            *)
LEMMA AdvancedAgree ==
  ASSUME Inv, AgreeInv, Steady', sync.work # <<>>, sync' = NextItem,
         UNCHANGED <<log, config, backend, mine, rows, outbox, dead, cursor, nextId, swaps>>,
         Item.eid \in mine \cup settled', settled' \subseteq Foreigners,
         \/ settled' = settled
         \/ /\ settled' = settled \cup {Item.eid} /\ Item.eid \in Resolved'
            /\ Item.key \in UnknownKeys \/ rows[Item.key] = Item.eid,
         Resolved \subseteq Resolved', Pending' = Pending \ {Item.eid},
         \A e \in DOMAIN inbox' :
           \/ e = Item.eid /\ inbox'[e].key = Item.key /\ inbox'[e].pos = Item.pos
           \/ e \in DOMAIN inbox /\ inbox'[e] = inbox[e]
  PROVE  AgreeInv'
<1>1. Steady
  BY DEF Steady
<1>2. /\ PlacesInLog /\ IdsInUse /\ OwnComesFirst /\ InboxTold /\ SettledInOrder
      /\ ItemsTold /\ PageWhole /\ SettledOnce /\ RowsShown
  BY <1>1, Steadily
<1>3. /\ Item.eid \in DOMAIN log /\ Item.key = log[Item.eid].key /\ Item.pos = log[Item.eid].pos
      /\ PassedBelow(Item.pos) /\ sync.phase \in {"page", "pending"}
      /\ sync.phase = "page" => Item.pos <= sync.top
  BY <1>1, ItemPassed
<1>4. settled \subseteq settled' /\ settled' \subseteq settled \cup {Item.eid}
  OBVIOUS
<1>5. /\ sync'.phase = sync.phase /\ sync'.work = Tail(sync.work) /\ sync'.top = sync.top
      /\ sync'.applied = NoEvent
  BY DEF NextItem, Inv, TypeOK
<1>6. /\ \A i \in DOMAIN Tail(sync.work) : i + 1 \in DOMAIN sync.work /\ Tail(sync.work)[i] = sync.work[i + 1]
      /\ \A i \in DOMAIN sync.work \ {1} : /\ i - 1 \in DOMAIN Tail(sync.work)
                                          /\ Tail(sync.work)[i - 1] = sync.work[i]
      /\ 1 \in DOMAIN sync.work /\ sync.work[1] = Item
      /\ DOMAIN sync.work \subseteq Nat \ {0} /\ DOMAIN Tail(sync.work) \subseteq Nat \ {0}
  <2>1. Tail(sync.work) \in Seq(Items)
    BY AtHand DEF Inv
  <2>2. DOMAIN Tail(sync.work) \subseteq Nat \ {0}
    BY <2>1, LenProperties
  <2>3. QED
    BY <2>2, AtHand DEF Inv
<1>7. /\ \A p : PassedBelow(p) => \A e \in Foreigners' : log'[e].pos < p => e \in settled'
      /\ \A p : Passed(p) => \A e \in Foreigners' : log'[e].pos <= p => e \in settled'
  BY <1>4 DEF PassedBelow, Passed, Foreigners
<1>8. InboxTold'
  <2>1. \A e \in DOMAIN inbox' : /\ e \in DOMAIN log /\ inbox'[e].key = log[e].key
                                 /\ inbox'[e].pos = log[e].pos /\ PassedBelow(log[e].pos)
    BY <1>2, <1>3 DEF InboxTold
  <2>2. \A e \in Pending' : e \notin mine \cup settled'
    BY <1>2, <1>4 DEF InboxTold, Pending
  <2>3. QED
    BY <1>7, <2>1, <2>2 DEF InboxTold, PassedBelow
<1>9. SettledInOrder'
  <2>1. \A e \in settled' : PassedBelow(log[e].pos)
    BY <1>2, <1>3, <1>4 DEF SettledInOrder
  <2>2. QED
    BY <1>2, <1>7, <2>1 DEF SettledInOrder, PassedBelow, Passed
<1>10. (IdsInUse /\ OwnComesFirst)'
  BY <1>2, <1>4 DEF IdsInUse, OwnComesFirst, Foreigners
<1>11. ASSUME NEW i \in DOMAIN Tail(sync.work)
       PROVE  /\ Tail(sync.work)[i].eid \in DOMAIN log /\ Tail(sync.work)[i].eid # Item.eid
              /\ Tail(sync.work)[i].key = log[Tail(sync.work)[i].eid].key
              /\ Tail(sync.work)[i].pos = log[Tail(sync.work)[i].eid].pos
              /\ sync.phase = "pending" => Tail(sync.work)[i].eid \in Pending
              /\ sync.phase = "page" => Tail(sync.work)[i].pos <= sync.top
  <2>1. i + 1 \in DOMAIN sync.work /\ Tail(sync.work)[i] = sync.work[i + 1] /\ 1 < i + 1
    BY <1>6
  <2>2. Item.pos < sync.work[i + 1].pos
    BY <1>2, <1>6, <2>1 DEF ItemsTold
  <2>3. Item.pos \in Nat
    BY <1>3, Places
  <2>4. Tail(sync.work)[i].pos # Item.pos
    BY <2>1, <2>2, <2>3
  <2>5. QED
    BY <1>2, <1>3, <2>1, <2>4 DEF ItemsTold
<1>12. ItemsTold'
  <2>1. ASSUME NEW i \in DOMAIN Tail(sync.work), NEW j \in DOMAIN Tail(sync.work), i < j
        PROVE  Tail(sync.work)[i].pos < Tail(sync.work)[j].pos
    <3>1. /\ i + 1 \in DOMAIN sync.work /\ Tail(sync.work)[i] = sync.work[i + 1]
          /\ j + 1 \in DOMAIN sync.work /\ Tail(sync.work)[j] = sync.work[j + 1]
          /\ i + 1 < j + 1
      BY <1>6, <2>1
    <3>2. QED
      BY <1>2, <3>1 DEF ItemsTold
  <2>2. QED
    BY <1>5, <1>11, <2>1 DEF ItemsTold
<1>13. Listed(sync.work) \subseteq Listed(Tail(sync.work)) \cup {Item.eid}
  <2> SUFFICES ASSUME NEW i \in DOMAIN sync.work, sync.work[i].eid # Item.eid
               PROVE  sync.work[i].eid \in Listed(Tail(sync.work))
    BY DEF Listed
  <2>1. i # 1
    BY <1>6
  <2>2. QED
    BY <1>6, <2>1 DEF Listed
<1>14. /\ Item.eid \notin Listed(Tail(sync.work))
       /\ Listed(Tail(sync.work)) \subseteq Listed(sync.work)
  BY <1>6, <1>11 DEF Listed
<1>15. PageWhole' /\ AppliedShown' /\ PlacesInLog'
  <2>1. sync'.phase # "ask"
    BY <1>3, <1>5
  <2>2. PageWhole'
    BY <1>2, <1>4, <1>5, <1>13, <2>1 DEF PageWhole, Foreigners
  <2>3. AppliedShown'
    BY <1>5 DEF AppliedShown
  <2>4. PlacesInLog'
    BY <1>2, <1>5, <2>1 DEF PlacesInLog
  <2>5. QED
    BY <2>2, <2>3, <2>4
<1>16. SettledOnce'
  <2>1. sync'.phase # "ask"
    BY <1>3, <1>5
  <2>2. CASE config.overlap = 0
    <3>1. ASSUME NEW e \in settled'
          PROVE  log[e].pos <= cursor \/ \E r \in Resolved' : log[e].pos <= log[r].pos
      <4>1. CASE e \in settled
        BY <1>2, <2>2, <4>1 DEF SettledOnce
      <4>2. CASE e \notin settled
        <5>1. e = Item.eid /\ Item.eid \in Resolved' /\ log[e].pos \in Nat
          BY <1>3, <1>4, <3>1, <4>2, Places
        <5>2. log[e].pos <= log[e].pos
          BY <5>1
        <5>3. QED
          BY <5>1, <5>2
      <4>3. QED
        BY <4>1, <4>2
    <3>2. ASSUME sync.phase = "page", NEW e \in settled'
          PROVE  e \notin Listed(Tail(sync.work)) /\ log[e].pos <= sync.top
      BY <1>2, <1>3, <1>4, <1>14, <2>2, <3>2 DEF SettledOnce
    <3>3. QED
      BY <1>5, <2>1, <2>2, <3>1, <3>2 DEF SettledOnce
  <2>3. CASE config.overlap # 0
    BY <1>2, <2>3 DEF SettledOnce
  <2>4. QED
    BY <2>2, <2>3
<1>17. RowsShown'
  <2> SUFFICES ASSUME NEW k \in Keys \ UnknownKeys PROVE RowShows(k)'
    BY DEF RowsShown
  <2> DEFINE r == rows[k]
  <2>1. RowShows(k)
    BY <1>2 DEF RowsShown
  <2>2. mine \cup settled \cup Pending \subseteq mine \cup settled' \cup Pending'
    BY <1>4
  <2>3. CASE settled' = settled
    BY <2>1, <2>2, <2>3 DEF RowShows
  <2>4. CASE settled' # settled /\ k # Item.key
    <3>1. \A e \in DOMAIN log \cap (mine \cup settled') :
            log[e].key = k => e \in DOMAIN log \cap (mine \cup settled)
      BY <1>3, <1>4, <2>4
    <3>2. QED
      BY <2>1, <2>2, <3>1 DEF RowShows
  <2>5. CASE settled' # settled /\ k = Item.key
    <3>1. r = Item.eid
      BY <2>5
    <3>2. log[r].pos \in Nat /\ r \in DOMAIN log /\ r # NoEvent /\ r \notin mine
      BY <1>3, <2>5, <3>1, Places DEF Foreigners
    <3>3. \A e \in DOMAIN log \cap (mine \cup settled') : log[e].key = k => log[e].pos <= log[r].pos
      <4>1. \A e \in DOMAIN log \cap (mine \cup settled) : log[e].key = k => log[e].pos <= log[r].pos
        BY <2>1, <3>2 DEF RowShows
      <4>2. log[r].pos <= log[r].pos
        BY <3>2
      <4>3. QED
        BY <1>4, <3>1, <4>1, <4>2
    <3>4. QED
      BY <2>1, <2>2, <3>2, <3>3 DEF RowShows
  <2>6. QED
    BY <2>3, <2>4, <2>5
<1>18. QED
  BY <1>8, <1>9, <1>10, <1>12, <1>15, <1>16, <1>17 DEF AgreeInv

(* An event that gets its inbox row resolved.                              *)
LEMMA ResolvedAgree ==
  ASSUME Inv, AgreeInv, Steady', sync.work # <<>>, sync' = NextItem, NEW n, Mark(TRUE, n),
         UNCHANGED <<log, config, backend, mine, rows, outbox, dead, cursor, nextId, swaps>>,
         \/ settled' = settled /\ Item.eid \in mine
         \/ /\ Settle /\ Item.eid \in Foreigners
            /\ Item.key \in UnknownKeys \/ rows[Item.key] = Item.eid
  PROVE  AgreeInv'
<1>1. /\ Resolved' = Resolved \cup {Item.eid} /\ Pending' = Pending \ {Item.eid}
      /\ \A e \in DOMAIN inbox' :
           \/ e = Item.eid /\ inbox'[e].key = Item.key /\ inbox'[e].pos = Item.pos
           \/ e \in DOMAIN inbox /\ inbox'[e] = inbox[e]
  BY MarkIs
<1>2. settled \subseteq Foreigners
  BY Steadily DEF Steady, IdsInUse
<1>3. Item.eid \in mine \cup settled' /\ settled' \subseteq Foreigners
  BY <1>2 DEF Settle
<1>4. \/ settled' = settled
      \/ /\ settled' = settled \cup {Item.eid} /\ Item.eid \in Resolved'
         /\ Item.key \in UnknownKeys \/ rows[Item.key] = Item.eid
  BY <1>1 DEF Settle
<1>5. QED
  BY <1>1, <1>3, <1>4, AdvancedAgree

(* An event that was seen before.                                          *)
LEMMA SeenAgree ==
  ASSUME Inv, AgreeInv, Steady', sync.work # <<>>, sync' = NextItem,
         UNCHANGED <<log, config, backend, mine, rows, outbox, inbox, dead, cursor, settled, nextId, swaps>>,
         Item.eid \in mine \/ Item.eid \in Resolved
  PROVE  AgreeInv'
<1>1. settled \subseteq Foreigners /\ InboxTold
  BY Steadily DEF Steady, IdsInUse
<1>2. Resolved' = Resolved /\ Pending' = Pending
  BY DEF Resolved, Pending
<1>3. Item.eid \in mine \cup settled /\ Item.eid \notin Pending
  BY <1>1 DEF Inv, ResolvedIsSettled, InboxTold, Pending
<1>4. QED
  BY <1>1, <1>2, <1>3, AdvancedAgree

(* What happens to one event, case by case.                                *)
LEMMA ReplayingAgree ==
  ASSUME Inv, AgreeInv, Skipping \/ Apply \/ Resolve \/ Failing \/ CrashBeforeApply \/ CrashInPark
  PROVE  AgreeInv'
<1>1. UNCHANGED <<config, swaps>> /\ log' = log /\ mine' = mine /\ outbox' = outbox /\ cursor' = cursor
      /\ backend' = backend /\ nextId' = nextId
  BY DEF Skipping, SkipOwn, SkipResolved, SkipUnknown, HaltAtUnknown, Apply, Resolve, Failing,
         FailAndRetry, FailAndPark, CrashBeforeApply, CrashInPark, Restart, outside, device
<1> SUFFICES ASSUME Steady' PROVE AgreeInv'
  BY <1>1 DEF AgreeInv
<1>2. CASE SkipOwn
  <2>1. /\ sync.work # <<>> /\ sync' = NextItem /\ UNCHANGED <<rows, dead, settled>>
        /\ Item.eid \in mine
    BY <1>2, Typed DEF SkipOwn, AtItem, IsLocalOrigin
  <2>2. CASE inbox' = inbox
    BY <1>1, <2>1, <2>2, SeenAgree
  <2>3. CASE Mark(TRUE, Attempts)
    BY <1>1, <2>1, <2>3, ResolvedAgree
  <2>4. QED
    BY <1>2, <2>2, <2>3 DEF SkipOwn
<1>3. CASE SkipResolved
  BY <1>1, <1>3, SeenAgree DEF SkipResolved, AtItem, device
<1>4. ASSUME ToReplay, dead' = dead PROVE sync.work # <<>> /\ sync.applied = NoEvent /\ Steady
  BY <1>1, <1>4 DEF ToReplay, AtItem, Steady
<1>5. CASE SkipUnknown
  BY <1>1, <1>4, <1>5, ReplaysNew, ResolvedAgree DEF SkipUnknown, Unknown
<1>6. CASE HaltAtUnknown
  BY <1>1, <1>4, <1>6, HaltEnds, ReplaysNew, TakenAgree DEF HaltAtUnknown
<1>7. CASE Apply
  BY <1>1, <1>4, <1>7, ReplaysNew, TakenAgree DEF Apply, Unknown
<1>8. CASE Resolve
  <2>1. /\ sync.applied # NoEvent /\ sync.work # <<>> /\ sync' = NextItem /\ UNCHANGED <<rows, dead>>
        /\ Mark(TRUE, Attempts) /\ Settle
    BY <1>8 DEF Resolve, Inv, AppliedIsAtHand
  <2>2. Steady
    BY <1>1, <2>1 DEF Steady
  <2>3. Item.eid \in Pending /\ rows[Item.key] = Item.eid
    BY <2>1, <2>2, Steadily DEF AppliedShown
  <2>4. Item.eid \in Foreigners
    BY <2>2, <2>3, Steadily DEF InboxTold, Pending, Foreigners
  <2>5. QED
    BY <1>1, <2>1, <2>3, <2>4, ResolvedAgree
<1>9. CASE FailAndRetry
  BY <1>1, <1>4, <1>9, HaltEnds, ReplaysNew, TakenAgree DEF FailAndRetry, ReplayThrows
<1>10. CASE dead' = dead \cup {Item.eid}
  BY <1>10 DEF Steady
<1>13. CASE CrashInPark /\ dead' = dead
  <2>1. ToReplay /\ Rests(sync') /\ Mark(FALSE, Attempts + 1) /\ UNCHANGED <<rows, settled>>
    BY <1>13, RestartRests DEF CrashInPark, ReplayThrows
  <2>2. QED
    BY <1>1, <1>4, <1>13, <2>1, RestsEnds, ReplaysNew, TakenAgree
<1>11. CASE CrashBeforeApply
  BY <1>1, <1>4, <1>11, RestartRests, RestsEnds, ReplaysNew, TakenAgree DEF CrashBeforeApply
<1>12. QED
  BY <1>2, <1>3, <1>5, <1>6, <1>7, <1>8, <1>9, <1>10, <1>11, <1>13
     DEF Skipping, Failing, FailAndPark, CrashInPark

LEMMA NextAgree ==
  ASSUME Inv, AgreeInv, Restrained, [Next]_vars
  PROVE  AgreeInv'
<1>1. CASE Others
  BY <1>1, EditAgree, ForeignAgree DEF Others
<1>2. CASE Replacing
  BY <1>2 DEF Replacing, SwapBackend, AgreeInv, Steady
<1>3. ASSUME Ends(sync'),
             UNCHANGED <<log, config, backend, mine, nextId, rows, outbox, inbox, dead, cursor,
                         settled, swaps>>
      PROVE  AgreeInv'
  BY <1>3, RestAgree
<1>4. CASE Starting
  <2>1. Rests(sync')
    BY <1>4, IdleType DEF Starting, StartSync, StartReplay, Rests, SyncType, Phases
  <2>2. QED
    BY <1>3, <1>4, <2>1, RestsEnds DEF Starting, StartSync, StartReplay, device, outside
<1>5. CASE Upload
  BY <1>5, UploadAgree
<1>6. CASE FetchPage
  BY <1>6, FetchPageAgree
<1>7. CASE ResetCursor \/ CrashInReset \/ CrashAfterIdentity
  <2>1. Resetting /\ UNCHANGED <<config, swaps, dead>>
    BY <1>7 DEF ResetCursor, CrashInReset, CrashAfterIdentity, Restart, outside
  <2>2. ~Steady
    BY <2>1, Steadily DEF Resetting
  <2>3. QED
    BY <2>1, <2>2 DEF AgreeInv, Steady
<1>8. CASE PullFails
  <2>1. sync' = AfterPush
    BY <1>8 DEF PullFails, AfterPull
  <2>2. QED
    BY <1>3, <1>8, <2>1, AfterPushRests, RestsEnds DEF PullFails, device, outside
<1>9. CASE FinishPage \/ LoadPending
  BY <1>9, FinishPageAgree, LoadPendingAgree
<1>10. CASE FinishReplay
  BY <1>3, <1>10, AfterPushRests, RestsEnds DEF FinishReplay, device, outside
<1>11. CASE Pruning
  BY <1>11, PruneAgree DEF Pruning
<1>12. CASE Crash
  BY <1>3, <1>12, RestartRests, RestsEnds DEF Crash, Restart, device
<1>13. CASE Skipping \/ Apply \/ Resolve \/ Failing \/ CrashBeforeApply \/ CrashInPark
  BY <1>13, ReplayingAgree
<1>14. CASE UNCHANGED vars
  <2>1. UNCHANGED <<log, config, backend, mine, nextId, rows, outbox, inbox, dead, cursor, settled,
                    swaps, sync>>
    BY <1>14 DEF vars
  <2>2. SUFFICES ASSUME Steady' PROVE AgreeInv'
    BY <2>1 DEF AgreeInv
  <2>3. Steady /\ Pending' = Pending /\ Resolved' = Resolved /\ Foreigners' = Foreigners /\ Item' = Item
    <3>1. Steady
      BY <2>1, <2>2 DEF Steady
    <3>2. Foreigners' = Foreigners /\ Item' = Item
      BY <2>1 DEF Foreigners, Item
    <3>3. Pending' = Pending /\ Resolved' = Resolved
      BY <2>1 DEF Pending, Resolved
    <3>4. QED
      BY <3>1, <3>2, <3>3
  <2>4. (PlacesInLog /\ IdsInUse /\ OwnComesFirst /\ InboxTold /\ SettledInOrder)'
    BY <2>1, <2>3, Steadily DEF PlacesInLog, IdsInUse, OwnComesFirst, InboxTold,
                                SettledInOrder, PassedBelow, Passed
  <2>5. (ItemsTold /\ PageWhole /\ SettledOnce /\ AppliedShown)'
    BY <2>1, <2>3, Steadily DEF ItemsTold, PageWhole, SettledOnce, AppliedShown, Passed
  <2>6. RowsShown'
    BY <2>1, <2>3, Steadily DEF RowsShown, RowShows
  <2>7. QED
    BY <2>1, <2>4, <2>5, <2>6 DEF AgreeInv
<1>15. QED
  BY <1>1, <1>2, <1>4, <1>5, <1>6, <1>7, <1>8, <1>9, <1>10, <1>11, <1>12, <1>13, <1>14
     DEF Next, Pulling, Replaying, Finishing, Crashing

(* A row of a device that caught up shows the head of the server's log.    *)
LEMMA AgreesCaughtUp ==
  ASSUME Inv, AgreeInv, swaps = 0, CaughtUp, NEW k \in Keys \ UnknownKeys
  PROVE  HeadOf(k) = (IF rows[k] = NoEvent THEN {} ELSE {rows[k]}) \/ Overtaken(k)
<1>1. /\ Unsent = {} /\ Pending = {} /\ dead = {}
      /\ \A e \in DOMAIN log : log[e].pos <= EffectiveCursor
  BY DEF CaughtUp
<1>2. Steady
  BY <1>1 DEF Steady
<1>3. IdsInUse /\ RowShows(k) /\ Confirmed \subseteq DOMAIN log
  BY <1>2, Steadily DEF RowsShown
<1>4. Passed(EffectiveCursor)
  BY <1>2, EffectivePassed
<1>5. DOMAIN outbox \subseteq DOMAIN log
  BY <1>1, <1>3 DEF Confirmed
<1>6. DOMAIN log \subseteq mine \cup settled
  BY <1>1, <1>4 DEF Passed, Foreigners
<1>7. CASE rows[k] = NoEvent
  BY <1>3, <1>6, <1>7 DEF RowShows, HeadOf
<1>8. CASE rows[k] # NoEvent
  <2>1. rows[k] \in DOMAIN log /\ log[rows[k]].key = k
    BY <1>3, <1>5, <1>8 DEF RowShows
  <2>2. PICK h \in HeadOf(k) : h \in DOMAIN log /\ log[h].key = k
                              /\ log[rows[k]].pos <= log[h].pos
    BY <2>1, HeadIs DEF HeadOf
  <2>3. CASE log[h].pos <= log[rows[k]].pos
    <3>1. h = rows[k]
      BY <2>1, <2>2, <2>3, Places
    <3>2. QED
      BY <1>8, <2>2, <3>1, HeadIs
  <2>4. CASE rows[k] \in mine /\ h \in mine
    <3>1. h <= rows[k] /\ h \in Nat /\ rows[k] \in Nat
      BY <1>3, <2>2, <2>4, Typed DEF RowShows
    <3>2. CASE h = rows[k]
      BY <1>8, <2>2, <3>2, HeadIs
    <3>3. CASE h # rows[k]
      BY <2>1, <2>2, <2>4, <3>1, <3>3 DEF Overtaken
    <3>4. QED
      BY <3>2, <3>3
  <2>5. QED
    BY <1>3, <1>6, <2>1, <2>2, <2>3, <2>4 DEF RowShows
<1>9. QED
  BY <1>7, <1>8

-----------------------------------------------------------------------------
(* Where no edit comes between a replayed row and its inbox mark and no    *)
(* pruned event is pulled again, and where no row is edited by two devices *)
(* at once (the guards of Edit and Foreign), a device whose server was     *)
(* never replaced and that has nothing left to send, pull or replay shows  *)
(* the server's newest event of every row it knows, or a later edit of its *)
(* own that was stored before an earlier one: replayInbox and replayEvent  *)
(* apply the foreign events in the server's order, whatever pages,         *)
(* failures, retries and crashes there were and in whatever order the push *)
(* got this device's events stored.                                        *)
THEOREM RowsAgree ==
  ASSUME ~SwiftEdits, \A c \in Configs : c.prune => c.overlap = 0
  PROVE  Spec => []ConvergesOnOneStore
<1>1. Restrained
  BY DEF Restrained
<1>2. Init => AgreeInv
  BY InitAgree
<1>3. Inv /\ AgreeInv /\ [Next]_vars => AgreeInv'
  BY <1>1, NextAgree
<1>4. Inv /\ AgreeInv => ConvergesOnOneStore
  BY AgreesCaughtUp DEF ConvergesOnOneStore, Converges
<1>5. QED
  BY <1>2, <1>3, <1>4, Invariance, PTL DEF Spec
=============================================================================
