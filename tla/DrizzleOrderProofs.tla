-------------------------- MODULE DrizzleOrderProofs -------------------------
(***************************************************************************)
(* The order in which the outbound half of the drizzle engine sends the    *)
(* events of a row, and what it gives: a device that writes alone is never *)
(* in conflict with itself, and once everything is sent, confirmed and     *)
(* replayed the device and the server agree on every row.                  *)
(***************************************************************************)
EXTENDS DrizzlePushProofs

-----------------------------------------------------------------------------
(* The order of the log, and agreement.  Where the server does not fail it *)
(* and nothing was parked, a device has its events stored in the order of  *)
(* its edits, whatever crashes and whatever calls fail; an event whose     *)
(* base the server will never accept is the only thing that can come in    *)
(* between, and that one stays.                                            *)

(* An event, waiting or in the outbox.                                     *)
Ours       == DOMAIN pending \cup DOMAIN outbox
EntryOf(e) == IF e \in DOMAIN pending THEN pending[e] ELSE outbox[e]

(* Nothing has failed, and others write only where edits and syncs do not  *)
(* overlap and versions are kept.                                          *)
Peaceful == /\ config.faults = {} /\ NoOverlap /\ (config.foreign # {} => config.versions)
            /\ DOMAIN dead = {}

(* An event of the outbox that the server refuses now and ever after: it   *)
(* knows the row, and the base is not its newest event and never will be.  *)
Refusable(c, b) ==
  /\ c \notin DOMAIN log /\ b # NoEvent
  /\ \E f \in DOMAIN log : log[f].key = outbox[c].key
  /\ b \notin HeadOf(outbox[c].key)
  /\ b \in DOMAIN log \/ (b \notin Ours /\ b < nextId)
Hopeless(c) == Refusable(c, outbox[c].base)
Hopeful     == Peaceful /\ ~Blind /\ \A c \in DOMAIN outbox : ~Hopeless(c)

(* A device that writes alone, with versions, and lost nothing.            *)
Smooth == /\ config.foreign = {} /\ config.faults = {}
          /\ config.versions /\ crashes = 0 /\ lost = {}

(* Without versions no event has a base, and none is ever in conflict.     *)
NoBases ==
  ~config.versions =>
    /\ \A e \in DOMAIN pending : pending[e].base = NoEvent
    /\ \A e \in DOMAIN outbox : outbox[e].base = NoEvent
    /\ \A g \in push.open : \A b \in g : b.base = NoEvent
    /\ \A e \in DOMAIN push.answer : push.answer[e] # "conflict"

(* Nothing is late or put off, and the server has a verdict on everything. *)
Unfaulted ==
  /\ late = {} /\ \A e \in DOMAIN outbox : outbox[e].wait = 0
  /\ \A e \in DOMAIN push.answer : push.answer[e] \in {"confirmed", "conflict", "rejected"}

(* The server has what the outbox has and what others wrote, at places     *)
(* counted from one.                                                       *)
Theirs == DOMAIN log \ Ids
LogTrue ==
  /\ IsFiniteSet(DOMAIN log)
  /\ \A e \in DOMAIN log : log[e].pos \in 1..Cardinality(DOMAIN log) /\ log[e].key \in Keys
  /\ \A e \in Stored : /\ e \in DOMAIN outbox
                       /\ log[e].key = outbox[e].key /\ log[e].type = outbox[e].type
  /\ Theirs \subseteq config.foreign
  /\ \A e, f \in DOMAIN log : log[e].pos = log[f].pos => e = f
  /\ \A e \in DOMAIN outbox : outbox[e].synced => e \in DOMAIN log

(* The groups of a request follow each other, each of one run, and say     *)
(* what the outbox says.                                                   *)
Below(S, T) == \A e \in S, f \in T : e < f
GroupsInOrder(r) == \A g, h \in r : g # h => Below(Eids(g), Eids(h)) \/ Below(Eids(h), Eids(g))
BodiesWhole ==
  \A g \in push.open :
    OneRun(g) /\ \A b \in g : b.eid \in DOMAIN outbox /\ b = Body(b.eid)

(* A base is an older event of the row, or one of another device that was  *)
(* replayed.  It may be of a call that failed.                             *)
BaseKnown(b, k) ==
  /\ b \in Ids => b < nextId /\ (b \in Ours => EntryOf(b).key = k)
  /\ b \notin Ids /\ b # NoEvent => b \in replayed /\ b \in DOMAIN log /\ log[b].key = k
BasesKnown ==
  /\ \A e \in Ours : /\ BaseKnown(EntryOf(e).base, EntryOf(e).key)
                     /\ EntryOf(e).base \in Ids => EntryOf(e).base < e
  /\ \A k \in Keys : BaseKnown(heads[k], k) /\ heads[k] \notin DOMAIN pending

(* Within a run every event is based on the one before it on its row.      *)
InRun(d, c) == EntryOf(d).key = EntryOf(c).key /\ EntryOf(d).tx = EntryOf(c).tx /\ d < c
Lives(c)    == c \in DOMAIN pending => Alive(c)
RunChain ==
  config.versions => \A c, d \in Ours : InRun(d, c) /\ Lives(c) =>
    \/ EntryOf(c).base = d
    \/ EntryOf(c).base \in Ours /\ d < EntryOf(c).base /\ InRun(EntryOf(c).base, c)

(* What others write suits what was stored of the row before.              *)
Before(f) == {e \in DOMAIN log : log[e].key = log[f].key /\ log[e].pos < log[f].pos}
Tops(S)   == {e \in S : \A f \in S : log[f].pos <= log[e].pos}
TypesFollow ==
  \A f \in Theirs : log[f].type = "insert" <=> \A e \in Tops(Before(f)) : log[e].type = "delete"

Truthful ==
  /\ Unfaulted /\ LogTrue /\ GroupsInOrder(push.open) /\ BodiesWhole
  /\ BasesKnown /\ RunChain /\ TypesFollow /\ replayed \subseteq Theirs

(* The events of a row are stored in the order of their ids; with an event *)
(* of a row, what is stored or on its way holds the older ones.            *)
AllConfirming == \A e \in DOMAIN push.answer : push.answer[e] = "confirmed"
LogInOrder ==
  \A e, f \in Stored : log[e].key = log[f].key /\ e < f => log[e].pos < log[f].pos
Down(S) == \A f \in S, e \in DOMAIN outbox : outbox[e].key = outbox[f].key /\ e < f => e \in S
OpenIds == Eids(Events(push.open))
SentInOrder == Down(Stored) /\ Down(Stored \cup OpenIds) /\ Down(Stored \cup OpenIds \cup push.due)

(* Others' events are replayed in the order of the log, and before an edit *)
(* that is stored after them.                                              *)
ReplayedInOrder == \A f \in replayed, g \in Theirs : log[g].pos < log[f].pos => g \in replayed
Foreseen ==
  \A e \in Stored, f \in Theirs :
    log[f].key = log[e].key /\ log[f].pos < log[e].pos => f \in replayed

(* A sync without edits has everything in hand that is not stored.         *)
AllSent == ~config.busy /\ Syncing => DOMAIN outbox \subseteq Stored \cup OpenIds \cup push.due

(* A row shows the device's last event that is not stored, else the newest *)
(* of what is stored and known.                                            *)
Unstored(k) == {e \in DOMAIN outbox \ DOMAIN log : outbox[e].key = k}
SeenOf(k)   == {e \in DOMAIN log : log[e].key = k /\ e \in Ids \cup replayed}
Shows(k, e, type) == rows[k].val = e /\ rows[k].live = (type # "delete")
RowShows(k) ==
  /\ Unstored(k) # {} => Shows(k, Last(Unstored(k)), outbox[Last(Unstored(k))].type)
  /\ Unstored(k) = {} => /\ SeenOf(k) = {} => ~rows[k].live
                         /\ \A e \in Tops(SeenOf(k)) : Shows(k, e, log[e].type)
RowsShow == \A k \in Keys : RowShows(k)

InLine ==
  /\ AllConfirming /\ LogInOrder /\ SentInOrder /\ ReplayedInOrder /\ Foreseen /\ AllSent
  /\ RowsShow

(* With versions, and nothing lost, every event is based on the one before *)
(* it on its row.                                                          *)
Previous(e) == {f \in Ours : EntryOf(f).key = EntryOf(e).key /\ f < e}
BaseChain   == \A e \in Ours : EntryOf(e).base = Newest(Previous(e))

LineInv ==
  /\ NoBases
  /\ Peaceful => Truthful
  /\ Hopeful => InLine
  /\ Smooth => Peaceful /\ BaseChain /\ InLine

-----------------------------------------------------------------------------
(* The groups of a batch.                                                  *)

(* A group begins with its first event.                                    *)
LEMMA FirstOfGroup ==
  ASSUME NEW g, g # {}, \A b \in g : b.seq \in Nat
  PROVE  First(g) \in g /\ \A c \in g : First(g).seq <= c.seq
<1>1. {b.seq : b \in g} \subseteq Nat /\ {b.seq : b \in g} # {}
  OBVIOUS
<1>2. PICK x \in {b.seq : b \in g} : \A y \in {b.seq : b \in g} : x <= y
  BY <1>1, MinExists
<1>3. \E b \in g : \A c \in g : b.seq <= c.seq
  BY <1>2
<1>4. QED
  BY <1>3 DEF First

(* Events in a run with the same third event are in a run with each other. *)
LEMMA RunsMerge ==
  ASSUME NEW events, \A b \in events : b.seq \in Nat,
         NEW x \in events, NEW y \in events, NEW c \in events, NEW d \in events,
         SameRun(events, x, c), SameRun(events, y, c), SameRun(events, x, d)
  PROVE  SameRun(events, y, d)
<1>1. y.tx = d.tx /\ x.tx = c.tx /\ y.tx = c.tx
  BY DEF SameRun
<1>2. ASSUME NEW z \in events, z.tx # y.tx
      PROVE  (z.seq < y.seq /\ z.seq < d.seq) \/ (z.seq > y.seq /\ z.seq > d.seq)
  <2>1. /\ (z.seq < x.seq /\ z.seq < c.seq) \/ (z.seq > x.seq /\ z.seq > c.seq)
        /\ (z.seq < y.seq /\ z.seq < c.seq) \/ (z.seq > y.seq /\ z.seq > c.seq)
        /\ (z.seq < x.seq /\ z.seq < d.seq) \/ (z.seq > x.seq /\ z.seq > d.seq)
    BY <1>1, <1>2 DEF SameRun
  <2>2. z.seq \in Nat /\ x.seq \in Nat /\ y.seq \in Nat /\ c.seq \in Nat /\ d.seq \in Nat
    OBVIOUS
  <2>3. QED
    BY <2>1, <2>2
<1>3. QED
  BY <1>1, <1>2 DEF SameRun

(* Runs of the same events do not mix.                                     *)
LEMMA RunsApart ==
  ASSUME NEW events, \A b \in events : b.seq \in Nat /\ b.eid = b.seq,
         \A b, c \in events : b.seq = c.seq => b = c,
         NEW g \in Groups(events), NEW h \in Groups(events), g # h
  PROVE  Below(Eids(g), Eids(h)) \/ Below(Eids(h), Eids(g))
<1>1. PICK x \in events, y \in events : /\ g = {c \in events : SameRun(events, x, c)}
                                        /\ h = {c \in events : SameRun(events, y, c)}
  BY DEF Groups
<1>2. ASSUME NEW c \in g, c \in h PROVE FALSE
  <2>1. c \in events /\ SameRun(events, x, c) /\ SameRun(events, y, c)
    BY <1>1, <1>2
  <2>2. \A d \in events : SameRun(events, x, d) <=> SameRun(events, y, d)
    BY <2>1, RunsMerge
  <2>3. QED
    BY <1>1, <2>2
<1>3. \A b \in g, c \in h : b.seq # c.seq
  BY <1>1, <1>2
<1>4. ASSUME NEW z \in events, NEW b \in events, SameRun(events, z, b),
             NEW c \in events, ~SameRun(events, z, c)
      PROVE  (c.seq < z.seq /\ c.seq < b.seq) \/ (c.seq > z.seq /\ c.seq > b.seq)
  <2>1. c.tx # z.tx \/ \E d \in events : /\ ~(d.seq < z.seq /\ d.seq < c.seq)
                                         /\ ~(d.seq > z.seq /\ d.seq > c.seq)
                                         /\ d.tx # z.tx
    BY <1>4 DEF SameRun
  <2>2. CASE c.tx # z.tx
    BY <1>4, <2>2 DEF SameRun
  <2>3. CASE c.tx = z.tx
    <3>1. PICK d \in events : /\ ~(d.seq < z.seq /\ d.seq < c.seq)
                              /\ ~(d.seq > z.seq /\ d.seq > c.seq)
                              /\ d.tx # z.tx
      BY <2>1, <2>3
    <3>2. (d.seq < z.seq /\ d.seq < b.seq) \/ (d.seq > z.seq /\ d.seq > b.seq)
      BY <1>4, <3>1 DEF SameRun
    <3>3. d.seq \in Nat /\ z.seq \in Nat /\ b.seq \in Nat /\ c.seq \in Nat
      OBVIOUS
    <3>4. QED
      BY <3>1, <3>2, <3>3
  <2>4. QED
    BY <2>2, <2>3
<1>5. /\ \A b \in g, c \in h : (c.seq < x.seq /\ c.seq < b.seq) \/ (c.seq > x.seq /\ c.seq > b.seq)
      /\ \A b \in h, c \in g : (c.seq < y.seq /\ c.seq < b.seq) \/ (c.seq > y.seq /\ c.seq > b.seq)
  BY <1>1, <1>2, <1>4
<1>6. /\ \A b \in g : b.seq \in Nat /\ b.eid = b.seq
      /\ \A b \in h : b.seq \in Nat /\ b.eid = b.seq
      /\ x.seq \in Nat /\ y.seq \in Nat
  BY <1>1
<1>7. x \in g /\ y \in h
  <2>1. SameRun(events, x, x) /\ SameRun(events, y, y)
    <3>1. \A z \in events : z.seq < x.seq \/ z.seq > x.seq \/ z = x
      OBVIOUS
    <3>2. \A z \in events : z.seq < y.seq \/ z.seq > y.seq \/ z = y
      OBVIOUS
    <3>3. QED
      BY <3>1, <3>2 DEF SameRun
  <2>2. QED
    BY <1>1, <2>1
<1>8. CASE x.seq < y.seq
  <2>1. \A b \in g : b.seq < y.seq
    BY <1>5, <1>6, <1>7, <1>8
  <2>2. \A b \in g, c \in h : b.seq < c.seq
    BY <1>5, <1>6, <1>7, <1>8, <2>1
  <2>3. QED
    BY <1>6, <2>2 DEF Below, Eids
<1>9. CASE ~(x.seq < y.seq)
  <2>1. \A b \in h : b.seq < x.seq
    BY <1>3, <1>5, <1>6, <1>7, <1>9
  <2>2. \A b \in g, c \in h : c.seq < b.seq
    BY <1>5, <1>6, <1>7, <1>9, <2>1
  <2>3. QED
    BY <1>6, <2>2 DEF Below, Eids
<1>10. QED
  BY <1>8, <1>9

(* A batch is the first of what is due, in groups one after the other.     *)
LEMMA BatchLine ==
  ASSUME Inv, NEW S, S \subseteq DOMAIN outbox
  PROVE  /\ GroupsInOrder(NextBatch(S))
         /\ \A g \in NextBatch(S) : g # {} /\ \A b \in g : b.eid \in S /\ b = Body(b.eid)
         /\ \A f \in Eids(Events(NextBatch(S))), e \in S :
              e < f => e \in Eids(Events(NextBatch(S)))
<1> DEFINE E == {Body(e) : e \in S}
           G == Groups(E)
<1>1. S \subseteq Ids /\ Ids \subseteq Nat
  BY IdFacts DEF Committed
<1>2. \A e \in S : Body(e).eid = e /\ Body(e).seq = e
  BY DEF Body
<1>3. /\ \A b \in E : b.seq \in Nat /\ b.eid = b.seq /\ b.eid \in S /\ b = Body(b.eid)
      /\ \A b, c \in E : b.seq = c.seq => b = c
  BY <1>1, <1>2
<1>4. \A e \in S : Body(e) \in E
  OBVIOUS
<1>5. NextBatch(S) = {g \in G : g = Head1(G) \/ Cardinality(Events(UpTo(G, g))) <= BatchSize}
  BY DEF NextBatch
<1>6. IsFiniteSet(E)
  <2>1. IsFiniteSet(S)
    <3>1. MaxIds \in Nat /\ Ids \subseteq 1..MaxIds
      BY IdFacts
    <3>2. IsFiniteSet(1..MaxIds)
      BY <3>1, FS_Interval
    <3>3. S \in SUBSET (1..MaxIds)
      BY <1>1, <3>1
    <3>4. QED
      BY <3>2, <3>3, FS_Subset
  <2>2. [e \in S |-> Body(e)] \in Surjection(S, E)
    BY DEF Surjection
  <2>3. QED
    BY <2>1, <2>2, FS_Surjection
<1> HIDE DEF E
<1>7. ASSUME NEW b \in E
      PROVE  b \in {c \in E : SameRun(E, b, c)} /\ {c \in E : SameRun(E, b, c)} \in G
  <2>1. \A z \in E : z.seq < b.seq \/ z.seq > b.seq \/ z = b
    BY <1>3
  <2>2. SameRun(E, b, b)
    BY <2>1 DEF SameRun
  <2>3. QED
    BY <2>2 DEF Groups
<1>8. \A g \in G : g # {} /\ g \subseteq E
  BY <1>7 DEF Groups
<1>9. \A g, h \in G : g # h => Below(Eids(g), Eids(h)) \/ Below(Eids(h), Eids(g))
  BY <1>3, RunsApart
<1>10. \A g \in G : First(g) \in g /\ First(g).seq \in Nat /\ First(g).eid = First(g).seq
  <2>1. ASSUME NEW g \in G PROVE First(g) \in g
    <3>1. g # {} /\ \A b \in g : b.seq \in Nat
      BY <1>3, <1>8
    <3>2. QED
      BY <3>1, FirstOfGroup
  <2>2. QED
    BY <1>3, <1>8, <2>1
<1> HIDE DEF G
<1>11. ASSUME NEW g \in NextBatch(S), NEW h \in G, g # h, Below(Eids(h), Eids(g))
       PROVE  h \in NextBatch(S)
  <2>1. g \in G
    BY <1>5
  <2>2. First(h).seq < First(g).seq
    BY <1>10, <1>11, <2>1 DEF Below, Eids
  <2>3. ~(First(g).seq <= First(h).seq)
    BY <1>10, <2>1, <2>2
  <2>4. \E x \in G : \A y \in G : First(x).seq <= First(y).seq
    <3> DEFINE T == {First(x).seq : x \in G}
    <3>1. T \subseteq Nat /\ T # {}
      BY <1>10, <2>1
    <3> HIDE DEF T
    <3>2. PICK x \in T : \A y \in T : x <= y
      BY <3>1, MinExists
    <3>3. QED
      BY <3>2 DEF T
  <2>5. Head1(G) \in G /\ \A y \in G : First(Head1(G)).seq <= First(y).seq
    BY <2>4 DEF Head1
  <2>6. g # Head1(G)
    BY <2>3, <2>5
  <2>7. Cardinality(Events(UpTo(G, g))) <= BatchSize
    BY <1>5, <2>6
  <2>8. UpTo(G, h) \subseteq UpTo(G, g)
    <3>1. ASSUME NEW x \in G, First(x).seq <= First(h).seq PROVE First(x).seq <= First(g).seq
      BY <1>10, <2>1, <2>2, <3>1
    <3>2. QED
      BY <3>1 DEF UpTo
  <2>9. Events(UpTo(G, h)) \subseteq Events(UpTo(G, g)) /\ Events(UpTo(G, g)) \subseteq E
    BY <1>8, <2>8 DEF Events, UpTo
  <2>10. PICK A, B : A = Events(UpTo(G, h)) /\ B = Events(UpTo(G, g))
    OBVIOUS
  <2>11. IsFiniteSet(B) /\ IsFiniteSet(A) /\ Cardinality(A) <= Cardinality(B)
    BY <1>6, <2>9, <2>10, FS_Subset
  <2>12. Cardinality(A) \in Nat /\ Cardinality(B) \in Nat /\ BatchSize \in Nat
    BY <2>11, FS_CardinalityType, ConfigsAssumption
  <2>13. Cardinality(A) <= BatchSize
    BY <2>7, <2>10, <2>11, <2>12
  <2>14. QED
    BY <1>5, <2>10, <2>13
<1>12. ASSUME NEW f \in Eids(Events(NextBatch(S))), NEW e \in S, e < f
       PROVE  e \in Eids(Events(NextBatch(S)))
  <2>1. PICK g \in NextBatch(S) : f \in Eids(g)
    BY DEF Eids, Events
  <2>2. PICK b \in E : b.eid = e
    BY <1>2, <1>4
  <2>3. PICK h \in G : b \in h
    BY <1>7
  <2>4. e \in Eids(h) /\ g \in G
    BY <1>5, <2>2, <2>3 DEF Eids
  <2>5. h = g \/ h \in NextBatch(S)
    <3>1. ASSUME h # g PROVE Below(Eids(h), Eids(g))
      <4>1. e \in Nat /\ f \in Nat
        <5>1. \A c \in g : c.eid \in Nat
          BY <1>3, <1>8, <2>4
        <5>2. QED
          BY <1>1, <2>1, <5>1 DEF Eids
      <4>2. ~(f < e)
        BY <1>12, <4>1
      <4>3. QED
        BY <1>9, <2>1, <2>4, <3>1, <4>2 DEF Below
    <3>2. QED
      BY <1>11, <3>1
  <2>6. QED
    BY <2>1, <2>4, <2>5 DEF Eids, Events
<1>13. GroupsInOrder(NextBatch(S))
  BY <1>5, <1>9 DEF GroupsInOrder
<1>14. QED
  BY <1>3, <1>5, <1>8, <1>12, <1>13

(* No group of a request comes before its first.                           *)
LEMMA HeadIsFirst ==
  ASSUME Inv, RowInv, RunInv, NEW g, g = Head1(push.open), push.open # {},
         NEW h \in push.open, h # g, GroupsInOrder(push.open)
  PROVE  g \in push.open /\ Below(Eids(g), Eids(h))
<1>1. Sent(push.open, Held) /\ \A x \in push.open : TrueGroup(x)
  BY TrueGroups DEF Inv, Sending
<1>2. \A x \in push.open : First(x) \in x /\ First(x).seq \in Nat /\ First(x).eid = First(x).seq
  <2>1. ASSUME NEW x \in push.open PROVE First(x) \in x
    <3>1. x # {} /\ \A b \in x : b.seq \in Nat
      BY <1>1 DEF Sent
    <3>2. QED
      BY <3>1, FirstOfGroup
  <2>2. QED
    BY <1>1, <2>1 DEF Sent, TrueGroup
<1>3. \E x \in push.open : \A y \in push.open : First(x).seq <= First(y).seq
  <2> DEFINE T == {First(x).seq : x \in push.open}
  <2>1. T \subseteq Nat /\ T # {}
    BY <1>2
  <2> HIDE DEF T
  <2>2. PICK x \in T : \A y \in T : x <= y
    BY <2>1, MinExists
  <2>3. QED
    BY <2>2 DEF T
<1>4. g \in push.open /\ First(g).seq <= First(h).seq
  BY <1>3 DEF Head1
<1>5. ~Below(Eids(h), Eids(g))
  <2>1. First(h).eid \in Eids(h) /\ First(g).eid \in Eids(g)
    BY <1>2, <1>4 DEF Eids
  <2>2. ~(First(h).seq < First(g).seq)
    BY <1>2, <1>4
  <2>3. QED
    BY <1>2, <1>4, <2>1, <2>2 DEF Below
<1>6. QED
  BY <1>4, <1>5 DEF GroupsInOrder

(* A log that has the group appended, in order.                            *)
AppendsInOrder(g, new) ==
  /\ DOMAIN new = DOMAIN log \cup Eids(g) /\ IsFiniteSet(DOMAIN new)
  /\ \A e \in DOMAIN log : new[e] = log[e]
  /\ \A b \in g : b.eid \notin DOMAIN log =>
       new[b.eid].key = b.key /\ new[b.eid].type = b.type
  /\ \A e \in DOMAIN new : new[e].pos \in 1..Cardinality(DOMAIN new)
  /\ \A e \in DOMAIN log, f \in DOMAIN new \ DOMAIN log : new[e].pos < new[f].pos
  /\ \A e, f \in DOMAIN new \ DOMAIN log : e < f => new[e].pos < new[f].pos

(* What the server appends comes after what it has, in order.              *)
LEMMA AppendedInOrder ==
  ASSUME IsFiniteSet(DOMAIN log), \A e \in DOMAIN log : log[e].pos \in 1..Cardinality(DOMAIN log),
         NEW g, IsFiniteSet(Eids(g)), \A b \in g : b.seq = b.eid /\ b.eid \in Nat,
         \A b, c \in g : b.eid = c.eid => b = c,
         NEW new, new = Appended(g)
  PROVE  AppendsInOrder(g, new)
<1> DEFINE added == Eids(Fresh(g))
           upto(e) == Eids({c \in Fresh(g) : c.seq <= e})
           n == Cardinality(DOMAIN log)
<1>1. DOMAIN new = DOMAIN log \cup Eids(g) /\ IsFiniteSet(DOMAIN new)
  <2>1. DOMAIN new = DOMAIN log \cup Eids(g)
    BY DEF Appended
  <2>2. IsFiniteSet(DOMAIN log \cup Eids(g))
    BY FS_Union
  <2>3. QED
    BY <2>1, <2>2
<1>2. \A e \in DOMAIN log : new[e] = log[e]
  BY DEF Appended
<1>3. /\ DOMAIN new \ DOMAIN log = added /\ added \cap DOMAIN log = {}
      /\ DOMAIN new = DOMAIN log \cup added /\ added \subseteq Eids(g)
  BY <1>1 DEF Fresh, Eids
<1>4. n \in Nat
  BY FS_CardinalityType
<1>5. ASSUME NEW b \in g, b.eid \notin DOMAIN log
      PROVE  /\ new[b.eid].key = b.key /\ new[b.eid].type = b.type
             /\ new[b.eid].pos = n + Cardinality(upto(b.eid))
  <2>1. (CHOOSE c \in g : c.eid = b.eid) = b
    OBVIOUS
  <2>2. b.eid \in Eids(g) /\ b.seq = b.eid
    BY DEF Eids
  <2>3. new[b.eid] = StoredEvent(b, n + Cardinality(upto(b.eid)))
    BY <1>5, <2>1, <2>2 DEF Appended
  <2>4. QED
    BY <2>3 DEF StoredEvent
<1>6. ASSUME NEW e \in added
      PROVE  /\ new[e].pos = n + Cardinality(upto(e))
             /\ IsFiniteSet(upto(e)) /\ upto(e) \subseteq added /\ e \in upto(e)
             /\ Cardinality(upto(e)) \in Nat /\ Cardinality(upto(e)) > 0
  <2>1. PICK b \in Fresh(g) : b.eid = e
    BY DEF Eids
  <2>2. b \in g /\ b.eid \notin DOMAIN log /\ b.seq <= e
    BY <2>1 DEF Fresh
  <2>3. new[e].pos = n + Cardinality(upto(e))
    BY <1>5, <2>1, <2>2
  <2>4. upto(e) \subseteq added /\ e \in upto(e)
    BY <2>1, <2>2 DEF Eids
  <2> HIDE DEF upto, added
  <2>5. IsFiniteSet(added)
    BY <1>3, FS_Subset
  <2>6. IsFiniteSet(upto(e))
    BY <2>4, <2>5, FS_Subset
  <2>7. Cardinality(upto(e)) \in Nat /\ Cardinality(upto(e)) # 0
    BY <2>4, <2>6, FS_CardinalityType, FS_EmptySet
  <2>8. QED
    BY <2>3, <2>4, <2>6, <2>7
<1>7. Cardinality(DOMAIN new) = n + Cardinality(added) /\ Cardinality(added) \in Nat
      /\ IsFiniteSet(added)
  <2> HIDE DEF added
  <2>1. IsFiniteSet(added)
    BY <1>3, FS_Subset
  <2>2. Cardinality(DOMAIN log \cup added) = n + Cardinality(added) - Cardinality(DOMAIN log \cap added)
    BY <2>1, FS_Union
  <2>3. Cardinality(DOMAIN log \cap added) = 0
    BY <1>3, FS_EmptySet
  <2>4. Cardinality(added) \in Nat
    BY <2>1, FS_CardinalityType
  <2>5. QED
    BY <1>3, <1>4, <2>1, <2>2, <2>3, <2>4
<1>8. ASSUME NEW e \in added, NEW f \in added, e < f PROVE new[e].pos < new[f].pos
  <2>1. \A x \in added : x \in Nat
    BY DEF Eids, Fresh
  <2>2. upto(e) \subseteq upto(f)
    <3>1. ASSUME NEW c \in Fresh(g), c.seq <= e PROVE c.seq <= f
      <4>1. c.seq \in Nat /\ e \in Nat /\ f \in Nat
        BY <2>1 DEF Fresh
      <4>2. QED
        BY <1>8, <3>1, <4>1
    <3>2. QED
      BY <3>1 DEF Eids
  <2>3. f \notin upto(e)
    <3>1. ASSUME NEW c \in Fresh(g), c.seq <= e, c.eid = f PROVE FALSE
      <4>1. c.seq = f /\ e \in Nat /\ f \in Nat
        BY <2>1, <3>1 DEF Fresh
      <4>2. QED
        BY <1>8, <3>1, <4>1
    <3>2. QED
      BY <3>1 DEF Eids
  <2>4. PICK A, B : A = upto(e) /\ B = upto(f)
    OBVIOUS
  <2>5. /\ new[e].pos = n + Cardinality(A) /\ new[f].pos = n + Cardinality(B)
        /\ IsFiniteSet(B) /\ A \subseteq B /\ A # B
        /\ Cardinality(A) \in Nat /\ Cardinality(B) \in Nat
    BY <1>6, <2>2, <2>3, <2>4
  <2>6. Cardinality(A) <= Cardinality(B) /\ Cardinality(A) # Cardinality(B)
    BY <2>5, FS_Subset
  <2>7. QED
    BY <1>4, <2>5, <2>6
<1>9. ASSUME NEW e \in added PROVE new[e].pos \in Nat /\ new[e].pos > n /\ new[e].pos <= n + Cardinality(added)
  <2>1. PICK A : A = upto(e)
    OBVIOUS
  <2>2. new[e].pos = n + Cardinality(A) /\ Cardinality(A) \in Nat /\ Cardinality(A) > 0 /\ A \subseteq added
    BY <1>6, <2>1
  <2>3. Cardinality(A) <= Cardinality(added)
    BY <1>7, <2>2, FS_Subset
  <2>4. QED
    BY <1>4, <1>7, <2>2, <2>3
<1> HIDE DEF added, n
<1>10. ASSUME NEW e \in DOMAIN log PROVE new[e].pos \in Nat /\ new[e].pos >= 1 /\ new[e].pos <= n
  BY <1>2, <1>4 DEF n
<1>11. \A e \in DOMAIN new : new[e].pos \in 1..Cardinality(DOMAIN new)
  <2>1. ASSUME NEW e \in DOMAIN new PROVE new[e].pos \in 1..(n + Cardinality(added))
    <3>1. CASE e \in DOMAIN log
      BY <1>4, <1>7, <1>10, <3>1
    <3>2. CASE e \in added
      BY <1>4, <1>7, <1>9, <3>2
    <3>3. QED
      BY <1>3, <3>1, <3>2
  <2>2. QED
    BY <1>7, <2>1
<1>12. \A e \in DOMAIN log, f \in added : new[e].pos < new[f].pos
  BY <1>4, <1>9, <1>10
<1>13. QED
  BY <1>1, <1>2, <1>3, <1>5, <1>8, <1>11, <1>12 DEF AppendsInOrder

-----------------------------------------------------------------------------
(* Nothing parked: every event is in one place.                            *)

(* What is committed is in the outbox, and what is not waits.              *)
LEMMA PeacefulFacts ==
  ASSUME Inv, RowInv, Peaceful
  PROVE  /\ Committed = DOMAIN outbox /\ Ours = Made /\ Ours \subseteq Ids /\ Ids \subseteq Nat
         /\ DOMAIN pending \cap DOMAIN outbox = {}
         /\ Stored \subseteq DOMAIN outbox
         /\ \A e \in Ours : e \in Nat /\ e < nextId /\ TxOf(e) = EntryOf(e).tx /\ EntryOf(e) \in Row
         /\ \A e \in DOMAIN outbox : EntryOf(e) = outbox[e] /\ RowOf(e) = outbox[e]
                                     /\ KeyOf(e) = outbox[e].key /\ RunOf(e) = outbox[e].tx
         /\ \A e \in DOMAIN pending : EntryOf(e) = pending[e]
<1>1. Committed = DOMAIN outbox
  BY DEF Committed, Peaceful
<1>2. /\ DOMAIN pending \subseteq Ids /\ Committed \subseteq Ids /\ Ids \subseteq 1..MaxIds /\ MaxIds \in Nat
      /\ DOMAIN pending \cap Committed = {} /\ \A e \in DOMAIN pending \cup Committed : e < nextId
  BY IdFacts
<1>3. Ids \subseteq Nat
  BY <1>2
<1>4. Ours = Made /\ Ours \subseteq Ids
  BY <1>1, <1>2 DEF Ours, Made
<1>5. \A e \in DOMAIN outbox : EntryOf(e) = outbox[e] /\ RowOf(e) = outbox[e]
                               /\ KeyOf(e) = outbox[e].key /\ RunOf(e) = outbox[e].tx
  BY <1>1, <1>2 DEF EntryOf, RowOf, KeyOf, RunOf
<1>6. \A e \in DOMAIN pending : EntryOf(e) = pending[e]
  BY DEF EntryOf
<1>7. \A e \in Ours : TxOf(e) = EntryOf(e).tx
  BY <1>5, <1>6 DEF Ours, TxOf
<1>8. \A e \in Ours : EntryOf(e) \in Row
  BY <1>5, <1>6 DEF Ours, Inv, Tables, Partial
<1>9. Stored \subseteq DOMAIN outbox
  BY <1>1 DEF RowInv, TablesAgree
<1>10. \A e \in Ours : e \in Nat /\ e < nextId
  BY <1>1, <1>2, <1>3 DEF Ours
<1>11. QED
  BY <1>1, <1>2, <1>3, <1>4, <1>5, <1>6, <1>7, <1>8, <1>9, <1>10

(* Of a set of stored events one is the newest.                            *)
LEMMA TopExists ==
  ASSUME LogTrue, NEW S, S \subseteq DOMAIN log, S # {}
  PROVE  \E e \in S : Tops(S) = {e} /\ \A f \in S : f # e => log[f].pos < log[e].pos
<1> DEFINE n == Cardinality(DOMAIN log)
           T == {log[e].pos : e \in S}
<1>1. n \in Nat
  BY FS_CardinalityType DEF LogTrue
<1>2. T \subseteq 1..n /\ T # {}
  BY DEF LogTrue
<1> HIDE DEF T, n
<1>3. PICK x \in T : \A y \in T : y <= x
  BY <1>1, <1>2, MaxExists
<1>4. PICK e \in S : log[e].pos = x
  BY DEF T
<1>5. \A f \in S : log[f].pos <= log[e].pos /\ log[f].pos \in Nat
  BY <1>1, <1>2, <1>3, <1>4 DEF T
<1>6. ASSUME NEW f \in S, f # e PROVE log[f].pos < log[e].pos
  <2>1. log[f].pos # log[e].pos
    BY <1>6 DEF LogTrue
  <2>2. QED
    BY <1>5, <2>1
<1>7. \A f \in S : f # e => ~(log[e].pos <= log[f].pos)
  BY <1>5, <1>6
<1>8. e \in Tops(S)
  BY <1>5 DEF Tops
<1>9. Tops(S) \subseteq {e}
  BY <1>7 DEF Tops
<1>10. QED
  BY <1>6, <1>8, <1>9

(* The places are numbers.                                                 *)
LEMMA PosIsNat ==
  ASSUME LogTrue
  PROVE  /\ Cardinality(DOMAIN log) \in Nat
         /\ \A e \in DOMAIN log : log[e].pos \in Nat /\ log[e].pos <= Cardinality(DOMAIN log)
<1>1. Cardinality(DOMAIN log) \in Nat
  BY FS_CardinalityType DEF LogTrue
<1>2. QED
  BY <1>1 DEF LogTrue

(* The head of a row is the newest of its stored events.                   *)
RowLog(k) == {e \in DOMAIN log : log[e].key = k}
LEMMA HeadIsTop ==
  ASSUME NEW k
  PROVE  HeadOf(k) = Tops(RowLog(k)) /\ RowLog(k) \subseteq DOMAIN log
BY DEF HeadOf, Tops, RowLog

(* A row that the server knows has a head.                                 *)
LEMMA HeadExists ==
  ASSUME LogTrue, NEW k, RowLog(k) # {}
  PROVE  \E e \in RowLog(k) : HeadOf(k) = {e} /\ \A f \in RowLog(k) : f # e => log[f].pos < log[e].pos
<1>1. PICK S : S = RowLog(k)
  OBVIOUS
<1>2. HeadOf(k) = Tops(S) /\ S \subseteq DOMAIN log
  BY <1>1, HeadIsTop
<1>3. \E e \in S : Tops(S) = {e} /\ \A f \in S : f # e => log[f].pos < log[e].pos
  BY <1>1, <1>2, TopExists
<1>4. QED
  BY <1>1, <1>2, <1>3

-----------------------------------------------------------------------------
(* What stays true of the bases.                                           *)

(* What was known of an event stays known.                                 *)
LEMMA BasesStay ==
  ASSUME config' = config, BasesKnown, Ours' \subseteq Ours, DOMAIN pending' \subseteq DOMAIN pending,
         \A e \in Ours' : EntryOf(e)'.key = EntryOf(e).key /\ EntryOf(e)'.base = EntryOf(e).base,
         nextId' = nextId, replayed \subseteq replayed', LogGrows,
         \A k \in Keys : \A b : heads'[k] = b =>
           heads[k] = b \/ (BaseKnown(b, k)' /\ b \notin DOMAIN pending')
  PROVE  BasesKnown'
<1>1. ASSUME NEW b, NEW k, BaseKnown(b, k) PROVE BaseKnown(b, k)'
  BY <1>1 DEF BaseKnown, LogGrows
<1>2. Keys' = Keys
  BY DEF Keys
<1>3. ASSUME NEW k \in Keys PROVE BaseKnown(heads[k], k)' /\ heads'[k] \notin DOMAIN pending'
  <2>1. PICK b : b = heads'[k]
    OBVIOUS
  <2>2. CASE heads[k] = b
    <3>1. BaseKnown(b, k) /\ b \notin DOMAIN pending
      BY <2>2 DEF BasesKnown
    <3>2. BaseKnown(b, k)'
      BY <1>1, <3>1
    <3>3. BaseKnown(heads[k], k)'
      BY <2>1, <3>2 DEF BaseKnown
    <3>4. QED
      BY <2>1, <3>1, <3>3
  <2>3. CASE BaseKnown(b, k)' /\ b \notin DOMAIN pending'
    BY <2>1, <2>3 DEF BaseKnown
  <2>4. QED
    BY <2>1, <2>2, <2>3
<1>4. ASSUME NEW e \in Ours'
      PROVE  /\ BaseKnown(EntryOf(e).base, EntryOf(e).key)'
             /\ EntryOf(e)'.base \in Ids => EntryOf(e)'.base < e
  <2>1. PICK b, k : b = EntryOf(e).base /\ k = EntryOf(e).key
    OBVIOUS
  <2>2. EntryOf(e)'.base = b /\ EntryOf(e)'.key = k
    BY <2>1
  <2>3. BaseKnown(b, k) /\ (b \in Ids => b < e)
    BY <2>1 DEF BasesKnown
  <2>4. BaseKnown(b, k)'
    BY <1>1, <2>3
  <2>5. BaseKnown(EntryOf(e).base, EntryOf(e).key)'
    BY <2>2, <2>4 DEF BaseKnown
  <2>6. QED
    BY <2>2, <2>3, <2>5
<1>5. QED
  BY <1>2, <1>3, <1>4 DEF BasesKnown

(* A run keeps its chain, as long as what leaves it leaves nothing behind. *)
LEMMA RunChainStays ==
  ASSUME config' = config, RunChain, Ours' \subseteq Ours,
         \A e \in Ours' : /\ EntryOf(e)'.key = EntryOf(e).key /\ EntryOf(e)'.base = EntryOf(e).base
                          /\ EntryOf(e)'.tx = EntryOf(e).tx /\ (Lives(e)' => Lives(e)),
         \A c \in Ours', b \in Ours : InRun(b, c) /\ Lives(c)' => b \in Ours'
  PROVE  RunChain'
<1>1. \A d, c \in Ours' : InRun(d, c)' <=> InRun(d, c)
  BY DEF InRun
<1>2. ASSUME config.versions, NEW c \in Ours', NEW d \in Ours', InRun(d, c), Lives(c)'
      PROVE  \/ EntryOf(c)'.base = d
             \/ EntryOf(c)'.base \in Ours' /\ d < EntryOf(c)'.base /\ InRun(EntryOf(c).base, c)'
  <2>1. PICK b : b = EntryOf(c).base
    OBVIOUS
  <2>2. EntryOf(c)'.base = b
    BY <2>1
  <2>3. b = d \/ (b \in Ours /\ d < b /\ InRun(b, c))
    BY <1>2, <2>1 DEF RunChain
  <2>4. CASE b \in Ours /\ d < b /\ InRun(b, c)
    <3>1. b \in Ours'
      BY <1>2, <2>4
    <3>2. InRun(b, c)'
      BY <1>1, <2>4, <3>1
    <3>3. InRun(EntryOf(c).base, c)'
      BY <2>2, <3>2 DEF InRun
    <3>4. QED
      BY <2>2, <2>4, <3>1, <3>3
  <2>5. QED
    BY <2>2, <2>3, <2>4
<1>3. QED
  BY <1>1, <1>2 DEF RunChain

-----------------------------------------------------------------------------
(* The calls keep the truth.                                               *)

(* The server and the push are not touched.                                *)
LEMMA QuietTruth ==
  ASSUME UNCHANGED <<config, log, outbox, push, late, replayed>>, Truthful, BasesKnown', RunChain'
  PROVE  Truthful'
<1>1. Unfaulted' /\ GroupsInOrder(push.open)'
  BY DEF Truthful, Unfaulted, GroupsInOrder, Below
<1>2. LogTrue' /\ Theirs' = Theirs
  BY DEF Truthful, LogTrue, Stored, Theirs, Keys
<1>3. BodiesWhole'
  BY DEF Truthful, BodiesWhole, OneRun, Body
<1>4. TypesFollow'
  <2>1. \A f : Before(f)' = Before(f)
    BY DEF Before
  <2>2. \A f : Tops(Before(f))' = Tops(Before(f))
    BY <2>1 DEF Tops
  <2>3. QED
    BY <1>2, <2>2 DEF Truthful, TypesFollow
<1>5. QED
  BY <1>1, <1>2, <1>3, <1>4 DEF Truthful

(* Nothing is parked again.                                                *)
LEMMA PeaceStays ==
  ASSUME config' = config, dead' = dead
  PROVE  Peaceful' <=> Peaceful
BY DEF Peaceful, NoOverlap

(* What waits goes on, or goes.                                            *)
LEMMA FewerTruth ==
  ASSUME Inv, RowInv, Peaceful, Truthful,
         UNCHANGED <<config, log, outbox, dead, push, late, replayed, nextId>>, Fewer, StillWaiting,
         \A c \in DOMAIN pending', b \in DOMAIN pending \ DOMAIN pending' :
           pending[b].key = pending[c].key /\ pending[b].tx = pending[c].tx => ~Alive(c)',
         \A k \in Keys : \A b : heads'[k] = b =>
           heads[k] = b \/ (BaseKnown(b, k)' /\ b \notin DOMAIN pending')
  PROVE  Truthful'
<1>1. /\ Ours \subseteq Ids /\ Ids \subseteq Nat /\ DOMAIN pending \cap DOMAIN outbox = {}
      /\ Committed = DOMAIN outbox
      /\ \A e \in DOMAIN outbox : EntryOf(e) = outbox[e] /\ KeyOf(e) = outbox[e].key
      /\ \A e \in DOMAIN pending : EntryOf(e) = pending[e]
  BY PeacefulFacts
<1>2. Ours' \subseteq Ours /\ \A e \in Ours' : EntryOf(e)' = EntryOf(e)
  BY <1>1 DEF Ours, EntryOf, Fewer
<1>3. ASSUME NEW e \in Ours', Lives(e)' PROVE Lives(e)
  <2>1. CASE e \in DOMAIN pending'
    BY <1>3, <2>1 DEF Lives, StillWaiting
  <2>2. CASE e \in DOMAIN outbox
    BY <1>1, <2>2 DEF Lives
  <2>3. QED
    BY <2>1, <2>2 DEF Ours
<1>4. ASSUME NEW c \in Ours', NEW b \in Ours, InRun(b, c), Lives(c)', b \notin Ours' PROVE FALSE
  <2>1. b \in DOMAIN pending \ DOMAIN pending' /\ b \notin DOMAIN outbox
    BY <1>4 DEF Ours
  <2>2. CASE c \in DOMAIN pending'
    <3>1. c \in DOMAIN pending
      BY <2>2 DEF Fewer
    <3>2. pending[b].key = pending[c].key /\ pending[b].tx = pending[c].tx
      BY <1>1, <1>4, <2>1, <3>1 DEF InRun
    <3>3. QED
      BY <1>4, <2>1, <2>2, <3>2 DEF Lives
  <2>3. CASE c \in DOMAIN outbox
    <3>1. KeyOf(c) = pending[b].key /\ b < c
      BY <1>1, <1>4, <2>1, <2>3 DEF InRun
    <3>2. c < b
      BY <1>1, <2>1, <2>3, <3>1 DEF RowInv, PendingNewer
    <3>3. c \in Nat /\ b \in Nat
      BY <1>1, <2>1, <2>3 DEF Ours
    <3>4. QED
      BY <3>1, <3>2, <3>3
  <2>4. QED
    BY <2>2, <2>3 DEF Ours
<1>5. RunChain'
  <2>1. RunChain
    BY DEF Truthful
  <2>2. \A e \in Ours' : /\ EntryOf(e)'.key = EntryOf(e).key /\ EntryOf(e)'.base = EntryOf(e).base
                         /\ EntryOf(e)'.tx = EntryOf(e).tx /\ (Lives(e)' => Lives(e))
    BY <1>2, <1>3
  <2>3. \A c \in Ours', b \in Ours : InRun(b, c) /\ Lives(c)' => b \in Ours'
    BY <1>4
  <2>4. QED
    BY <1>2, <2>1, <2>2, <2>3, RunChainStays
<1>6. BasesKnown'
  <2>1. BasesKnown /\ LogGrows /\ replayed \subseteq replayed'
    BY DEF Truthful, LogGrows
  <2>2. \A e \in Ours' : EntryOf(e)'.key = EntryOf(e).key /\ EntryOf(e)'.base = EntryOf(e).base
    BY <1>2
  <2>3. DOMAIN pending' \subseteq DOMAIN pending
    BY DEF Fewer
  <2>4. QED
    BY <1>2, <2>1, <2>2, <2>3, BasesStay
<1>7. QED
  BY <1>5, <1>6, QuietTruth

(* Failed events of one run, or of a call of its own, leave nothing of it. *)
LEMMA FailTruth ==
  ASSUME Inv, RowInv, Peaceful, Truthful, NEW S, S \subseteq DOMAIN pending, FailAll(S), Rest,
         heads' = heads, StillWaiting,
         \A c \in DOMAIN pending', b \in S :
           pending[b].key = pending[c].key /\ pending[b].tx = pending[c].tx => ~Alive(c)'
  PROVE  Truthful'
<1>1. /\ UNCHANGED <<config, log, outbox, dead, push, late, replayed, nextId>>
      /\ pending' = Without(pending, S)
  BY DEF FailAll, Rest
<1>2. Fewer /\ DOMAIN pending \ DOMAIN pending' = S
  BY <1>1 DEF Fewer, Without
<1>3. \A k \in Keys : \A b : heads'[k] = b =>
           heads[k] = b \/ (BaseKnown(b, k)' /\ b \notin DOMAIN pending')
  OBVIOUS
<1>4. \A c \in DOMAIN pending', b \in DOMAIN pending \ DOMAIN pending' :
           pending[b].key = pending[c].key /\ pending[b].tx = pending[c].tx => ~Alive(c)'
  BY <1>2
<1>5. QED
  BY <1>1, <1>2, <1>3, <1>4, FewerTruth

(* A call outside any run fails.                                           *)
LEMMA CommitCallFails ==
  ASSUME Inv, Inv', RowInv, Peaceful, Truthful, NEW e \in Ids, CommitCall(e), FailAll({e})
  PROVE  Truthful'
<1>1. /\ e \in DOMAIN pending \ Waiting /\ pending[e].tx = e /\ Rest
      /\ heads' = heads /\ stack' = stack /\ txs' = txs
  BY DEF CommitCall
<1>2. Fewer /\ StackInOrder' /\ Committed' = Committed
  BY <1>1 DEF Fewer, FailAll, Without, Inv, Committed, Rest
<1>3. StillWaiting
  BY <1>1, <1>2, SameRuns DEF RowInv
<1>4. \A f \in DOMAIN pending : pending[f].key = pending[e].key => f = e
  BY <1>1, OutsideAlone
<1>5. DOMAIN pending' = DOMAIN pending \ {e}
  BY DEF FailAll, Without
<1>6. {e} \subseteq DOMAIN pending
  BY <1>1
<1>7. \A c \in DOMAIN pending', b \in {e} :
        pending[b].key = pending[c].key /\ pending[b].tx = pending[c].tx => ~Alive(c)'
  BY <1>4, <1>5
<1>8. QED
  BY <1>1, <1>3, <1>6, <1>7, FailTruth

(* A run fails.                                                            *)
LEMMA RunFails ==
  ASSUME Inv, Inv', RowInv, Peaceful, Truthful, NEW i \in DOMAIN stack, stack[i].phase = "open",
         FailAll(stack[i].entries), stack' = Popped(i), txs' = txs, heads' = heads, Rest
  PROVE  Truthful'
<1>1. i \in 1..Len(stack) /\ StackInOrder /\ StackInOrder'
  BY StackOf DEF Inv
<1>2. PICK S : S = stack[i].entries
  OBVIOUS
<1>3. S = Entries(stack, i) /\ S \subseteq DOMAIN pending
  BY <1>1, <1>2 DEF Entries, StackInOrder
<1>4. FailAll(S)
  BY <1>2
<1>5. Fewer /\ DOMAIN pending' = DOMAIN pending \ S /\ Committed' = Committed
  BY <1>4 DEF Fewer, FailAll, Without, Committed, Rest
<1>6. StillWaiting /\ \A e \in DOMAIN pending' : Alive(e)' => pending[e].tx # stack[i].id
  <2>1. DOMAIN pending' \cap Entries(stack, i) = {} /\ Committed \subseteq Committed'
    BY <1>3, <1>5
  <2>2. QED
    BY <1>1, <1>5, <2>1, PoppedRuns DEF RowInv
<1>7. \A b \in S : pending[b].tx = stack[i].id
  BY <1>1, <1>3 DEF RowInv, RunNames
<1>8. \A c \in DOMAIN pending', b \in S :
        pending[b].key = pending[c].key /\ pending[b].tx = pending[c].tx => ~Alive(c)'
  BY <1>6, <1>7
<1>9. QED
  BY <1>3, <1>4, <1>6, <1>8, FailTruth

(* A call comes too late for its run.                                      *)
LEMMA TooLateTruth ==
  ASSUME Inv, Inv', RowInv, Peaceful, Truthful, NEW e \in Ids, AddTooLate(e)
  PROVE  Truthful'
<1>1. /\ e \in DOMAIN pending \ Waiting /\ pending[e].tx # e /\ Found(e, "open") = {}
      /\ pending' = Without(pending, {e}) /\ stack' = stack /\ txs' = txs /\ Rest
      /\ outbox' = outbox
      /\ heads' = heads \/ heads' = [heads EXCEPT ![pending[e].key] = e]
  BY DEF AddTooLate, Arriving
<1>2. UNCHANGED <<config, log, outbox, dead, push, late, replayed, nextId>>
  BY <1>1 DEF Rest
<1>3. Fewer /\ StackInOrder' /\ Committed' = Committed /\ DOMAIN pending' = DOMAIN pending \ {e}
  BY <1>1, <1>2 DEF Fewer, Without, Inv, Committed
<1>4. StillWaiting
  BY <1>1, <1>3, SameRuns DEF RowInv
<1>5. pending[e].tx \notin OpenRuns' /\ OpenRuns' = OpenRuns
  BY <1>1, StackOf DEF OpenRuns, Found, Inv
<1>6. ASSUME NEW c \in DOMAIN pending', pending[e].tx = pending[c].tx PROVE ~Alive(c)'
  <2>1. c \in DOMAIN pending /\ pending'[c] = pending[c] /\ c # e
    BY <1>3 DEF Fewer
  <2>2. pending[c].tx # c
    <3>1. pending[e].tx \in RunIds
      BY <1>1 DEF RowInv, RunNames
    <3>2. c \in 1..MaxIds /\ MaxIds \in Nat /\ txs \in Nat
      BY <2>1, IdFacts
    <3>3. c \notin RunIds
      BY <3>2 DEF RunIds
    <3>4. QED
      BY <1>6, <3>1, <3>3
  <2>3. QED
    BY <1>5, <1>6, <2>1, <2>2 DEF Alive
<1>7. \A c \in DOMAIN pending', b \in DOMAIN pending \ DOMAIN pending' :
        pending[b].key = pending[c].key /\ pending[b].tx = pending[c].tx => ~Alive(c)'
  BY <1>3, <1>6
<1>8. ASSUME NEW k \in Keys, heads'[k] # heads[k] PROVE heads'[k] = e /\ k = pending[e].key
  <2>1. heads \in [Keys -> Versions]
    BY DEF Inv, Tables
  <2>2. QED
    BY <1>1, <1>8, <2>1
<1>9. ASSUME NEW k \in Keys PROVE BaseKnown(e, k)' /\ e \notin DOMAIN pending'
  <2>1. e < nextId' /\ e # NoEvent
    BY <1>1, <1>2, IdFacts, ForeignApart
  <2>2. e \notin Ours'
    BY <1>1, <1>2, <1>3, PeacefulFacts DEF Ours
  <2>3. QED
    BY <1>3, <2>1, <2>2 DEF BaseKnown
<1>10. \A k \in Keys : \A b : heads'[k] = b =>
         heads[k] = b \/ (BaseKnown(b, k)' /\ b \notin DOMAIN pending')
  BY <1>8, <1>9
<1>11. QED
  BY <1>2, <1>3, <1>4, <1>7, <1>10, FewerTruth

(* The runs go on, or the last version of one is written.                  *)
LEMMA StackTruth ==
  ASSUME Inv, RowInv, Peaceful, Truthful, Rest, UNCHANGED <<outbox, pending>>,
         StillWaiting,
         \A k \in Keys : \A b : heads'[k] = b =>
           heads[k] = b \/ (BaseKnown(b, k)' /\ b \notin DOMAIN pending')
  PROVE  Truthful'
<1>1. UNCHANGED <<config, log, outbox, dead, push, late, replayed, nextId>>
  BY DEF Rest
<1>2. Fewer /\ DOMAIN pending \ DOMAIN pending' = {}
  BY DEF Fewer
<1>3. \A c \in DOMAIN pending', b \in DOMAIN pending \ DOMAIN pending' :
        pending[b].key = pending[c].key /\ pending[b].tx = pending[c].tx => ~Alive(c)'
  BY <1>2
<1>4. QED
  BY <1>1, <1>2, <1>3, FewerTruth

(* writeRowVersion.                                                        *)
LEMMA StampTruth ==
  ASSUME Inv, Inv', RowInv, Peaceful, Truthful, NEW e \in Ids, Stamp(e)
  PROVE  Truthful'
<1>1. /\ e \in unstamped
      /\ heads' = [heads EXCEPT ![RowOf(e).key] = e]
      /\ stack' = IF Ending(e) = {} THEN stack ELSE Popped(CHOOSE i \in Ending(e) : TRUE)
      /\ UNCHANGED <<outbox, pending, txs>> /\ Rest
  BY DEF Stamp
<1>2. Committed' = Committed /\ Fewer /\ StackInOrder'
  BY <1>1 DEF Committed, Rest, Fewer, Inv
<1>3. StillWaiting
  <2>1. CASE Ending(e) = {}
    BY <1>1, <1>2, <2>1, SameRuns DEF RowInv
  <2>2. CASE Ending(e) # {}
    <3>1. PICK i \in Ending(e) : stack' = Popped(i)
      BY <1>1, <2>2
    <3>2. i \in DOMAIN stack /\ stack[i].phase = "stamping"
      BY <3>1 DEF Ending
    <3>3. i \in 1..Len(stack) /\ Entries(stack, i) = {}
      BY <3>2, StackOf DEF Inv, Entries
    <3>4. DOMAIN pending' \cap Entries(stack, i) = {} /\ Committed \subseteq Committed'
      BY <1>2, <3>3
    <3>5. QED
      BY <1>1, <1>2, <3>1, <3>3, <3>4, PoppedRuns DEF RowInv
  <2>3. QED
    BY <2>1, <2>2
<1>4. e \in DOMAIN outbox /\ RowOf(e) = outbox[e]
  BY <1>1, IdFacts, PeacefulFacts
<1>5. ASSUME NEW k \in Keys, heads'[k] # heads[k] PROVE heads'[k] = e /\ k = outbox[e].key
  <2>1. heads \in [Keys -> Versions]
    BY DEF Inv, Tables
  <2>2. QED
    BY <1>1, <1>4, <1>5, <2>1
<1>6. ASSUME NEW k \in Keys, k = outbox[e].key PROVE BaseKnown(e, k)' /\ e \notin DOMAIN pending'
  <2>1. e \in Ours /\ e < nextId /\ e \notin DOMAIN pending
    BY <1>4, PeacefulFacts DEF Ours
  <2>2. EntryOf(e)' = outbox[e] /\ nextId' = nextId
    BY <1>1, <2>1 DEF EntryOf, Rest
  <2>3. QED
    BY <1>1, <1>6, <2>1, <2>2 DEF BaseKnown
<1>7. \A k \in Keys : \A b : heads'[k] = b =>
        heads[k] = b \/ (BaseKnown(b, k)' /\ b \notin DOMAIN pending')
  BY <1>5, <1>6
<1>8. QED
  BY <1>1, <1>3, <1>7, StackTruth

(* A run begins, or an entry joins one.                                    *)
LEMMA BeginTxTruth ==
  ASSUME Inv, Inv', RowInv, Peaceful, Truthful, BeginTx
  PROVE  Truthful'
<1> DEFINE t == [id |-> TxName(txs + 1), phase |-> "open", entries |-> {}]
<1>1. stack' = Append(stack, t) /\ UNCHANGED <<outbox, heads, pending>> /\ Rest
  BY DEF BeginTx
<1>2. stack \in Seq(Tx) /\ Len(stack) \in Nat /\ txs \in Nat /\ MaxIds \in Nat
      /\ DOMAIN pending \subseteq Ids /\ Ids \subseteq 1..MaxIds
  BY IdFacts DEF Inv, StackInOrder
<1>3. t.id = MaxIds + txs + 1 /\ t.entries = {} /\ t.phase = "open"
  BY <1>2 DEF TxName
<1> HIDE DEF t
<1>4. /\ Len(stack') = Len(stack) + 1 /\ stack'[Len(stack) + 1] = t
      /\ \A j \in 1..Len(stack) : stack'[j] = stack[j]
  BY <1>1, <1>2
<1>5. \A j \in 1..Len(stack) : j \in 1..Len(stack')
  BY <1>2, <1>4
<1>6. \A e \in DOMAIN pending : Joined(e) => Joined(e)'
  BY <1>4, <1>5 DEF Joined, Entries
<1>7. OpenRuns' \subseteq OpenRuns \cup {MaxIds + txs + 1}
  <2>1. \A j \in 1..Len(stack') : j \in 1..Len(stack) \/ j = Len(stack) + 1
    BY <1>2, <1>4
  <2>2. QED
    BY <1>3, <1>4, <2>1 DEF OpenRuns
<1>8. ASSUME NEW e \in DOMAIN pending, Alive(e)' PROVE Alive(e)
  <2>1. pending[e].tx # MaxIds + txs + 1
    <3>1. pending[e].tx = e \/ pending[e].tx \in RunIds
      BY DEF RowInv, RunNames
    <3>2. e # MaxIds + txs + 1 /\ MaxIds + txs + 1 \notin RunIds
      BY <1>2 DEF RunIds
    <3>3. QED
      BY <3>1, <3>2
  <2>2. QED
    BY <1>1, <1>7, <1>8, <2>1 DEF Alive
<1>9. StillWaiting
  BY <1>1, <1>6, <1>8 DEF StillWaiting
<1>10. QED
  BY <1>1, <1>9, StackTruth

(* A call's entry joins its run.                                           *)
LEMMA AddEntryTruth ==
  ASSUME Inv, Inv', RowInv, Peaceful, Truthful, NEW e \in Ids, AddEntry(e)
  PROVE  Truthful'
<1>1. UNCHANGED <<outbox, heads, pending>> /\ Rest
  BY DEF AddEntry
<1>2. PICK i \in Found(e, "open") : stack' = At(i, [stack[i] EXCEPT !.entries = @ \cup {e}])
  BY DEF AddEntry
<1>3. i \in DOMAIN stack /\ stack[i].phase = "open"
  BY <1>2 DEF Found
<1>4. i \in 1..Len(stack) /\ stack[i] \in Tx /\ stack \in Seq(Tx)
  BY <1>3, StackOf DEF Inv, StackInOrder
<1> DEFINE t == [stack[i] EXCEPT !.entries = @ \cup {e}]
<1>5. t.id = stack[i].id /\ t.phase = "open" /\ t.entries = stack[i].entries \cup {e}
  BY <1>3, <1>4 DEF Tx
<1>6. stack' = At(i, t)
  BY <1>2
<1> HIDE DEF t
<1>7. /\ Len(stack') = Len(stack) /\ stack'[i] = t
      /\ \A j \in 1..Len(stack) : j # i => stack'[j] = stack[j]
  BY <1>4, <1>6 DEF At
<1>8. \A j \in 1..Len(stack) : /\ Entries(stack, j) \subseteq Entries(stack', j)
                               /\ stack'[j].id = stack[j].id /\ stack'[j].phase = stack[j].phase
  BY <1>3, <1>5, <1>7 DEF Entries
<1>9. OpenRuns' = OpenRuns
  BY <1>7, <1>8 DEF OpenRuns
<1>10. StillWaiting
  <2>1. \A x : Joined(x) => Joined(x)'
    BY <1>7, <1>8 DEF Joined
  <2>2. \A x \in DOMAIN pending' : Alive(x)' => Alive(x)
    BY <1>1, <1>9 DEF Alive
  <2>3. QED
    BY <2>1, <2>2 DEF StillWaiting
<1>11. QED
  BY <1>1, <1>10, StackTruth

(* A call adds an event, on a base that is known.                          *)
LEMMA CallTruth ==
  ASSUME Inv, Inv', RowInv, RunInv, Peaceful, Truthful, NEW k \in Keys, NEW type, Call(k, type)
  PROVE  Truthful'
<1>1. PICK n, base : n = nextId /\ base = BaseVersion(k)
  OBVIOUS
<1>2. /\ UNCHANGED <<log, config, outbox, heads, stack, txs, push, late, replayed>>
      /\ ~InHand(k) /\ nextId' = nextId + 1
  BY DEF Call
<1>3. /\ DOMAIN pending' = DOMAIN pending \cup {n}
      /\ pending'[n].key = k
      /\ pending'[n].tx = IF stack = <<>> THEN n ELSE stack[Len(stack)].id
      /\ \A e \in DOMAIN pending : e < n /\ pending'[e] = pending[e]
      /\ n \in Nat
  BY <1>1, CallAdds
<1>4. pending'[n].base = base
  BY <1>1 DEF Call, Join
<1>5. /\ Ours \subseteq Ids /\ Ids \subseteq Nat /\ DOMAIN pending \cap DOMAIN outbox = {}
      /\ Committed = DOMAIN outbox
      /\ \A e \in Ours : e \in Nat /\ e < n /\ e # n
      /\ \A e \in DOMAIN outbox : EntryOf(e) = outbox[e] /\ RunOf(e) = outbox[e].tx
      /\ \A e \in DOMAIN pending : EntryOf(e) = pending[e]
  <2>1. \A e : e < n /\ e \in Nat => e # n
    BY <1>3
  <2>2. QED
    BY <1>1, <2>1, PeacefulFacts
<1>6. /\ Ours' = Ours \cup {n} /\ EntryOf(n)' = pending'[n]
      /\ \A e \in Ours : EntryOf(e)' = EntryOf(e)
  BY <1>2, <1>3, <1>5 DEF Ours, EntryOf
<1>7. PICK mine : mine = UNION {OfRow(k, t.entries) : t \in Ambient}
  OBVIOUS
<1>8. mine = OfRow(k, DOMAIN pending)
  <2> DEFINE here == UNION {t.entries : t \in Ambient}
  <2>1. mine = OfRow(k, here)
    BY <1>7 DEF OfRow
  <2>2. OfRow(k, DOMAIN pending \ here) = {}
    BY <1>2 DEF InHand
  <2>3. QED
    BY <2>1, <2>2 DEF OfRow
<1>9. base = IF ~config.versions THEN NoEvent ELSE IF mine # {} THEN Last(mine) ELSE heads[k]
  BY <1>1, <1>7 DEF BaseVersion
<1>10. mine # {} => Last(mine) \in mine /\ (\A f \in mine : f <= Last(mine)) /\ Last(mine) \in DOMAIN pending
       /\ pending[Last(mine)].key = k
  <2>1. mine \subseteq Ids /\ mine \subseteq DOMAIN pending /\ \A f \in mine : pending[f].key = k
    BY <1>5, <1>8 DEF OfRow, Ours
  <2>2. QED
    BY <2>1, LastIn
<1>11. BaseKnown(base, k) /\ (base \in Ids => base < n)
  <2>1. CASE ~config.versions
    BY <1>9, <2>1, ForeignApart DEF BaseKnown
  <2>2. CASE config.versions /\ mine # {}
    <3>1. base \in DOMAIN pending /\ pending[base].key = k /\ base \in Ours
      BY <1>9, <1>10, <2>2 DEF Ours
    <3>2. EntryOf(base).key = k /\ base < n /\ base \in Ids
      BY <1>5, <3>1
    <3>3. QED
      BY <1>1, <3>2 DEF BaseKnown
  <2>3. CASE config.versions /\ mine = {}
    BY <1>1, <1>9, <2>3 DEF Truthful, BasesKnown, BaseKnown
  <2>4. QED
    BY <2>1, <2>2, <2>3
<1>12. ASSUME NEW b, NEW j, BaseKnown(b, j) PROVE BaseKnown(b, j)' /\ b # n
  <2>1. b # n
    <3>1. n \in Ids
      BY <1>3, <1>6 DEF Inv, Tables, Partial
    <3>2. ~(n < n)
      BY <1>3
    <3>3. QED
      BY <1>1, <1>12, <3>1, <3>2 DEF BaseKnown
  <2>2. b \in Ids => b < nextId'
    <3>1. b \in Ids => b < n /\ b \in Nat
      BY <1>1, <1>5, <1>12 DEF BaseKnown
    <3>2. QED
      BY <1>1, <1>2, <1>3, <3>1
  <2>3. QED
    BY <1>2, <1>6, <1>12, <2>1, <2>2 DEF BaseKnown
<1>13. BasesKnown'
  <2>1. Keys' = Keys
    BY <1>2 DEF Keys
  <2>2. ASSUME NEW j \in Keys PROVE BaseKnown(heads[j], j)' /\ heads'[j] \notin DOMAIN pending'
    <3>1. PICK b : b = heads[j]
      OBVIOUS
    <3>2. BaseKnown(b, j) /\ b \notin DOMAIN pending
      BY <3>1 DEF Truthful, BasesKnown
    <3>3. BaseKnown(b, j)' /\ b # n
      BY <1>12, <3>2
    <3>4. QED
      BY <1>2, <1>3, <3>1, <3>2, <3>3 DEF BaseKnown
  <2>3. ASSUME NEW e \in Ours'
        PROVE  /\ BaseKnown(EntryOf(e).base, EntryOf(e).key)'
               /\ EntryOf(e)'.base \in Ids => EntryOf(e)'.base < e
    <3>1. PICK b, j : b = EntryOf(e)'.base /\ j = EntryOf(e)'.key
      OBVIOUS
    <3>2. BaseKnown(b, j) /\ (b \in Ids => b < e)
      <4>1. CASE e = n
        BY <1>3, <1>4, <1>6, <1>11, <3>1, <4>1
      <4>2. CASE e \in Ours
        BY <1>6, <3>1, <4>2 DEF Truthful, BasesKnown
      <4>3. QED
        BY <1>6, <4>1, <4>2
    <3>3. BaseKnown(b, j)'
      BY <1>12, <3>2
    <3>4. QED
      BY <3>1, <3>2, <3>3 DEF BaseKnown
  <2>4. QED
    BY <2>1, <2>2, <2>3 DEF BasesKnown
<1>14. RunChain'
  <2>1. \A e \in Ours : Lives(e)' => Lives(e)
    <3>1. OpenRuns' = OpenRuns
      BY <1>2 DEF OpenRuns
    <3>2. QED
      BY <1>3, <3>1 DEF Lives, Alive
  <2>2. \A d, c \in Ours : InRun(d, c)' <=> InRun(d, c)
    BY <1>6 DEF InRun
  <2>3. ASSUME config.versions, NEW c \in Ours', NEW d \in Ours', InRun(d, c)', Lives(c)'
        PROVE  \/ EntryOf(c)'.base = d
               \/ EntryOf(c)'.base \in Ours' /\ d < EntryOf(c)'.base /\ InRun(EntryOf(c).base, c)'
    <3>1. d < c
      BY <2>3 DEF InRun
    <3>2. d \in Ours
      <4>1. ASSUME d = n PROVE FALSE
        <5>1. c \in Nat /\ (c = n \/ c < n)
          BY <1>3, <1>5, <1>6
        <5>2. QED
          BY <1>3, <3>1, <4>1, <5>1
      <4>2. QED
        BY <1>6, <4>1
    <3>3. PICK b : b = EntryOf(c)'.base
      OBVIOUS
    <3>4. CASE c \in Ours
      <4>1. b = d \/ (b \in Ours /\ d < b /\ InRun(b, c))
        <5>1. InRun(d, c) /\ Lives(c) /\ EntryOf(c).base = b
          BY <1>6, <2>1, <2>2, <2>3, <3>2, <3>3, <3>4
        <5>2. QED
          BY <2>3, <3>2, <3>4, <5>1 DEF Truthful, RunChain
      <4>2. b \in Ours /\ InRun(b, c) => InRun(EntryOf(c).base, c)'
        <5>1. b \in Ours /\ InRun(b, c) => InRun(b, c)'
          BY <2>2, <3>4
        <5>2. QED
          BY <3>3, <5>1 DEF InRun
      <4>3. QED
        BY <1>6, <3>3, <4>1, <4>2
    <3>5. CASE c = n
      <4>1. EntryOf(d).key = k /\ EntryOf(d).tx = pending'[n].tx
        BY <1>3, <1>6, <2>3, <3>2, <3>5 DEF InRun
      <4>2. pending'[n].tx = n \/ pending'[n].tx \in OpenRuns
        <5>1. Alive(n)'
          BY <1>3, <2>3, <3>5 DEF Lives
        <5>2. QED
          BY <1>2, <5>1 DEF Alive, OpenRuns
      <4>3. pending'[n].tx # EntryOf(d).tx \/ pending'[n].tx \in OpenRuns
        <5>1. n \notin RunIds /\ n # d
          <6>1. n \in Ids /\ Ids \subseteq 1..MaxIds /\ MaxIds \in Nat /\ txs \in Nat
            BY <1>3, IdFacts DEF Inv, Tables, Partial
          <6>2. QED
            BY <1>5, <3>2, <6>1 DEF RunIds
        <5>2. EntryOf(d).tx = d \/ EntryOf(d).tx \in RunIds
          BY <1>5, <3>2 DEF Ours, RowInv, RunNames, RunInv, RunsCommitOnce
        <5>3. QED
          BY <4>2, <5>1, <5>2
      <4>4. d \in DOMAIN pending
        <5>1. ASSUME d \in DOMAIN outbox PROVE FALSE
          BY <1>5, <4>1, <4>3, <5>1 DEF RunInv, RunsCommitOnce
        <5>2. QED
          BY <3>2, <5>1 DEF Ours
      <4>5. d \in mine /\ mine # {}
        BY <1>5, <1>8, <4>1, <4>4 DEF OfRow
      <4>6. b = Last(mine)
        BY <1>4, <1>6, <1>9, <2>3, <3>3, <3>5, <4>5
      <4>7. b \in DOMAIN pending /\ pending[b].key = k /\ d <= b
        BY <1>10, <4>5, <4>6
      <4>8. b # d => d < b /\ pending[b].tx = pending[d].tx
        <5>1. d \in Nat /\ b \in Nat
          BY <1>5, <4>4, <4>7 DEF Ours
        <5>2. b # d => d < b
          BY <4>7, <5>1
        <5>3. pending[d].key = k
          BY <1>5, <4>1, <4>4
        <5>4. QED
          BY <4>4, <4>7, <5>2, <5>3 DEF RowInv, OneRunPerRow
      <4>9. b # d => InRun(EntryOf(c).base, c)'
        <5>1. b \in Ours /\ EntryOf(b)' = pending[b] /\ b < n
          BY <1>5, <1>6, <4>7 DEF Ours
        <5>2. EntryOf(c)' = pending'[n] /\ pending[d].tx = pending'[n].tx
          BY <1>5, <1>6, <3>5, <4>1, <4>4
        <5>3. b # d => InRun(b, c)'
          BY <1>3, <3>5, <4>7, <4>8, <5>1, <5>2 DEF InRun
        <5>4. QED
          BY <3>3, <5>3 DEF InRun
      <4>10. QED
        BY <1>6, <3>3, <4>7, <4>8, <4>9 DEF Ours
    <3>6. QED
      BY <1>6, <3>4, <3>5
  <2>4. QED
    BY <1>2, <2>3 DEF RunChain
<1>15. QED
  BY <1>2, <1>13, <1>14, QuietTruth

-----------------------------------------------------------------------------
(* What commits, what is sent and what is answered keeps the truth.        *)

(* The outbox keeps its rows but for what a push notes on them.            *)
Noted ==
  /\ DOMAIN outbox' = DOMAIN outbox
  /\ \A e \in DOMAIN outbox :
       /\ outbox'[e].tx = outbox[e].tx /\ outbox'[e].key = outbox[e].key
       /\ outbox'[e].type = outbox[e].type /\ outbox'[e].base = outbox[e].base

(* The bodies, the bases and the runs do not change with it.               *)
LEMMA NotedBases ==
  ASSUME Inv, RowInv, Peaceful, Truthful, Noted, config' = config, nextId' = nextId,
         replayed \subseteq replayed', LogGrows, StillWaiting,
         pending' = pending \/ DOMAIN pending' = {},
         \A k \in Keys : \A b : heads'[k] = b =>
           heads[k] = b \/ (BaseKnown(b, k)' /\ b \notin DOMAIN pending')
  PROVE  BasesKnown' /\ RunChain' /\ \A e \in DOMAIN outbox : Body(e)' = Body(e)
<1>1. /\ Ours \subseteq Ids /\ Ids \subseteq Nat /\ DOMAIN pending \cap DOMAIN outbox = {}
      /\ Committed = DOMAIN outbox
      /\ \A e \in DOMAIN outbox : EntryOf(e) = outbox[e] /\ KeyOf(e) = outbox[e].key
      /\ \A e \in DOMAIN pending : EntryOf(e) = pending[e]
  BY PeacefulFacts
<1>2. \A e \in DOMAIN outbox : Body(e)' = Body(e)
  BY DEF Noted, Body
<1>3. DOMAIN pending' \subseteq DOMAIN pending
  OBVIOUS
<1>4. Ours' \subseteq Ours
  BY <1>3 DEF Ours, Noted
<1>5. ASSUME NEW e \in Ours'
      PROVE  /\ EntryOf(e)'.key = EntryOf(e).key /\ EntryOf(e)'.base = EntryOf(e).base
             /\ EntryOf(e)'.tx = EntryOf(e).tx /\ (Lives(e)' => Lives(e))
  <2>1. CASE e \in DOMAIN pending'
    <3>1. pending' = pending
      BY <2>1
    <3>2. EntryOf(e)' = EntryOf(e)
      BY <3>1, <2>1 DEF EntryOf
    <3>3. QED
      BY <2>1, <3>2 DEF Lives, StillWaiting
  <2>2. CASE e \notin DOMAIN pending'
    <3>1. e \in DOMAIN outbox
      BY <2>2 DEF Ours, Noted
    <3>2. EntryOf(e)' = outbox'[e] /\ EntryOf(e) = outbox[e] /\ e \notin DOMAIN pending
      BY <1>1, <2>2, <3>1 DEF EntryOf
    <3>3. QED
      BY <3>1, <3>2 DEF Noted, Lives
  <2>3. QED
    BY <2>1, <2>2
<1>6. ASSUME NEW c \in Ours', NEW b \in Ours, InRun(b, c), Lives(c)', b \notin Ours' PROVE FALSE
  <2>1. DOMAIN pending' = {} /\ b \in DOMAIN pending /\ c \in DOMAIN outbox
    BY <1>6 DEF Ours, Noted
  <2>2. KeyOf(c) = pending[b].key /\ b < c
    BY <1>1, <1>6, <2>1 DEF InRun
  <2>3. c < b
    BY <1>1, <2>1, <2>2 DEF RowInv, PendingNewer
  <2>4. c \in Nat /\ b \in Nat
    BY <1>1, <2>1 DEF Ours
  <2>5. QED
    BY <2>2, <2>3, <2>4
<1>7. RunChain'
  <2>1. RunChain
    BY DEF Truthful
  <2>2. \A c \in Ours', b \in Ours : InRun(b, c) /\ Lives(c)' => b \in Ours'
    BY <1>6
  <2>3. QED
    BY <1>4, <1>5, <2>1, <2>2, RunChainStays
<1>8. BasesKnown'
  <2>1. BasesKnown
    BY DEF Truthful
  <2>2. \A e \in Ours' : EntryOf(e)'.key = EntryOf(e).key /\ EntryOf(e)'.base = EntryOf(e).base
    BY <1>5
  <2>3. QED
    BY <1>3, <1>4, <2>1, <2>2, BasesStay
<1>9. QED
  BY <1>2, <1>7, <1>8

(* The log is the same.                                                    *)
LEMMA SameLogTruth ==
  ASSUME log' = log, config' = config, replayed' = replayed, Truthful,
         DOMAIN outbox \subseteq DOMAIN outbox',
         \A e \in DOMAIN outbox : outbox'[e].key = outbox[e].key /\ outbox'[e].type = outbox[e].type,
         \A e \in DOMAIN outbox' : outbox'[e].synced => e \in DOMAIN log
  PROVE  LogTrue' /\ TypesFollow' /\ replayed' \subseteq Theirs'
<1>1. Theirs' = Theirs /\ Stored' = Stored /\ Keys' = Keys
  BY DEF Theirs, Stored, Keys
<1>2. LogTrue'
  BY <1>1 DEF Truthful, LogTrue
<1>3. TypesFollow'
  <2>1. \A f : Before(f)' = Before(f)
    BY DEF Before
  <2>2. \A f : Tops(Before(f))' = Tops(Before(f))
    BY <2>1 DEF Tops
  <2>3. QED
    BY <1>1, <2>2 DEF Truthful, TypesFollow
<1>4. QED
  BY <1>1, <1>2, <1>3 DEF Truthful

(* The tables, when the events S have committed.                           *)
LEMMA InsertedOutbox ==
  ASSUME Inv, RowInv, RunInv, Peaceful, NEW S, S \subseteq DOMAIN pending, InsertAll(S), Rest
  PROVE  /\ DOMAIN outbox' = DOMAIN outbox \cup S /\ DOMAIN pending' = DOMAIN pending \ S
         /\ \A e \in S : outbox'[e] = pending[e] /\ ~outbox'[e].synced /\ outbox'[e].wait = 0
                         /\ e \notin DOMAIN log /\ e \notin DOMAIN outbox
         /\ \A e \in DOMAIN outbox : outbox'[e] = outbox[e]
         /\ Fewer /\ Ours' = Ours /\ \A e \in Ours : EntryOf(e)' = EntryOf(e)
<1>1. DOMAIN pending \cap DOMAIN outbox = {}
  BY PeacefulFacts
<1>2. DOMAIN outbox' = DOMAIN outbox \cup S /\ DOMAIN pending' = DOMAIN pending \ S
  BY DEF InsertAll, Join, Only, Without
<1>3. \A e \in S : outbox'[e] = pending[e] /\ e \notin DOMAIN outbox
  BY <1>1 DEF InsertAll, Join, Only
<1>4. \A e \in DOMAIN outbox : outbox'[e] = outbox[e]
  BY <1>1 DEF InsertAll, Join, Only
<1>5. \A e \in S : ~outbox'[e].synced /\ outbox'[e].wait = 0 /\ e \notin DOMAIN log
  <2>1. \A e \in DOMAIN pending : ~pending[e].synced /\ e \notin Held /\ e \in Ids
    BY DEF Inv, PendingApart, Tables, Partial
  <2>2. QED
    BY <1>3, <2>1 DEF RunInv, NeverSent, Held, Stored
<1>6. Fewer
  BY <1>2 DEF Fewer, InsertAll, Without
<1>7. Ours' = Ours
  BY <1>2 DEF Ours
<1>8. ASSUME NEW e \in Ours PROVE EntryOf(e)' = EntryOf(e)
  <2>1. CASE e \in DOMAIN pending'
    BY <1>6, <2>1 DEF EntryOf, Fewer
  <2>2. CASE e \in S
    BY <1>2, <1>3, <2>2 DEF EntryOf
  <2>3. CASE e \in DOMAIN outbox
    BY <1>1, <1>2, <1>4, <2>3 DEF EntryOf
  <2>4. QED
    BY <1>2, <2>1, <2>2, <2>3 DEF Ours
<1>9. QED
  BY <1>2, <1>3, <1>4, <1>5, <1>6, <1>7, <1>8

(* What commits is as it was when it waited.                               *)
LEMMA InsertedTruth ==
  ASSUME Inv, RowInv, RunInv, Peaceful, Truthful, NEW S, S \subseteq DOMAIN pending,
         InsertAll(S), Rest, heads' = heads, \A e \in S : Alive(e), StillWaiting
  PROVE  Truthful'
<1>1. /\ DOMAIN outbox' = DOMAIN outbox \cup S /\ DOMAIN pending' = DOMAIN pending \ S
      /\ \A e \in S : outbox'[e] = pending[e] /\ ~outbox'[e].synced /\ outbox'[e].wait = 0
      /\ \A e \in DOMAIN outbox : outbox'[e] = outbox[e]
      /\ Fewer /\ Ours' = Ours /\ \A e \in Ours : EntryOf(e)' = EntryOf(e)
  BY InsertedOutbox
<1>2. UNCHANGED <<log, config, dead, nextId, push, late, replayed>>
  BY DEF Rest
<1>3. Unfaulted' /\ GroupsInOrder(push.open)'
  BY <1>1, <1>2 DEF Truthful, Unfaulted, GroupsInOrder, Below
<1>4. BodiesWhole'
  <2>1. \A e \in DOMAIN outbox : Body(e)' = Body(e)
    BY <1>1 DEF Body
  <2>2. QED
    BY <1>1, <1>2, <2>1 DEF Truthful, BodiesWhole, OneRun
<1>5. LogTrue' /\ TypesFollow' /\ replayed' \subseteq Theirs'
  <2>1. \A e \in DOMAIN outbox' : outbox'[e].synced => e \in DOMAIN log
    BY <1>1 DEF Truthful, LogTrue
  <2>2. /\ DOMAIN outbox \subseteq DOMAIN outbox'
        /\ \A e \in DOMAIN outbox : outbox'[e].key = outbox[e].key /\ outbox'[e].type = outbox[e].type
    BY <1>1
  <2>3. QED
    BY <1>2, <2>1, <2>2, SameLogTruth
<1>6. BasesKnown'
  <2>1. BasesKnown /\ LogGrows /\ replayed \subseteq replayed'
    BY <1>2 DEF Truthful, LogGrows
  <2>2. Ours' \subseteq Ours /\ DOMAIN pending' \subseteq DOMAIN pending
        /\ \A e \in Ours' : EntryOf(e)'.key = EntryOf(e).key /\ EntryOf(e)'.base = EntryOf(e).base
    BY <1>1
  <2>3. \A k \in Keys : \A b : heads'[k] = b =>
          heads[k] = b \/ (BaseKnown(b, k)' /\ b \notin DOMAIN pending')
    OBVIOUS
  <2>4. QED
    BY <1>2, <2>1, <2>2, <2>3, BasesStay
<1>7. RunChain'
  <2>1. RunChain
    BY DEF Truthful
  <2>2. ASSUME NEW e \in Ours', Lives(e)' PROVE Lives(e)
    <3>1. CASE e \in DOMAIN pending'
      BY <2>2, <3>1 DEF Lives, StillWaiting
    <3>2. CASE e \in S
      BY <3>2 DEF Lives
    <3>3. CASE e \in DOMAIN outbox
      BY <3>3, PeacefulFacts DEF Lives
    <3>4. QED
      BY <1>1, <3>1, <3>2, <3>3 DEF Ours
  <2>3. /\ \A e \in Ours' : /\ EntryOf(e)'.key = EntryOf(e).key /\ EntryOf(e)'.base = EntryOf(e).base
                            /\ EntryOf(e)'.tx = EntryOf(e).tx /\ (Lives(e)' => Lives(e))
        /\ \A c \in Ours', b \in Ours : InRun(b, c) /\ Lives(c)' => b \in Ours'
        /\ Ours' \subseteq Ours
    BY <1>1, <2>2
  <2>4. QED
    BY <1>2, <2>1, <2>3, RunChainStays
<1>8. QED
  BY <1>3, <1>4, <1>5, <1>6, <1>7 DEF Truthful

(* What a sync takes in hand: what is due, or what is left of it.          *)
Taken == IF push.phase = "idle" THEN Due ELSE push.due

(* A group of a batch is of one run.                                       *)
LEMMA BatchRuns ==
  ASSUME NEW S, NEW g \in NextBatch(S)
  PROVE  OneRun(g)
BY DEF NextBatch, Groups, SameRun, OneRun

(* A batch goes off, from the first of what is due.                        *)
LEMMA SendFacts ==
  ASSUME Inv, RowInv, RunInv, StartPush \/ ContinuePush
  PROVE  /\ Noted /\ Taken \subseteq DOMAIN outbox
         /\ \A e \in DOMAIN outbox : /\ outbox'[e].synced = outbox[e].synced
                                     /\ outbox'[e].wait = 0 \/ outbox'[e].wait = outbox[e].wait
         /\ push.open = {} /\ DOMAIN push'.answer = {} /\ GroupsInOrder(push'.open)
         /\ OpenIds' \cup push'.due = Taken /\ Syncing'
         /\ \A f \in OpenIds', e \in Taken : e < f => e \in OpenIds'
         /\ \A g \in push'.open :
              OneRun(g) /\ \A b \in g : b.eid \in DOMAIN outbox /\ b = Body(b.eid)
<1>1. SendOrPull(Taken) /\ push.phase \in {"idle", "apply"}
  BY DEF StartPush, ContinuePush, Taken
<1>2. Taken \subseteq DOMAIN outbox
  BY DEF Due, Unsynced, Inv, Sending, Taken
<1>3. push.open = {}
  BY <1>1 DEF Inv, Sending, RunInv, HandsEmpty
<1>4. CASE Taken = {}
  <2>1. push' = Pulling /\ outbox' = outbox
    BY <1>1, <1>4 DEF SendOrPull
  <2>2. push'.open = {} /\ push'.due = {} /\ DOMAIN push'.answer = {} /\ push'.phase = "pull"
    BY <2>1 DEF Pulling, PushIn, Empty
  <2>3. Noted
    BY <2>1 DEF Noted
  <2>4. OpenIds' = {}
    BY <2>2 DEF OpenIds, Eids, Events
  <2>5. GroupsInOrder(push'.open)
    BY <2>2 DEF GroupsInOrder
  <2>6. QED
    BY <1>2, <1>3, <1>4, <2>1, <2>2, <2>3, <2>4, <2>5 DEF Syncing
<1>5. CASE Taken # {}
  <2>1. PICK R, sent, S : R = NextBatch(S) /\ sent = Eids(Events(R)) /\ S = Taken
    OBVIOUS
  <2>2. /\ outbox' = [e \in DOMAIN outbox |-> IF e \in sent THEN [Charged(outbox[e]) EXCEPT !.wait = 0]
                                              ELSE outbox[e]]
        /\ push' = [phase |-> "waiting", due |-> S \ sent, open |-> R, answer |-> Empty]
    BY <1>1, <1>5, <2>1 DEF SendOrPull, SendBatch
  <2>3. /\ push'.open = R /\ push'.due = S \ sent /\ DOMAIN push'.answer = {}
        /\ push'.phase = "waiting" /\ OpenIds' = sent
    BY <2>1, <2>2 DEF Empty, OpenIds, Eids, Events
  <2>4. /\ GroupsInOrder(R)
        /\ \A g \in R : \A b \in g : b.eid \in S /\ b = Body(b.eid)
        /\ \A f \in sent, e \in S : e < f => e \in sent
        /\ sent \subseteq S
    <3>1. \A g \in R : \A b \in g : b.eid \in S
      BY <1>2, <2>1, BatchLine
    <3>2. sent \subseteq S
      BY <2>1, <3>1 DEF Eids, Events
    <3>3. QED
      BY <1>2, <2>1, <3>2, BatchLine
  <2>5. \A e \in DOMAIN outbox : /\ outbox'[e].tx = outbox[e].tx /\ outbox'[e].key = outbox[e].key
                                 /\ outbox'[e].type = outbox[e].type /\ outbox'[e].base = outbox[e].base
                                 /\ outbox'[e].synced = outbox[e].synced
                                 /\ outbox'[e].wait = 0 \/ outbox'[e].wait = outbox[e].wait
    <3>1. \A e \in DOMAIN outbox : outbox[e] \in Row
      BY DEF Inv, Tables, Partial
    <3>2. QED
      BY <2>2, <3>1 DEF Row, Charged
  <2>6. Noted
    BY <2>2, <2>5 DEF Noted
  <2>7. \A g \in R : OneRun(g)
    BY <2>1, BatchRuns
  <2>8. OpenIds' \cup push'.due = Taken
    BY <2>1, <2>3, <2>4
  <2>9. QED
    BY <1>2, <1>3, <2>1, <2>3, <2>4, <2>5, <2>6, <2>7, <2>8 DEF Syncing
<1>6. QED
  BY <1>4, <1>5

(* Runs and calls are not touched.                                         *)
LEMMA CallsWait ==
  ASSUME UNCHANGED <<pending, stack>>
  PROVE  StillWaiting
<1>1. OpenRuns' = OpenRuns
  BY DEF OpenRuns
<1>2. QED
  BY <1>1 DEF StillWaiting, Joined, Entries, Alive

(* A batch on its way says what the outbox says.                           *)
LEMMA SendTruth ==
  ASSUME Inv, RowInv, RunInv, Peaceful, Truthful, StartPush \/ ContinuePush
  PROVE  Truthful'
<1>1. UNCHANGED <<log, dead, heads, late, config, nextId, pending, stack, replayed>>
  BY DEF StartPush, ContinuePush, Aside, calls
<1>2. /\ Noted
      /\ \A e \in DOMAIN outbox : /\ outbox'[e].synced = outbox[e].synced
                                  /\ outbox'[e].wait = 0 \/ outbox'[e].wait = outbox[e].wait
      /\ DOMAIN push'.answer = {} /\ GroupsInOrder(push'.open)
      /\ \A g \in push'.open :
           OneRun(g) /\ \A b \in g : b.eid \in DOMAIN outbox /\ b = Body(b.eid)
  BY SendFacts
<1>3. BasesKnown' /\ RunChain' /\ \A e \in DOMAIN outbox : Body(e)' = Body(e)
  <2>1. LogGrows /\ replayed \subseteq replayed' /\ StillWaiting
    BY <1>1, CallsWait DEF LogGrows
  <2>2. QED
    BY <1>1, <1>2, <2>1, NotedBases
<1>4. LogTrue' /\ TypesFollow' /\ replayed' \subseteq Theirs'
  BY <1>1, <1>2, SameLogTruth DEF Noted, Truthful, LogTrue
<1>5. Unfaulted'
  BY <1>1, <1>2 DEF Truthful, Unfaulted, Noted
<1>6. GroupsInOrder(push.open)'
  BY <1>2 DEF GroupsInOrder, Below
<1>7. BodiesWhole'
  BY <1>2, <1>3 DEF BodiesWhole, OneRun, Noted
<1>8. QED
  BY <1>3, <1>4, <1>5, <1>6, <1>7 DEF Truthful

(* What a push has in hand stays, or is dropped; so do its answers.        *)
HandsKept ==
  /\ \/ push'.open = push.open /\ push'.due = push.due
     \/ push'.open = {} /\ push'.due = {}
  /\ \A f \in DOMAIN push'.answer : f \in DOMAIN push.answer /\ push'.answer[f] = push.answer[f]
NotedTrue ==
  /\ Noted
  /\ \A e \in DOMAIN outbox : outbox'[e].wait = 0 /\ (outbox'[e].synced => e \in DOMAIN log)
LEMMA HandsTruth ==
  ASSUME Inv, RowInv, Peaceful, Truthful, NotedTrue, HandsKept, StillWaiting,
         UNCHANGED <<log, config, heads, late, nextId, replayed>>,
         pending' = pending \/ DOMAIN pending' = {}
  PROVE  Truthful'
<1>1. Noted
  BY DEF NotedTrue
<1>2. BasesKnown' /\ RunChain' /\ \A e \in DOMAIN outbox : Body(e)' = Body(e)
  <2>1. /\ LogGrows /\ replayed \subseteq replayed'
        /\ \A k \in Keys : \A b : heads'[k] = b =>
             heads[k] = b \/ (BaseKnown(b, k)' /\ b \notin DOMAIN pending')
    BY DEF LogGrows
  <2>2. QED
    BY <1>1, <2>1, NotedBases
<1>3. LogTrue' /\ TypesFollow' /\ replayed' \subseteq Theirs'
  BY SameLogTruth DEF NotedTrue, Noted
<1>4. Unfaulted'
  BY DEF Truthful, Unfaulted, NotedTrue, Noted, HandsKept
<1>5. GroupsInOrder(push.open)' /\ BodiesWhole'
  <2>1. push'.open \subseteq push.open
    BY DEF HandsKept
  <2>2. GroupsInOrder(push.open)'
    BY <2>1 DEF Truthful, GroupsInOrder, Below
  <2>3. BodiesWhole'
    BY <1>1, <1>2, <2>1 DEF Truthful, BodiesWhole, OneRun, Noted
  <2>4. QED
    BY <2>2, <2>3
<1>6. QED
  BY <1>2, <1>3, <1>4, <1>5 DEF Truthful

(* The answers are received and applied, and the sync ends.                *)
LEMMA AnswerFacts ==
  ASSUME Inv, NEW e, ReceiveReply \/ EndSync \/ Confirm(e) \/ BackOff(e)
  PROVE  /\ Noted /\ HandsKept
         /\ UNCHANGED <<config, rows, heads, dead, log, late, nextId, pending, stack, replayed, halfway>>
         /\ Unfaulted /\ LogTrue => NotedTrue
<1>1. UNCHANGED <<config, rows, heads, dead, log, late, nextId, pending, stack, replayed, halfway>>
  BY DEF ReceiveReply, EndSync, Confirm, BackOff, Aside, calls
<1>2. \/ push'.open = push.open /\ push'.due = push.due
      \/ push'.open = {} /\ push'.due = {}
  BY DEF ReceiveReply, EndSync, Confirm, BackOff, Applied, Resting, PushIn, Inv, Sending
<1>3. \A f \in DOMAIN push'.answer : f \in DOMAIN push.answer /\ push'.answer[f] = push.answer[f]
  <2>1. \/ push'.answer = push.answer \/ push'.answer = Empty
        \/ push'.answer = Without(push.answer, {e})
    BY DEF ReceiveReply, EndSync, Confirm, BackOff, Applied, Resting, PushIn, Inv, Sending
  <2>2. QED
    BY <2>1 DEF Without, Empty
<1>4. Confirm(e) \/ BackOff(e) => e \in DOMAIN outbox /\ e \in DOMAIN push.answer
  BY ToApplyIn DEF Confirm, BackOff
<1>5. Noted
  <2>1. \A f \in DOMAIN outbox : outbox[f] \in Row
    BY DEF Inv, Tables, Partial
  <2>2. CASE outbox' = outbox
    BY <2>2 DEF Noted
  <2>3. CASE Confirm(e)
    BY <1>4, <2>1, <2>3 DEF Confirm, Row, Noted
  <2>4. CASE BackOff(e)
    BY <1>4, <2>1, <2>4 DEF BackOff, Row, Noted
  <2>5. QED
    BY <2>2, <2>3, <2>4 DEF ReceiveReply, EndSync
<1>6. ASSUME Unfaulted, LogTrue
      PROVE  \A f \in DOMAIN outbox : outbox'[f].wait = 0 /\ (outbox'[f].synced => f \in DOMAIN log)
  <2>1. ~BackOff(e)
    BY <1>4, <1>6 DEF Unfaulted, BackOff
  <2>2. CASE outbox' = outbox
    BY <1>6, <2>2 DEF Unfaulted, LogTrue
  <2>3. CASE Confirm(e)
    <3>1. e \in DOMAIN log /\ e \in DOMAIN outbox
      BY <1>4, <2>3 DEF Confirm, Inv, Sending
    <3>2. outbox[e] \in Row
      BY <3>1 DEF Inv, Tables, Partial
    <3>3. outbox' = [outbox EXCEPT ![e].synced = TRUE, ![e].wait = 0]
      BY <2>3 DEF Confirm
    <3>4. /\ outbox'[e].wait = 0
          /\ \A f \in DOMAIN outbox \ {e} : outbox'[f] = outbox[f]
      BY <3>1, <3>2, <3>3 DEF Row
    <3>5. QED
      BY <1>6, <3>1, <3>4 DEF Unfaulted, LogTrue
  <2>4. QED
    BY <2>1, <2>2, <2>3 DEF ReceiveReply, EndSync
<1>7. QED
  BY <1>1, <1>2, <1>3, <1>5, <1>6 DEF HandsKept, NotedTrue

(* A crash drops what waits and what is in hand.                           *)
LEMMA CrashFacts ==
  ASSUME Inv, Crash \/ CrashInMark
  PROVE  /\ Noted /\ HandsKept
         /\ UNCHANGED <<config, rows, heads, dead, log, nextId, replayed, halfway>>
         /\ DOMAIN pending' = {} /\ push' = Resting /\ lost \subseteq lost' /\ crashes' = crashes + 1
         /\ config.faults = {} => late' = late
         /\ Unfaulted /\ LogTrue => NotedTrue
<1>1. Restart /\ UNCHANGED <<config, rows, heads, dead, log, nextId, replayed, halfway>>
  BY DEF Crash, CrashInMark, Restart
<1>2. /\ pending' = Empty /\ crashes' = crashes + 1 /\ push' = Resting /\ lost \subseteq lost'
      /\ late' \in {late} \cup Abandoned
  BY <1>1 DEF Restart
<1>3. /\ push'.open = {} /\ push'.due = {} /\ DOMAIN push'.answer = {} /\ DOMAIN pending' = {}
  BY <1>2 DEF Resting, PushIn, Empty
<1>4. config.faults = {} => late' = late
  BY <1>2 DEF Abandoned
<1>5. /\ DOMAIN outbox' = DOMAIN outbox
      /\ \A e \in DOMAIN outbox :
           /\ outbox'[e].tx = outbox[e].tx /\ outbox'[e].key = outbox[e].key
           /\ outbox'[e].type = outbox[e].type /\ outbox'[e].base = outbox[e].base
           /\ outbox'[e].wait = outbox[e].wait /\ outbox'[e].synced = outbox[e].synced
  <2>1. CASE Crash
    BY <2>1 DEF Crash
  <2>2. CASE CrashInMark
    <3>1. PICK sent, x : outbox' = [f \in DOMAIN outbox |-> IF f \in sent /\ f <= x THEN Charged(outbox[f])
                                                            ELSE outbox[f]]
      BY <2>2 DEF CrashInMark
    <3>2. \A f \in DOMAIN outbox : outbox[f] \in Row
      BY DEF Inv, Tables, Partial
    <3>3. QED
      BY <3>1, <3>2 DEF Charged, Row
  <2>3. QED
    BY <2>1, <2>2
<1>6. Noted
  BY <1>5 DEF Noted
<1>7. ASSUME Unfaulted, LogTrue PROVE NotedTrue
  BY <1>5, <1>6, <1>7 DEF Unfaulted, LogTrue, NotedTrue
<1>8. QED
  BY <1>1, <1>2, <1>3, <1>4, <1>6, <1>7 DEF HandsKept

(* Answers and crashes keep the truth.                                     *)
LEMMA AnswerTruth ==
  ASSUME Inv, RowInv, RunInv, Peaceful, Truthful, NEW e,
         ReceiveReply \/ EndSync \/ Confirm(e) \/ Crash \/ CrashInMark
  PROVE  Truthful'
<1>1. Unfaulted /\ LogTrue /\ config.faults = {}
  BY DEF Truthful, Peaceful
<1>2. CASE ReceiveReply \/ EndSync \/ Confirm(e)
  <2>1. /\ NotedTrue /\ HandsKept
        /\ UNCHANGED <<log, config, heads, late, nextId, replayed, pending, stack>>
    BY <1>1, <1>2, AnswerFacts
  <2>2. StillWaiting
    BY <2>1, CallsWait
  <2>3. QED
    BY <2>1, <2>2, HandsTruth
<1>3. CASE Crash \/ CrashInMark
  <2>1. /\ NotedTrue /\ HandsKept /\ DOMAIN pending' = {}
        /\ UNCHANGED <<log, config, heads, late, nextId, replayed>>
    BY <1>1, <1>3, CrashFacts
  <2>2. StillWaiting
    BY <2>1 DEF StillWaiting
  <2>3. QED
    BY <2>1, <2>2, HandsTruth
<1>4. QED
  BY <1>2, <1>3

-----------------------------------------------------------------------------
(* The server and other devices keep the truth.                            *)

(* A step in which the server takes the group g: it appends it, after what *)
(* it has and in the order of the ids, or refuses it.                      *)
Served(g) ==
  /\ g \in push.open /\ g = Head1(push.open) /\ push.open # {}
  /\ push'.open = push.open \ {g} /\ push'.due = push.due /\ push'.phase = push.phase
  /\ UNCHANGED <<config, rows, outbox, dead, heads, late, nextId, pending, stack, lost,
                 replayed, halfway, crashes>>
  /\ Eids(g) \subseteq DOMAIN outbox /\ Eids(g) \subseteq OpenIds
  /\ \A b \in g : b.eid \in DOMAIN outbox /\ b = Body(b.eid)
  /\ DOMAIN push'.answer = DOMAIN push.answer \cup Eids(g)
  /\ \A e \in DOMAIN push.answer \ Eids(g) : push'.answer[e] = push.answer[e]
  /\ \A e \in Eids(g) : push'.answer[e] \in {"confirmed", "conflict", "rejected"}
  /\ IF Conflicting(g) = {}
     THEN AppendsInOrder(g, log') /\ \A e \in Eids(g) : push'.answer[e] = "confirmed"
     ELSE log' = log
LEMMA ServeFacts ==
  ASSUME Inv, RowInv, RunInv, Peaceful, Truthful, ServePush
  PROVE  \E g : Served(g) /\ LogGrows
<1>1. PICK g : g = Head1(push.open)
  OBVIOUS
<1>2. PICK result \in ServerResults(g, config.faults) :
        /\ log' = result.log
        /\ push' = [push EXCEPT !.open = @ \ {g}, !.answer = Join(@, result.answer)]
  BY <1>1 DEF ServePush
<1>3. /\ push.phase = "waiting" /\ push.open # {}
      /\ UNCHANGED <<outbox, dead, heads, late, crashes>> /\ Aside
  BY DEF ServePush
<1>4. UNCHANGED <<config, rows, nextId, pending, stack, lost, replayed, halfway>>
  BY <1>3 DEF Aside, calls
<1>5. /\ g \in push.open /\ Eids(g) \subseteq OpenIds
  <2>1. g \in push.open
    BY <1>1, <1>3, TrueGroups, HeadGroup DEF Inv, Sending
  <2>2. QED
    BY <2>1 DEF OpenIds, Eids, Events
<1>6. /\ push'.open = push.open \ {g} /\ push'.due = push.due /\ push'.phase = push.phase
      /\ push'.answer = Join(push.answer, result.answer)
  BY <1>2 DEF Inv, Sending
<1>7. DOMAIN result.answer = Eids(g)
  BY ServerKeeps
<1>8. /\ DOMAIN push'.answer = DOMAIN push.answer \cup Eids(g)
      /\ \A e \in Eids(g) : push'.answer[e] = result.answer[e]
      /\ \A e \in DOMAIN push.answer \ Eids(g) : push'.answer[e] = push.answer[e]
  BY <1>6, <1>7 DEF Join
<1>9. /\ \A b \in g : /\ b.eid \in DOMAIN outbox /\ b = Body(b.eid) /\ b.seq = b.eid
      /\ Eids(g) \subseteq DOMAIN outbox
  <2>1. \A b \in g : b.eid \in DOMAIN outbox /\ b = Body(b.eid)
    BY <1>5 DEF Truthful, BodiesWhole
  <2>2. QED
    BY <2>1 DEF Body, Eids
<1>10. LogGrows
  BY <1>2, ServerGrows
<1>11. config.faults = {}
  BY DEF Peaceful
<1>12. CASE Conflicting(g) = {}
  <2>1. result = Result(Appended(g), AllConfirmed(g))
    BY <1>11, <1>12 DEF ServerResults
  <2>2. log' = Appended(g) /\ \A e \in Eids(g) : result.answer[e] = "confirmed"
    BY <1>2, <2>1 DEF Result, AllConfirmed
  <2>3. DOMAIN outbox \subseteq Ids /\ Ids \subseteq Nat /\ IsFiniteSet(Eids(g))
    <3>1. DOMAIN outbox \subseteq Ids /\ Ids \subseteq 1..MaxIds /\ MaxIds \in Nat
      BY IdFacts DEF Committed
    <3>2. IsFiniteSet(1..MaxIds)
      BY <3>1, FS_Interval
    <3>3. Eids(g) \in SUBSET (1..MaxIds)
      BY <1>9, <3>1
    <3>4. IsFiniteSet(Eids(g))
      BY <3>2, <3>3, FS_Subset
    <3>5. QED
      BY <3>1, <3>4
  <2>4. PICK new : new = log'
    OBVIOUS
  <2>5. AppendsInOrder(g, new)
    <3>1. /\ IsFiniteSet(DOMAIN log)
          /\ \A e \in DOMAIN log : log[e].pos \in 1..Cardinality(DOMAIN log)
      BY DEF Truthful, LogTrue
    <3>2. \A b \in g : b.seq = b.eid /\ b.eid \in Nat
      BY <1>9, <2>3
    <3>3. \A b, c \in g : b.eid = c.eid => b = c
      BY <1>9
    <3>4. new = Appended(g)
      BY <2>2, <2>4
    <3>5. QED
      BY <2>3, <3>1, <3>2, <3>3, <3>4, AppendedInOrder
  <2>6. AppendsInOrder(g, log')
    BY <2>4, <2>5
  <2>7. QED
    BY <1>1, <1>3, <1>4, <1>5, <1>6, <1>8, <1>9, <1>10, <1>12, <2>2, <2>6 DEF Served
<1>13. CASE Conflicting(g) # {}
  <2>1. result = Result(log, Aborted(g, Conflicting(g), "conflict"))
    BY <1>11, <1>13 DEF ServerResults
  <2>2. log' = log /\ \A e \in Eids(g) : result.answer[e] \in {"confirmed", "conflict", "rejected"}
    BY <1>2, <2>1 DEF Result, Aborted
  <2>3. QED
    BY <1>1, <1>3, <1>4, <1>5, <1>6, <1>8, <1>9, <1>10, <1>13, <2>2 DEF Served
<1>14. QED
  BY <1>12, <1>13

(* What comes after everything there is leaves what came before alone.     *)
LEMMA BeforeKept ==
  ASSUME LogGrows, \A e \in DOMAIN log' \ DOMAIN log, f \in DOMAIN log : ~(log'[e].pos < log'[f].pos)
  PROVE  \A f \in DOMAIN log : Before(f)' = Before(f) /\ Tops(Before(f))' = Tops(Before(f))
<1>1. ASSUME NEW f \in DOMAIN log PROVE Before(f)' = Before(f) /\ Tops(Before(f))' = Tops(Before(f))
  <2>1. Before(f)' = Before(f) /\ Before(f) \subseteq DOMAIN log
    BY DEF Before, LogGrows
  <2>2. QED
    BY <2>1 DEF Tops, LogGrows
<1>2. QED
  BY <1>1

(* What the log is, when a group has been appended.                        *)
LEMMA AppendedTruth ==
  ASSUME Inv, RowInv, Peaceful, Truthful, NEW g, Served(g), LogGrows, Conflicting(g) = {}
  PROVE  /\ LogTrue' /\ TypesFollow' /\ Theirs' = Theirs /\ Stored' = Stored \cup Eids(g)
         /\ \A e \in DOMAIN log, f \in DOMAIN log' \ DOMAIN log : log'[e].pos < log'[f].pos
         /\ \A e, f \in DOMAIN log' \ DOMAIN log : e < f => log'[e].pos < log'[f].pos
<1>1. PICK new : new = log'
  OBVIOUS
<1>2. AppendsInOrder(g, new)
  BY <1>1 DEF Served
<1>3. /\ DOMAIN new = DOMAIN log \cup Eids(g) /\ IsFiniteSet(DOMAIN new)
      /\ \A e \in DOMAIN log : new[e] = log[e]
      /\ \A b \in g : b.eid \notin DOMAIN log => new[b.eid].key = b.key /\ new[b.eid].type = b.type
      /\ \A e \in DOMAIN new : new[e].pos \in 1..Cardinality(DOMAIN new)
      /\ \A e \in DOMAIN log, f \in DOMAIN new \ DOMAIN log : new[e].pos < new[f].pos
      /\ \A e, f \in DOMAIN new \ DOMAIN log : e < f => new[e].pos < new[f].pos
  BY <1>2 DEF AppendsInOrder
<1>4. /\ Eids(g) \subseteq DOMAIN outbox /\ UNCHANGED <<outbox, config>>
      /\ \A b \in g : b.eid \in DOMAIN outbox /\ b = Body(b.eid)
  BY DEF Served
<1>5. /\ DOMAIN outbox \subseteq Ids /\ Ids \subseteq Nat
      /\ \A e \in DOMAIN outbox : outbox[e].key \in Keys
  BY IdFacts, PeacefulFacts DEF Committed, Inv, Tables, Partial, Row
<1>6. Cardinality(DOMAIN new) \in Nat
  BY <1>3, FS_CardinalityType
<1>7. \A e \in DOMAIN new : new[e].pos \in Nat
  BY <1>3, <1>6
<1>8. ASSUME NEW e \in Eids(g), e \notin DOMAIN log
      PROVE  new[e].key = outbox[e].key /\ new[e].type = outbox[e].type
  <2>1. PICK b \in g : b.eid = e
    BY DEF Eids
  <2>2. b.key = outbox[e].key /\ b.type = outbox[e].type
    BY <1>4, <2>1 DEF Body
  <2>3. QED
    BY <1>3, <1>8, <2>1, <2>2
<1>9. Theirs' = Theirs /\ Stored' = Stored \cup Eids(g)
  BY <1>1, <1>3, <1>4, <1>5 DEF Theirs, Stored
<1>10. LogTrue
  BY DEF Truthful
<1>11. ASSUME NEW e \in DOMAIN new, NEW f \in DOMAIN new, new[e].pos = new[f].pos PROVE e = f
  <2>1. CASE e \in DOMAIN log /\ f \in DOMAIN log
    BY <1>3, <1>10, <1>11, <2>1 DEF LogTrue
  <2>2. CASE e \in DOMAIN log /\ f \notin DOMAIN log
    <3>1. new[e].pos < new[f].pos
      BY <1>3, <2>2
    <3>2. QED
      BY <1>7, <1>11, <3>1
  <2>3. CASE e \notin DOMAIN log /\ f \in DOMAIN log
    <3>1. new[f].pos < new[e].pos
      BY <1>3, <2>3
    <3>2. QED
      BY <1>7, <1>11, <3>1
  <2>4. CASE e \notin DOMAIN log /\ f \notin DOMAIN log
    <3>1. e \in Nat /\ f \in Nat
      BY <1>3, <1>4, <1>5, <2>4
    <3>2. ~(e < f) /\ ~(f < e)
      <4>1. ~(new[e].pos < new[f].pos) /\ ~(new[f].pos < new[e].pos)
        BY <1>7, <1>11
      <4>2. QED
        BY <1>3, <2>4, <4>1
    <3>3. QED
      BY <3>1, <3>2
  <2>5. QED
    BY <2>1, <2>2, <2>3, <2>4
<1>12. ASSUME NEW e \in DOMAIN new PROVE new[e].key \in Keys
  BY <1>3, <1>4, <1>5, <1>8, <1>10 DEF LogTrue
<1>13. ASSUME NEW e \in Stored'
       PROVE  e \in DOMAIN outbox /\ new[e].key = outbox[e].key /\ new[e].type = outbox[e].type
  <2>1. CASE e \in DOMAIN log
    <3>1. e \in Stored
      BY <1>13, <2>1 DEF Stored
    <3>2. QED
      BY <1>3, <1>10, <2>1, <3>1 DEF LogTrue
  <2>2. CASE e \notin DOMAIN log
    <3>1. e \in Eids(g)
      BY <1>9, <1>13, <2>2 DEF Stored
    <3>2. QED
      BY <1>4, <1>8, <2>2, <3>1
  <2>3. QED
    BY <2>1, <2>2
<1>14. LogTrue'
  <2>1. Keys' = Keys /\ outbox' = outbox /\ config' = config
    BY <1>4 DEF Keys
  <2>2. Theirs' \subseteq config'.foreign
    BY <1>9, <1>10, <2>1 DEF LogTrue
  <2>3. \A e \in DOMAIN outbox : outbox[e].synced => e \in DOMAIN new
    BY <1>3, <1>10 DEF LogTrue
  <2>4. /\ \A e \in DOMAIN new : new[e].pos \in 1..Cardinality(DOMAIN new) /\ new[e].key \in Keys
        /\ \A e, f \in DOMAIN new : new[e].pos = new[f].pos => e = f
        /\ IsFiniteSet(DOMAIN new)
    BY <1>3, <1>11, <1>12
  <2>5. QED
    BY <1>1, <1>13, <2>1, <2>2, <2>3, <2>4 DEF LogTrue
<1>15. TypesFollow'
  <2>1. \A e \in DOMAIN log' \ DOMAIN log, f \in DOMAIN log : ~(log'[e].pos < log'[f].pos)
    <3>1. ASSUME NEW e \in DOMAIN new \ DOMAIN log, NEW f \in DOMAIN log PROVE ~(new[e].pos < new[f].pos)
      <4>1. new[f].pos < new[e].pos /\ new[f].pos \in Nat /\ new[e].pos \in Nat
        BY <1>3, <1>7
      <4>2. QED
        BY <4>1
    <3>2. QED
      BY <1>1, <3>1
  <2>2. \A f \in DOMAIN log : Before(f)' = Before(f) /\ Tops(Before(f))' = Tops(Before(f))
    BY <2>1, BeforeKept
  <2>3. ASSUME NEW f \in Theirs
        PROVE  log'[f].type = "insert" <=> \A e \in Tops(Before(f))' : log'[e].type = "delete"
    <3>1. f \in DOMAIN log /\ log'[f] = log[f]
      BY <2>3 DEF Theirs, LogGrows
    <3>2. Tops(Before(f))' = Tops(Before(f)) /\ Tops(Before(f)) \subseteq DOMAIN log
      BY <2>2, <3>1 DEF Tops, Before
    <3>3. log[f].type = "insert" <=> \A e \in Tops(Before(f)) : log[e].type = "delete"
      BY <2>3 DEF Truthful, TypesFollow
    <3>4. \A e \in Tops(Before(f)) : log'[e] = log[e]
      BY <3>2 DEF LogGrows
    <3>5. QED
      BY <3>1, <3>2, <3>3, <3>4
  <2>4. QED
    BY <1>9, <2>3 DEF TypesFollow
<1>16. QED
  BY <1>1, <1>3, <1>9, <1>14, <1>15

(* The server takes a group.                                               *)
LEMMA ServeTruth ==
  ASSUME Inv, RowInv, RunInv, Peaceful, Truthful, ServePush
  PROVE  Truthful'
<1>1. PICK g : Served(g) /\ LogGrows
  BY ServeFacts
<1>2. /\ UNCHANGED <<config, outbox, heads, late, nextId, pending, stack, replayed>>
      /\ push'.open \subseteq push.open
      /\ DOMAIN push'.answer = DOMAIN push.answer \cup Eids(g)
      /\ \A e \in DOMAIN push.answer \ Eids(g) : push'.answer[e] = push.answer[e]
      /\ \A e \in Eids(g) : push'.answer[e] \in {"confirmed", "conflict", "rejected"}
  BY <1>1 DEF Served
<1>3. Unfaulted'
  BY <1>2 DEF Truthful, Unfaulted
<1>4. BasesKnown' /\ RunChain' /\ \A e \in DOMAIN outbox : Body(e)' = Body(e)
  <2>1. Noted /\ StillWaiting /\ replayed \subseteq replayed'
    BY <1>2, CallsWait DEF Noted
  <2>2. QED
    BY <1>1, <1>2, <2>1, NotedBases
<1>5. GroupsInOrder(push.open)' /\ BodiesWhole'
  BY <1>2, <1>4 DEF Truthful, GroupsInOrder, Below, BodiesWhole, OneRun
<1>6. LogTrue' /\ TypesFollow' /\ replayed' \subseteq Theirs'
  <2>1. CASE Conflicting(g) = {}
    BY <1>1, <1>2, <2>1, AppendedTruth DEF Truthful
  <2>2. CASE Conflicting(g) # {}
    <3>1. log' = log
      BY <1>1, <2>2 DEF Served
    <3>2. QED
      BY <1>2, <3>1, SameLogTruth DEF Truthful, LogTrue
  <2>3. QED
    BY <2>1, <2>2
<1>7. QED
  BY <1>3, <1>4, <1>5, <1>6 DEF Truthful

(* Another device writes: its event is the last.                           *)
LEMMA ForeignFacts ==
  ASSUME LogTrue, NEW f \in ForeignIds, NEW k \in Keys, Foreign(f, k)
  PROVE  /\ UNCHANGED <<config, rows, outbox, dead, heads, push, late, nextId, pending, stack,
                        lost, replayed, halfway, crashes>>
         /\ LogGrows /\ DOMAIN log' = DOMAIN log \cup {f} /\ f \notin DOMAIN log /\ f \notin Ids
         /\ f \in config.foreign /\ IsFiniteSet(DOMAIN log')
         /\ Cardinality(DOMAIN log') = Cardinality(DOMAIN log) + 1
         /\ log'[f].key = k /\ log'[f].pos = Cardinality(DOMAIN log) + 1
         /\ log'[f].type = "insert" <=> \A e \in HeadOf(k) : log[e].type = "delete"
         /\ Theirs' = Theirs \cup {f} /\ Stored' = Stored
<1>1. /\ UNCHANGED <<outbox, dead, heads, push, late, crashes>> /\ Aside
      /\ f \in config.foreign /\ f \notin DOMAIN log
  BY DEF Foreign
<1>2. UNCHANGED <<config, rows, nextId, pending, stack, lost, replayed, halfway>>
  BY <1>1 DEF Aside, calls
<1>3. PICK type \in MutationTypes :
        /\ (type = "insert") = (\A e \in HeadOf(k) : log[e].type = "delete")
        /\ log' = Appended({[eid |-> f, tx |-> f, key |-> k, type |-> type, val |-> f,
                             base |-> NoEvent, seq |-> f]})
  BY DEF Foreign
<1>4. PICK b : b = [eid |-> f, tx |-> f, key |-> k, type |-> type, val |-> f,
                    base |-> NoEvent, seq |-> f]
  OBVIOUS
<1>5. b.eid = f /\ b.seq = f /\ b.key = k /\ b.type = type /\ log' = Appended({b})
  BY <1>3, <1>4
<1>6. f \in Nat /\ f \notin Ids
  BY ConfigsAssumption, ForeignApart
<1>7. Eids({b}) = {f} /\ Fresh({b}) = {b}
  BY <1>1, <1>5 DEF Eids, Fresh
<1>8. Eids({c \in Fresh({b}) : c.seq <= b.seq}) = {f}
  <2>1. b.seq <= b.seq
    BY <1>5, <1>6
  <2>2. {c \in Fresh({b}) : c.seq <= b.seq} = {b}
    BY <1>7, <2>1
  <2>3. QED
    BY <1>7, <2>2
<1>9. DOMAIN log' = DOMAIN log \cup {f} /\ LogGrows
  BY <1>5, <1>7 DEF Appended, LogGrows
<1>10. log'[f] = StoredEvent(b, Cardinality(DOMAIN log) + 1)
  <2>1. (CHOOSE c \in {b} : c.eid = f) = b
    BY <1>5
  <2>2. Cardinality({f}) = 1
    BY FS_Singleton
  <2>3. log'[f] = StoredEvent(b, Cardinality(DOMAIN log)
                    + Cardinality(Eids({c \in Fresh({b}) : c.seq <= b.seq})))
    BY <1>1, <1>5, <1>7, <2>1 DEF Appended
  <2>4. QED
    BY <1>8, <2>2, <2>3
<1>11. log'[f].key = k /\ log'[f].type = type /\ log'[f].pos = Cardinality(DOMAIN log) + 1
  BY <1>5, <1>10 DEF StoredEvent
<1>12. log'[f].type = "insert" <=> \A e \in HeadOf(k) : log[e].type = "delete"
  BY <1>3, <1>11
<1>13. IsFiniteSet(DOMAIN log') /\ Cardinality(DOMAIN log') = Cardinality(DOMAIN log) + 1
  BY <1>1, <1>9, FS_AddElement DEF LogTrue
<1>14. Theirs' = Theirs \cup {f} /\ Stored' = Stored
  BY <1>6, <1>9 DEF Theirs, Stored
<1>15. QED
  BY <1>1, <1>2, <1>6, <1>9, <1>11, <1>12, <1>13, <1>14

(* Another device's event suits the row.                                   *)
LEMMA ForeignTruth ==
  ASSUME Inv, RowInv, RunInv, Peaceful, Truthful, NEW f \in ForeignIds, NEW k \in Keys, Foreign(f, k)
  PROVE  Truthful'
<1>1. PICK n : n = Cardinality(DOMAIN log)
  OBVIOUS
<1>2. /\ UNCHANGED <<config, outbox, heads, push, late, nextId, pending, stack, replayed>>
      /\ LogGrows /\ DOMAIN log' = DOMAIN log \cup {f} /\ f \notin DOMAIN log /\ f \notin Ids
      /\ f \in config.foreign /\ IsFiniteSet(DOMAIN log') /\ Cardinality(DOMAIN log') = n + 1
      /\ log'[f].key = k /\ log'[f].pos = n + 1
      /\ log'[f].type = "insert" <=> \A e \in HeadOf(k) : log[e].type = "delete"
      /\ Theirs' = Theirs \cup {f} /\ Stored' = Stored
  BY <1>1, ForeignFacts DEF Truthful
<1>3. n \in Nat /\ \A e \in DOMAIN log : log'[e] = log[e] /\ log[e].pos \in Nat /\ log[e].pos >= 1 /\ log[e].pos <= n
  BY <1>1, <1>2, PosIsNat DEF Truthful, LogTrue, LogGrows
<1>4. BasesKnown' /\ RunChain' /\ \A e \in DOMAIN outbox : Body(e)' = Body(e)
  <2>1. Noted /\ StillWaiting /\ replayed \subseteq replayed'
    BY <1>2, CallsWait DEF Noted
  <2>2. QED
    BY <1>2, <2>1, NotedBases
<1>5. Unfaulted' /\ GroupsInOrder(push.open)' /\ BodiesWhole'
  BY <1>2, <1>4 DEF Truthful, Unfaulted, GroupsInOrder, Below, BodiesWhole, OneRun
<1>6. LogTrue'
  <2>1. Keys' = Keys /\ LogTrue
    BY <1>2 DEF Keys, Truthful
  <2>2. ASSUME NEW e \in DOMAIN log' PROVE log'[e].pos \in 1..(n + 1) /\ log'[e].key \in Keys
    <3>1. CASE e = f
      BY <1>2, <1>3, <3>1
    <3>2. CASE e \in DOMAIN log
      BY <1>3, <2>1, <3>2 DEF LogTrue
    <3>3. QED
      BY <1>2, <3>1, <3>2
  <2>3. ASSUME NEW e \in DOMAIN log', NEW x \in DOMAIN log', log'[e].pos = log'[x].pos PROVE e = x
    <3>1. CASE e \in DOMAIN log /\ x \in DOMAIN log
      BY <1>3, <2>1, <2>3, <3>1 DEF LogTrue
    <3>2. \A y \in DOMAIN log : log'[y].pos # n + 1
      BY <1>3
    <3>3. QED
      BY <1>2, <2>3, <3>1, <3>2
  <2>4. \A e \in Stored : log'[e] = log[e]
    BY <1>3 DEF Stored
  <2>5. QED
    BY <1>2, <2>1, <2>2, <2>3, <2>4 DEF LogTrue
<1>7. replayed' \subseteq Theirs'
  BY <1>2 DEF Truthful
<1>8. TypesFollow'
  <2>1. \A e \in DOMAIN log' \ DOMAIN log, x \in DOMAIN log : ~(log'[e].pos < log'[x].pos)
    <3>1. \A x \in DOMAIN log : ~(n + 1 < log'[x].pos)
      BY <1>3
    <3>2. QED
      BY <1>2, <3>1
  <2>2. \A x \in DOMAIN log : Before(x)' = Before(x) /\ Tops(Before(x))' = Tops(Before(x))
    BY <1>2, <2>1, BeforeKept
  <2>3. ASSUME NEW x \in Theirs
        PROVE  log'[x].type = "insert" <=> \A e \in Tops(Before(x))' : log'[e].type = "delete"
    <3>1. x \in DOMAIN log /\ log'[x] = log[x]
      BY <1>3 DEF Theirs
    <3>2. Tops(Before(x))' = Tops(Before(x)) /\ Tops(Before(x)) \subseteq DOMAIN log
      BY <2>2, <3>1 DEF Tops, Before
    <3>3. log[x].type = "insert" <=> \A e \in Tops(Before(x)) : log[e].type = "delete"
      BY DEF Truthful, TypesFollow
    <3>4. \A e \in Tops(Before(x)) : log'[e] = log[e]
      BY <1>3, <3>2
    <3>5. QED
      BY <3>1, <3>2, <3>3, <3>4
  <2>4. Tops(Before(f))' = HeadOf(k)
    <3>1. Before(f)' = RowLog(k)
      <4>1. ~(n + 1 < n + 1) /\ \A e \in DOMAIN log : log'[e].pos < n + 1
        BY <1>3
      <4>2. QED
        BY <1>2, <1>3, <4>1 DEF Before, RowLog
    <3>2. RowLog(k) \subseteq DOMAIN log /\ HeadOf(k) = Tops(RowLog(k))
      BY HeadIsTop
    <3>3. Tops(Before(f))' = Tops(RowLog(k))
      BY <1>3, <3>1, <3>2 DEF Tops
    <3>4. QED
      BY <3>2, <3>3
  <2>5. \A e \in HeadOf(k) : log'[e] = log[e]
    BY <1>3 DEF HeadOf
  <2>6. log'[f].type = "insert" <=> \A e \in Tops(Before(f))' : log'[e].type = "delete"
    BY <1>2, <2>4, <2>5
  <2>7. QED
    BY <1>2, <2>3, <2>6 DEF TypesFollow
<1>9. QED
  BY <1>4, <1>5, <1>6, <1>7, <1>8 DEF Truthful

(* An event of another device is replayed.                                 *)
LEMMA ReplayTruth ==
  ASSUME Inv, RowInv, Peaceful, Truthful, (\E f \in ForeignIds : ReplayRow(f)) \/ ReplayVersion
  PROVE  Truthful'
<1>1. /\ UNCHANGED <<log, config, outbox, dead, nextId, push, late, pending, stack>>
      /\ replayed \subseteq replayed' /\ replayed' \subseteq Theirs
  <2>1. CASE ReplayVersion
    BY <2>1 DEF ReplayVersion, calls, Truthful
  <2>2. ASSUME NEW f \in ForeignIds, ReplayRow(f)
        PROVE  /\ UNCHANGED <<log, config, outbox, dead, nextId, push, late, pending, stack>>
               /\ replayed \subseteq replayed' /\ replayed' \subseteq Theirs
    <3>1. f \in DOMAIN log /\ f \notin Ids
      BY <2>2, ForeignApart DEF ReplayRow, NextForeign
    <3>2. QED
      BY <2>2, <3>1 DEF ReplayRow, calls, Truthful, Theirs
  <2>3. QED
    BY <2>1, <2>2
<1>2. ASSUME NEW k \in Keys, NEW b, heads'[k] = b
      PROVE  heads[k] = b \/ (BaseKnown(b, k)' /\ b \notin DOMAIN pending')
  <2>1. CASE ~ReplayVersion
    BY <1>2, <2>1 DEF ReplayRow
  <2>2. CASE ReplayVersion
    <3>1. heads' = [heads EXCEPT ![log[halfway].key] = halfway] /\ halfway # NoEvent
      BY <2>2 DEF ReplayVersion
    <3>2. heads[k] = b \/ (b = halfway /\ k = log[halfway].key)
      <4>1. heads \in [Keys -> Versions]
        BY DEF Inv, Tables
      <4>2. QED
        BY <1>2, <3>1, <4>1
    <3>3. halfway \in replayed /\ halfway \in DOMAIN log /\ halfway \notin Ids
      <4>1. halfway \in replayed /\ replayed \subseteq Theirs
        BY <3>1 DEF RowInv, Halfway, Truthful
      <4>2. QED
        BY <4>1 DEF Theirs
    <3>4. DOMAIN pending \subseteq Ids
      BY IdFacts
    <3>5. ASSUME b = halfway, k = log[halfway].key PROVE BaseKnown(b, k)' /\ b \notin DOMAIN pending'
      BY <1>1, <3>1, <3>3, <3>4, <3>5 DEF BaseKnown
    <3>6. QED
      BY <3>2, <3>5
  <2>3. QED
    BY <2>1, <2>2
<1>3. BasesKnown' /\ RunChain' /\ \A e \in DOMAIN outbox : Body(e)' = Body(e)
  <2>1. LogGrows /\ Noted /\ StillWaiting
    BY <1>1, CallsWait DEF LogGrows, Noted
  <2>2. QED
    BY <1>1, <1>2, <2>1, NotedBases
<1>4. Unfaulted' /\ GroupsInOrder(push.open)' /\ BodiesWhole'
  BY <1>1, <1>3 DEF Truthful, Unfaulted, GroupsInOrder, Below, BodiesWhole, OneRun
<1>5. Theirs' = Theirs /\ LogTrue'
  BY <1>1 DEF Truthful, LogTrue, Stored, Theirs, Keys
<1>6. TypesFollow'
  <2>1. \A f : Before(f)' = Before(f)
    BY <1>1 DEF Before
  <2>2. \A f : Tops(Before(f))' = Tops(Before(f))
    BY <1>1, <2>1 DEF Tops
  <2>3. QED
    BY <1>1, <1>5, <2>2 DEF Truthful, TypesFollow
<1>7. QED
  BY <1>1, <1>3, <1>4, <1>5, <1>6 DEF Truthful

(* What a peaceful server and network never do.                            *)
LEMMA PeacefulSteps ==
  ASSUME Inv, Peaceful, Truthful, NEW e,
         TransportError \/ ServeLate \/ BackoffTick \/ BackOff(e) \/ ParkThrows(e)
  PROVE  FALSE
<1>1. config.faults = {} /\ late = {} /\ DOMAIN dead = {} /\ Unfaulted
  BY DEF Peaceful, Truthful, Unfaulted
<1>2. ~TransportError /\ ~ServeLate /\ ~ParkThrows(e)
  BY <1>1 DEF TransportError, ServeLate, ParkThrows
<1>3. ~BackoffTick
  BY <1>1 DEF BackoffTick, Unfaulted
<1>4. ~BackOff(e)
  <2>1. SUFFICES ASSUME BackOff(e) PROVE FALSE
    OBVIOUS
  <2>2. e \in DOMAIN push.answer
    BY <2>1, ToApplyIn DEF BackOff
  <2>3. QED
    BY <1>1, <2>1, <2>2 DEF BackOff, Unfaulted
<1>5. QED
  BY <1>2, <1>3, <1>4

(* What parks an event ends the peace.                                     *)
LEMMA ParkEnds ==
  ASSUME Inv, NEW e, Park(e) \/ CrashInPark
  PROVE  ~Peaceful'
<1>1. PICK x : Applying(x) /\ dead' = Recorded(x)
  BY DEF Park, CrashInPark
<1>2. x \in DOMAIN outbox
  BY <1>1, ToApplyIn
<1>3. x \in DOMAIN dead'
  BY <1>1, <1>2 DEF Recorded, Join, Only
<1>4. QED
  BY <1>3 DEF Peaceful

-----------------------------------------------------------------------------
(* The order is kept, step by step.                                        *)

(* What is in hand is in the outbox.                                       *)
LEMMA HandsIn ==
  ASSUME Inv, RowInv, Peaceful
  PROVE  /\ Stored \subseteq DOMAIN outbox /\ OpenIds \subseteq DOMAIN outbox
         /\ push.due \subseteq DOMAIN outbox /\ \A k : Unstored(k) \subseteq Ids
         /\ DOMAIN outbox \subseteq Ids /\ Ids \subseteq Nat
<1>1. Stored \subseteq DOMAIN outbox /\ DOMAIN outbox \subseteq Ids /\ Ids \subseteq Nat
  BY PeacefulFacts DEF Ours
<1>2. OpenIds \subseteq DOMAIN outbox /\ push.due \subseteq DOMAIN outbox
  BY DEF Inv, Sending, Unsynced, OpenIds
<1>3. \A k : Unstored(k) \subseteq Ids
  BY <1>1 DEF Unstored
<1>4. QED
  BY <1>1, <1>2, <1>3

(* A row goes on showing what it shows.                                    *)
LEMMA RowKept ==
  ASSUME NEW k, rows'[k] = rows[k], Unstored(k) \subseteq Ids,
         Unstored(k)' = Unstored(k), SeenOf(k)' = SeenOf(k),
         \A e \in Unstored(k) : outbox'[e].type = outbox[e].type,
         \A e \in SeenOf(k) : log'[e] = log[e], RowShows(k)
  PROVE  RowShows(k)'
<1>1. Unstored(k) # {} => Last(Unstored(k)) \in Unstored(k)
  BY LastIn
<1>2. Tops(SeenOf(k))' = Tops(SeenOf(k)) /\ Tops(SeenOf(k)) \subseteq SeenOf(k)
  BY DEF Tops
<1>3. Unstored(k) # {} =>
        Shows(k, Last(Unstored(k)), outbox[Last(Unstored(k))].type)'
  <2>1. SUFFICES ASSUME Unstored(k) # {}
                 PROVE  Shows(k, Last(Unstored(k)), outbox[Last(Unstored(k))].type)'
    OBVIOUS
  <2>2. PICK x : x = Last(Unstored(k))
    OBVIOUS
  <2>3. x = Last(Unstored(k))' /\ outbox'[x].type = outbox[x].type
    BY <1>1, <2>1, <2>2
  <2>4. Shows(k, x, outbox[x].type)
    BY <2>1, <2>2 DEF RowShows
  <2>5. Shows(k, x, outbox[x].type)'
    BY <2>3, <2>4 DEF Shows
  <2>6. QED
    BY <2>3, <2>5 DEF Shows
<1>4. Unstored(k) = {} =>
        /\ SeenOf(k) = {} => ~rows[k].live
        /\ \A e \in Tops(SeenOf(k)) : Shows(k, e, log[e].type)
  BY DEF RowShows
<1>5. \A e \in Tops(SeenOf(k)) : log'[e] = log[e]
  BY <1>2
<1>6. QED
  BY <1>2, <1>3, <1>4, <1>5 DEF RowShows, Shows

(* Neither the rows nor the outbox, the push or the server are touched.    *)
LEMMA QuietInLine ==
  ASSUME UNCHANGED <<config, rows, log, outbox, push, replayed>>, InLine,
         \A k : Unstored(k) \subseteq Ids
  PROVE  InLine'
<1>1. Stored' = Stored /\ OpenIds' = OpenIds /\ Theirs' = Theirs /\ Keys' = Keys
  BY DEF Stored, OpenIds, Theirs, Keys
<1>2. AllConfirming' /\ LogInOrder' /\ ReplayedInOrder' /\ Foreseen' /\ AllSent'
  BY <1>1 DEF InLine, AllConfirming, LogInOrder, ReplayedInOrder, Foreseen, AllSent, Syncing
<1>3. SentInOrder'
  BY <1>1 DEF InLine, SentInOrder, Down
<1>4. RowsShow'
  <2>1. ASSUME NEW k \in Keys PROVE RowShows(k)'
    <3>1. Unstored(k)' = Unstored(k) /\ SeenOf(k)' = SeenOf(k)
      BY DEF Unstored, SeenOf
    <3>2. RowShows(k)
      BY DEF InLine, RowsShow
    <3>3. QED
      BY <3>1, <3>2, RowKept
  <2>2. QED
    BY <1>1, <2>1 DEF RowsShow
<1>5. QED
  BY <1>2, <1>3, <1>4 DEF InLine

(* What commits is the newest of its rows, and the rows show it.           *)
LEMMA InsertedInLine ==
  ASSUME Inv, RowInv, RunInv, Peaceful, InLine, NEW S, S \subseteq DOMAIN pending,
         InsertAll(S), Rest, \A e \in S : Alive(e), Leaving(S)
  PROVE  InLine'
<1>1. /\ DOMAIN outbox' = DOMAIN outbox \cup S /\ DOMAIN pending' = DOMAIN pending \ S
      /\ \A e \in S : outbox'[e] = pending[e] /\ e \notin DOMAIN log /\ e \notin DOMAIN outbox
      /\ \A e \in DOMAIN outbox : outbox'[e] = outbox[e]
      /\ Fewer
  BY InsertedOutbox
<1>2. UNCHANGED <<log, config, push, replayed>> /\ rows' = Written(S)
  BY DEF Rest, InsertAll
<1>3. /\ Stored \subseteq DOMAIN outbox /\ OpenIds \subseteq DOMAIN outbox
      /\ push.due \subseteq DOMAIN outbox /\ \A k : Unstored(k) \subseteq Ids
      /\ DOMAIN outbox \subseteq Ids /\ Ids \subseteq Nat
  BY HandsIn
<1>4. S \subseteq Ids
  BY IdFacts
<1>5. ASSUME NEW e \in S, NEW f \in DOMAIN outbox, outbox[f].key = pending[e].key PROVE f < e
  <2>1. f \in Committed /\ KeyOf(f) = outbox[f].key
    BY PeacefulFacts
  <2>2. QED
    BY <1>5, <2>1 DEF RowInv, PendingNewer
<1>6. ASSUME NEW T, T \subseteq DOMAIN outbox, Down(T) PROVE Down(T)'
  <2>1. ASSUME NEW f \in T, NEW e \in DOMAIN outbox', outbox'[e].key = outbox'[f].key, e < f PROVE e \in T
    <3>1. CASE e \in DOMAIN outbox
      BY <1>1, <1>6, <2>1, <3>1 DEF Down
    <3>2. CASE e \in S
      <4>1. f < e
        BY <1>1, <1>5, <1>6, <2>1, <3>2
      <4>2. e \in Nat /\ f \in Nat
        BY <1>3, <1>4, <1>6, <3>2
      <4>3. QED
        BY <2>1, <4>1, <4>2
    <3>3. QED
      BY <1>1, <3>1, <3>2
  <2>2. QED
    BY <2>1 DEF Down
<1>7. Stored' = Stored /\ OpenIds' = OpenIds /\ Theirs' = Theirs /\ Keys' = Keys
  BY <1>2 DEF Stored, OpenIds, Theirs, Keys
<1>8. AllConfirming' /\ LogInOrder' /\ ReplayedInOrder' /\ Foreseen'
  BY <1>2, <1>7 DEF InLine, AllConfirming, LogInOrder, ReplayedInOrder, Foreseen
<1>9. SentInOrder'
  <2>1. PICK A, B, C : A = Stored /\ B = Stored \cup OpenIds /\ C = Stored \cup OpenIds \cup push.due
    OBVIOUS
  <2>2. Down(A) /\ Down(B) /\ Down(C)
    BY <2>1 DEF InLine, SentInOrder
  <2>3. A \subseteq DOMAIN outbox /\ B \subseteq DOMAIN outbox /\ C \subseteq DOMAIN outbox
    BY <1>3, <2>1
  <2>4. Down(A)' /\ Down(B)' /\ Down(C)'
    BY <1>6, <2>2, <2>3
  <2>5. A = Stored' /\ B = (Stored \cup OpenIds)' /\ C = (Stored \cup OpenIds \cup push.due)'
    BY <1>2, <1>7, <2>1
  <2>6. QED
    BY <2>4, <2>5 DEF SentInOrder, Down
<1>10. AllSent'
  <2>1. SUFFICES ASSUME ~config'.busy, Syncing' PROVE DOMAIN outbox' \subseteq Stored' \cup OpenIds' \cup push'.due
    BY DEF AllSent
  <2>2. ~config.busy /\ Syncing
    BY <1>2, <2>1 DEF Syncing
  <2>3. S = {}
    BY <2>2 DEF RowInv, Calm
  <2>4. QED
    BY <1>1, <1>2, <1>7, <2>2, <2>3 DEF InLine, AllSent
<1>11. ASSUME NEW k \in Keys PROVE RowShows(k)'
  <2>1. PICK mine, old : mine = OfRow(k, S) /\ old = Unstored(k)
    OBVIOUS
  <2>2. mine \subseteq S /\ \A e \in S : e \in mine <=> pending[e].key = k
    BY <2>1 DEF OfRow
  <2>3. Unstored(k)' = old \cup mine
    BY <1>1, <1>2, <2>1, <2>2 DEF Unstored
  <2>4. SeenOf(k)' = SeenOf(k)
    BY <1>2 DEF SeenOf
  <2>5. CASE mine = {}
    <3>1. rows'[k] = rows[k]
      BY <1>2, <2>1, <2>5, UnwrittenRow
    <3>2. Unstored(k)' = Unstored(k) /\ RowShows(k)
      BY <2>1, <2>3, <2>5 DEF InLine, RowsShow
    <3>3. \A e \in Unstored(k) : outbox'[e].type = outbox[e].type
      BY <1>1 DEF Unstored
    <3>4. \A e \in SeenOf(k) : log'[e] = log[e]
      BY <1>2
    <3>5. QED
      BY <1>3, <2>4, <3>1, <3>2, <3>3, <3>4, RowKept
  <2>6. CASE mine # {}
    <3>1. mine \subseteq Ids /\ old \subseteq Ids
      BY <1>3, <1>4, <2>1, <2>2
    <3>2. \A s \in old, t \in mine : s < t
      <4>1. \A s \in old : s \in DOMAIN outbox /\ outbox[s].key = k
        BY <2>1 DEF Unstored
      <4>2. QED
        BY <1>5, <2>2, <4>1
    <3>3. PICK x : x = Last(mine)
      OBVIOUS
    <3>4. x \in mine
      BY <2>6, <3>1, <3>3, LastIn
    <3>5. Last(old \cup mine) = x
      BY <2>6, <3>1, <3>2, <3>3, LastOfLater
    <3>6. rows'[k].val = x /\ rows'[k].live = (pending[x].type # "delete")
      <4>1. Fitting /\ NoOverlap
        BY DEF RowInv, Peaceful
      <4>2. Written(S)[k].val = x /\ Written(S)[k].live = (pending[x].type # "delete")
        BY <1>1, <2>1, <2>6, <3>3, <4>1, WrittenRow
      <4>3. QED
        BY <1>2, <4>2
    <3>7. outbox'[x].type = pending[x].type
      BY <1>1, <2>2, <3>4
    <3>8. Unstored(k)' # {} /\ Last(Unstored(k))' = x
      BY <2>3, <2>6, <3>5
    <3>9. QED
      BY <3>6, <3>7, <3>8 DEF RowShows, Shows
  <2>7. QED
    BY <2>5, <2>6
<1>12. QED
  BY <1>7, <1>8, <1>9, <1>10, <1>11 DEF InLine, RowsShow

(* The rows show the same, with the same log and the same events.          *)
LEMMA RowsKept ==
  ASSUME UNCHANGED <<config, rows, log, replayed>>, Noted, \A k : Unstored(k) \subseteq Ids, RowsShow
  PROVE  RowsShow' /\ Stored' = Stored /\ Theirs' = Theirs /\ Keys' = Keys
<1>1. Stored' = Stored /\ Theirs' = Theirs /\ Keys' = Keys
  BY DEF Stored, Theirs, Keys
<1>2. ASSUME NEW k \in Keys PROVE RowShows(k)'
  <2>1. Unstored(k)' = Unstored(k) /\ SeenOf(k)' = SeenOf(k)
    BY DEF Unstored, SeenOf, Noted
  <2>2. RowShows(k)
    BY DEF RowsShow
  <2>3. \A e \in Unstored(k) : outbox'[e].type = outbox[e].type
    BY DEF Unstored, Noted
  <2>4. \A e \in SeenOf(k) : log'[e] = log[e]
    OBVIOUS
  <2>5. QED
    BY <2>1, <2>2, <2>3, <2>4, RowKept
<1>3. QED
  BY <1>1, <1>2 DEF RowsShow

(* A batch goes off in the order of the edits.                             *)
LEMMA SendInLine ==
  ASSUME Inv, RowInv, RunInv, Peaceful, Truthful, InLine, StartPush \/ ContinuePush
  PROVE  InLine'
<1>1. UNCHANGED <<log, config, rows, replayed>>
  BY DEF StartPush, ContinuePush, Aside
<1>2. /\ Noted /\ Taken \subseteq DOMAIN outbox
      /\ push.open = {} /\ DOMAIN push'.answer = {}
      /\ OpenIds' \cup push'.due = Taken /\ Syncing'
      /\ \A f \in OpenIds', e \in Taken : e < f => e \in OpenIds'
  BY SendFacts
<1>3. /\ Stored \subseteq DOMAIN outbox /\ \A k : Unstored(k) \subseteq Ids
      /\ DOMAIN outbox \subseteq Ids /\ Ids \subseteq Nat
  BY HandsIn
<1>4. RowsShow' /\ Stored' = Stored /\ Theirs' = Theirs /\ Keys' = Keys
  BY <1>1, <1>2, <1>3, RowsKept DEF InLine
<1>5. AllConfirming' /\ LogInOrder' /\ ReplayedInOrder' /\ Foreseen'
  BY <1>1, <1>2, <1>4 DEF InLine, AllConfirming, LogInOrder, ReplayedInOrder, Foreseen
<1>6. push.phase = "idle" => Stored \cup Taken = DOMAIN outbox
  <2>1. ASSUME push.phase = "idle", NEW e \in DOMAIN outbox, e \notin Taken PROVE e \in Stored
    <3>1. outbox[e].wait = 0
      BY DEF Truthful, Unfaulted
    <3>2. outbox[e].synced
      BY <2>1, <3>1 DEF Taken, Due, Unsynced
    <3>3. QED
      BY <1>3, <3>2 DEF Truthful, LogTrue, Stored
  <2>2. QED
    BY <1>2, <1>3, <2>1
<1>7. push.phase # "idle" => Taken = push.due /\ OpenIds = {}
  BY <1>2 DEF Taken, OpenIds, Eids, Events
<1>8. Down(Stored) /\ Down(Stored \cup Taken)
  <2>1. CASE push.phase = "idle"
    <3>1. Down(DOMAIN outbox)
      BY DEF Down
    <3>2. QED
      BY <1>6, <2>1, <3>1 DEF InLine, SentInOrder
  <2>2. CASE push.phase # "idle"
    <3>1. Stored \cup OpenIds \cup push.due = Stored \cup Taken
      BY <1>7, <2>2
    <3>2. QED
      BY <3>1 DEF InLine, SentInOrder
  <2>3. QED
    BY <2>1, <2>2
<1>9. SentInOrder'
  <2>1. PICK A, B, C : A = Stored /\ B = OpenIds' /\ C = Stored \cup Taken
    OBVIOUS
  <2>2. Down(A) /\ Down(C) /\ B \subseteq C
    BY <1>2, <1>8, <2>1
  <2>3. ASSUME NEW f \in A \cup B, NEW e \in DOMAIN outbox, outbox[e].key = outbox[f].key, e < f
        PROVE  e \in A \cup B
    <3>1. CASE f \in A
      BY <2>2, <2>3, <3>1 DEF Down
    <3>2. CASE f \in B
      <4>1. e \in C
        BY <2>2, <2>3, <3>2 DEF Down
      <4>2. e \in A \/ e \in Taken
        BY <2>1, <4>1
      <4>3. QED
        BY <1>2, <2>1, <2>3, <3>2, <4>2
    <3>3. QED
      BY <2>3, <3>1, <3>2
  <2>4. Down(A \cup B)
    BY <2>3 DEF Down
  <2>5. ASSUME NEW T, T \subseteq DOMAIN outbox, Down(T) PROVE Down(T)'
    BY <1>2, <2>5 DEF Down, Noted
  <2>6. A \subseteq DOMAIN outbox /\ C \subseteq DOMAIN outbox /\ A \cup B \subseteq DOMAIN outbox
    BY <1>2, <1>3, <2>1
  <2>7. PICK D0 : D0 = A \cup B
    OBVIOUS
  <2>8. Down(A)' /\ Down(C)' /\ Down(D0)'
    BY <2>2, <2>4, <2>5, <2>6, <2>7
  <2>9. Stored' = A /\ (Stored \cup OpenIds)' = D0 /\ (Stored \cup OpenIds \cup push.due)' = C
    BY <1>2, <1>4, <2>1, <2>7
  <2>10. QED
    BY <2>8, <2>9 DEF SentInOrder, Down
<1>10. AllSent'
  <2>1. SUFFICES ASSUME ~config'.busy PROVE DOMAIN outbox' \subseteq Stored' \cup OpenIds' \cup push'.due
    BY DEF AllSent
  <2>2. DOMAIN outbox \subseteq Stored \cup Taken
    <3>1. CASE push.phase = "idle"
      BY <1>6, <3>1
    <3>2. CASE push.phase # "idle"
      BY <1>1, <1>7, <2>1, <3>2 DEF InLine, AllSent, Syncing
    <3>3. QED
      BY <3>1, <3>2
  <2>3. QED
    BY <1>2, <1>4, <2>2 DEF Noted
<1>11. QED
  BY <1>4, <1>5, <1>9, <1>10 DEF InLine

(* Answers are applied, or all that is in hand is dropped.                 *)
LEMMA HandsInLine ==
  ASSUME Inv, RowInv, Peaceful, InLine, Noted, HandsKept,
         UNCHANGED <<log, config, rows, replayed>>,
         Syncing' => Syncing /\ push'.open = push.open /\ push'.due = push.due
  PROVE  InLine'
<1>1. /\ Stored \subseteq DOMAIN outbox /\ OpenIds \subseteq DOMAIN outbox
      /\ push.due \subseteq DOMAIN outbox /\ \A k : Unstored(k) \subseteq Ids
  BY HandsIn
<1>2. RowsShow' /\ Stored' = Stored /\ Theirs' = Theirs /\ Keys' = Keys
  BY <1>1, RowsKept DEF InLine
<1>3. AllConfirming' /\ LogInOrder' /\ ReplayedInOrder' /\ Foreseen'
  BY <1>2 DEF InLine, AllConfirming, LogInOrder, ReplayedInOrder, Foreseen, HandsKept
<1>4. \/ OpenIds' = OpenIds /\ push'.due = push.due
      \/ OpenIds' = {} /\ push'.due = {}
  BY DEF HandsKept, OpenIds, Eids, Events
<1>5. SentInOrder'
  <2>1. ASSUME NEW T, T \subseteq DOMAIN outbox, Down(T) PROVE Down(T)'
    BY <2>1 DEF Down, Noted
  <2>2. PICK A, B, C : A = Stored' /\ B = (Stored \cup OpenIds)' /\ C = (Stored \cup OpenIds \cup push.due)'
    OBVIOUS
  <2>3. /\ Down(A) /\ Down(B) /\ Down(C) /\ A \subseteq DOMAIN outbox
        /\ B \subseteq DOMAIN outbox /\ C \subseteq DOMAIN outbox
    <3>1. CASE OpenIds' = OpenIds /\ push'.due = push.due
      <4>1. A = Stored /\ B = Stored \cup OpenIds /\ C = Stored \cup OpenIds \cup push.due
        BY <1>2, <2>2, <3>1
      <4>2. Down(A) /\ Down(B) /\ Down(C)
        BY <4>1 DEF InLine, SentInOrder
      <4>3. QED
        BY <1>1, <4>1, <4>2
    <3>2. CASE OpenIds' = {} /\ push'.due = {}
      <4>1. A = Stored /\ B = Stored /\ C = Stored
        BY <1>2, <2>2, <3>2
      <4>2. QED
        BY <1>1, <4>1 DEF InLine, SentInOrder
    <3>3. QED
      BY <1>4, <3>1, <3>2
  <2>4. Down(A)' /\ Down(B)' /\ Down(C)'
    BY <2>1, <2>3
  <2>5. QED
    BY <2>2, <2>4 DEF SentInOrder, Down
<1>6. AllSent'
  <2>1. SUFFICES ASSUME ~config'.busy, Syncing' PROVE DOMAIN outbox' \subseteq Stored' \cup OpenIds' \cup push'.due
    BY DEF AllSent
  <2>2. OpenIds' = OpenIds /\ push'.due = push.due /\ Syncing /\ DOMAIN outbox' = DOMAIN outbox
    BY <2>1 DEF OpenIds, Noted
  <2>3. QED
    BY <1>2, <2>1, <2>2 DEF InLine, AllSent
<1>7. QED
  BY <1>2, <1>3, <1>5, <1>6 DEF InLine

(* Answers and crashes keep the order.                                     *)
LEMMA AnswerInLine ==
  ASSUME Inv, RowInv, Peaceful, InLine, NEW e,
         ReceiveReply \/ EndSync \/ Confirm(e) \/ Crash \/ CrashInMark
  PROVE  InLine'
<1>1. CASE ReceiveReply \/ EndSync \/ Confirm(e)
  <2>1. Noted /\ HandsKept /\ UNCHANGED <<log, config, rows, replayed>>
    BY <1>1, AnswerFacts
  <2>2. Syncing' => Syncing /\ push'.open = push.open /\ push'.due = push.due
    <3>1. CASE EndSync
      BY <3>1 DEF EndSync, Resting, PushIn, Syncing
    <3>2. CASE ReceiveReply \/ Confirm(e)
      BY <3>2 DEF ReceiveReply, Confirm, Applying, Applied, Syncing, Inv, Sending
    <3>3. QED
      BY <1>1, <3>1, <3>2
  <2>3. QED
    BY <2>1, <2>2, HandsInLine
<1>2. CASE Crash \/ CrashInMark
  <2>1. Noted /\ HandsKept /\ UNCHANGED <<log, config, rows, replayed>> /\ push' = Resting
    BY <1>2, CrashFacts
  <2>2. ~Syncing'
    BY <2>1 DEF Resting, PushIn, Syncing
  <2>3. QED
    BY <2>1, <2>2, HandsInLine
<1>3. QED
  BY <1>1, <1>2

-----------------------------------------------------------------------------
(* The server keeps the order.                                             *)

(* What is older than an event of the first group, on its row and not yet  *)
(* stored, is in the group.                                                *)
LEMMA InHandWithIt ==
  ASSUME Inv, RowInv, RunInv, Peaceful, Truthful, InLine, NEW g, g = Head1(push.open),
         g \in push.open, NEW x \in Eids(g), NEW y \in DOMAIN outbox, y \notin DOMAIN log,
         outbox[y].key = outbox[x].key, y < x
  PROVE  y \in Eids(g)
<1>1. /\ OpenIds \subseteq DOMAIN outbox /\ DOMAIN outbox \subseteq Ids /\ Ids \subseteq Nat
      /\ GroupsInOrder(push.open)
  BY HandsIn DEF Truthful
<1>2. x \in OpenIds
  BY DEF OpenIds, Eids, Events
<1>3. y \in Stored \cup OpenIds
  BY <1>1, <1>2 DEF InLine, SentInOrder, Down
<1>4. PICK h \in push.open : y \in Eids(h)
  BY <1>3 DEF Stored, OpenIds, Eids, Events
<1>5. ASSUME h # g PROVE FALSE
  <2>1. x < y
    BY <1>1, <1>4, <1>5, HeadIsFirst DEF Below
  <2>2. x \in Nat /\ y \in Nat
    BY <1>1, <1>2
  <2>3. QED
    BY <2>1, <2>2
<1>6. QED
  BY <1>4, <1>5

(* An event's base is in the outbox when the device drew it and its call   *)
(* did not fail.                                                           *)
LEMMA BaseIsOlder ==
  ASSUME Inv, RowInv, Peaceful, Truthful, NEW x \in DOMAIN outbox, NEW y, y = outbox[x].base,
         y \in Ours
  PROVE  y \in DOMAIN outbox /\ outbox[y].key = outbox[x].key /\ y < x
<1>1. x \in Ours /\ EntryOf(x) = outbox[x] /\ Ours \subseteq Ids /\ Ids \subseteq Nat
  BY PeacefulFacts DEF Ours
<1>2. BaseKnown(y, outbox[x].key) /\ (y \in Ids => y < x)
  BY <1>1 DEF Truthful, BasesKnown
<1>3. y < x /\ EntryOf(y).key = outbox[x].key
  BY <1>1, <1>2 DEF BaseKnown
<1>4. ASSUME y \in DOMAIN pending PROVE FALSE
  <2>1. x \in Committed /\ KeyOf(x) = outbox[x].key /\ EntryOf(y) = pending[y]
    BY <1>4, PeacefulFacts
  <2>2. x < y
    BY <1>3, <1>4, <2>1 DEF RowInv, PendingNewer
  <2>3. x \in Nat /\ y \in Nat
    BY <1>1
  <2>4. QED
    BY <1>3, <2>2, <2>3
<1>5. y \in DOMAIN outbox
  BY <1>4 DEF Ours
<1>6. QED
  BY <1>3, <1>5, PeacefulFacts

(* As long as nothing is hopeless, nothing is in conflict.                 *)
LEMMA NothingConflicts ==
  ASSUME Inv, RowInv, RunInv, Truthful, Hopeful, InLine, NoBases, NEW g, g = Head1(push.open),
         g \in push.open
  PROVE  Conflicting(g) = {}
<1>1. /\ OpenIds \subseteq DOMAIN outbox /\ DOMAIN outbox \subseteq Ids /\ Ids \subseteq Nat
      /\ Peaceful /\ DOMAIN pending \cap DOMAIN outbox = {}
  BY HandsIn, PeacefulFacts DEF Hopeful
<1>2. \A b \in g : /\ b.eid \in DOMAIN outbox /\ b = Body(b.eid) /\ b.seq = b.eid
                   /\ b.key = outbox[b.eid].key /\ b.base = outbox[b.eid].base
                   /\ b.tx = outbox[b.eid].tx
  <2>1. \A b \in g : b.eid \in DOMAIN outbox /\ b = Body(b.eid)
    BY DEF Truthful, BodiesWhole
  <2>2. QED
    BY <2>1 DEF Body
<1>3. SUFFICES ASSUME NEW c \in Fresh(g), InConflict(g, c) PROVE FALSE
  <2>1. ASSUME NEW b \in Fresh(g), NEW c \in Earlier(g, b) \cup {b} PROVE c \in Fresh(g)
    BY DEF Earlier
  <2>2. QED
    BY <1>3, <2>1 DEF Conflicting
<1>4. PICK x, k, base : x = c.eid /\ k = c.key /\ base = c.base
  OBVIOUS
<1>5. /\ c \in g /\ x \in DOMAIN outbox /\ x \notin DOMAIN log /\ x \in Eids(g)
      /\ k = outbox[x].key /\ base = outbox[x].base /\ c.seq = x
      /\ base # NoEvent /\ HeadSeen(g, c) # {} /\ base \notin HeadSeen(g, c)
  BY <1>2, <1>3, <1>4 DEF Fresh, Eids, InConflict
<1>6. ASSUME NEW y \in DOMAIN outbox, y \notin DOMAIN log, outbox[y].key = k, y < x
      PROVE  \E d \in Earlier(g, c) : d.eid = y /\ d.seq = y
  <2>1. y \in Eids(g)
    BY <1>1, <1>5, <1>6, InHandWithIt
  <2>2. PICK d \in g : d.eid = y
    BY <2>1 DEF Eids
  <2>3. d \in Fresh(g) /\ d.key = c.key /\ d.seq < c.seq
    BY <1>2, <1>4, <1>5, <1>6, <2>2 DEF Fresh
  <2>4. QED
    BY <1>2, <2>2, <2>3 DEF Earlier
<1>7. x \in Ours /\ EntryOf(x) = outbox[x] /\ BaseKnown(base, k) /\ (base \in Ids => base < x)
  <2>1. x \in Ours /\ EntryOf(x) = outbox[x]
    BY <1>1, <1>5, PeacefulFacts DEF Ours
  <2>2. QED
    BY <1>5, <2>1 DEF Truthful, BasesKnown
<1>8. base \in Ours => base \in DOMAIN outbox /\ outbox[base].key = k /\ base < x
  BY <1>1, <1>5, BaseIsOlder
<1>9. CASE Earlier(g, c) = {}
  <2>1. HeadOf(k) # {} /\ base \notin HeadOf(k)
    BY <1>4, <1>5, <1>9 DEF HeadSeen
  <2>2. base \notin DOMAIN log /\ (base \in Ours \/ ~(base < nextId))
    <3>1. \E f \in DOMAIN log : log[f].key = k
      BY <2>1 DEF HeadOf
    <3>2. QED
      BY <1>5, <2>1, <3>1 DEF Hopeful, Hopeless, Refusable
  <2>3. base \in Ids /\ base < nextId
    BY <1>5, <1>7, <2>2 DEF BaseKnown
  <2>4. base \in DOMAIN outbox /\ outbox[base].key = k /\ base < x
    BY <1>8, <2>2, <2>3
  <2>5. QED
    BY <1>6, <1>9, <2>2, <2>4
<1>10. CASE Earlier(g, c) # {}
  <2>1. PICK E : E = Earlier(g, c)
    OBVIOUS
  <2>2. \A d \in E : /\ d \in g /\ d.eid \in DOMAIN outbox /\ d.eid \notin DOMAIN log /\ d.key = k
                     /\ d.seq = d.eid /\ d.eid < x /\ d.eid \in Ids
                     /\ outbox[d.eid].key = k /\ outbox[d.eid].tx = outbox[x].tx
    <3>1. \A d \in E : d \in g /\ d.eid \notin DOMAIN log /\ d.key = k /\ d.seq < c.seq
      BY <1>4, <2>1 DEF Earlier, Fresh
    <3>2. \A d \in g : d.tx = c.tx
      BY <1>5 DEF Truthful, BodiesWhole, OneRun
    <3>3. QED
      BY <1>1, <1>2, <1>4, <1>5, <3>1, <3>2
  <2>3. PICK T : T = {d.eid : d \in E}
    OBVIOUS
  <2>4. T \subseteq Ids /\ T # {}
    BY <1>10, <2>1, <2>2, <2>3
  <2>5. PICK y : y = Last(T) /\ y \in T /\ \A t \in T : t <= y
    BY <2>4, LastIn
  <2>6. PICK d \in E : d.eid = y
    BY <2>3, <2>5
  <2>7. y \in HeadSeen(g, c)
    <3>1. \A f \in E : f.seq <= d.seq
      BY <2>2, <2>3, <2>5, <2>6
    <3>2. HeadSeen(g, c) = {z.eid : z \in {w \in E : \A f \in E : f.seq <= w.seq}}
      BY <1>10, <2>1 DEF HeadSeen
    <3>3. QED
      BY <2>6, <3>1, <3>2
  <2>8. base # y
    BY <1>5, <2>7
  <2>9. y \in Ours /\ EntryOf(y) = outbox[y] /\ InRun(y, x) /\ y < x
    <3>1. y \in Ours /\ EntryOf(y) = outbox[y]
      BY <1>1, <2>2, <2>6, PeacefulFacts DEF Ours
    <3>2. QED
      BY <1>5, <1>7, <2>2, <2>6, <3>1 DEF InRun
  <2>10. config.versions
    BY <1>5 DEF NoBases
  <2>11. Lives(x)
    BY <1>1, <1>5 DEF Lives
  <2>12. base \in Ours /\ y < base
    BY <1>7, <1>5, <2>8, <2>9, <2>10, <2>11 DEF Truthful, RunChain
  <2>13. base \in DOMAIN outbox /\ outbox[base].key = k /\ base < x
    BY <1>8, <2>12
  <2>14. base \notin DOMAIN log
    <3>1. SUFFICES ASSUME base \in DOMAIN log PROVE FALSE
      OBVIOUS
    <3>2. base \in Stored
      BY <1>1, <2>13, <3>1 DEF Stored
    <3>3. y \in Stored
      <4>1. y \in DOMAIN outbox /\ outbox[y].key = outbox[base].key
        BY <2>2, <2>6, <2>13
      <4>2. QED
        BY <2>12, <3>2, <4>1 DEF InLine, SentInOrder, Down
    <3>4. QED
      BY <2>2, <2>6, <3>3 DEF Stored
  <2>15. \E z \in E : z.eid = base
    BY <1>6, <2>1, <2>13, <2>14
  <2>16. base <= y
    BY <2>3, <2>5, <2>15
  <2>17. base \in Nat /\ y \in Nat
    BY <1>1, <2>2, <2>6, <2>13
  <2>18. QED
    BY <2>12, <2>16, <2>17
<1>11. QED
  BY <1>9, <1>10

(* What the server appends, on a row that others wrote before, had seen    *)
(* what they wrote.                                                        *)
LEMMA AppendedForeseen ==
  ASSUME Inv, RowInv, RunInv, Peaceful, Truthful, InLine, NEW g, Served(g), LogGrows,
         Conflicting(g) = {}, ~Blind'
  PROVE  Foreseen'
<1>1. /\ Theirs' = Theirs /\ Stored' = Stored \cup Eids(g)
      /\ \A e \in DOMAIN log, f \in DOMAIN log' \ DOMAIN log : log'[e].pos < log'[f].pos
      /\ LogTrue' /\ LogTrue
  BY AppendedTruth DEF Truthful
<1>2. /\ g \in push.open /\ g = Head1(push.open) /\ UNCHANGED <<config, outbox, replayed>>
      /\ Eids(g) \subseteq DOMAIN outbox
      /\ \A b \in g : b.eid \in DOMAIN outbox /\ b = Body(b.eid)
  BY DEF Served
<1>3. \A e \in DOMAIN log : e \in DOMAIN log' /\ log'[e] = log[e]
  BY DEF LogGrows
<1>4. /\ DOMAIN outbox \subseteq Ids /\ Ids \subseteq Nat /\ Stored \subseteq DOMAIN outbox
  BY HandsIn
<1>5. SUFFICES ASSUME NEW e \in Stored', NEW f \in Theirs,
                      log'[f].key = log'[e].key, log'[f].pos < log'[e].pos
               PROVE  f \in replayed
  BY <1>1, <1>2 DEF Foreseen
<1>6. f \in DOMAIN log /\ f \notin Ids
  BY DEF Theirs
<1>7. CASE e \in DOMAIN log
  BY <1>3, <1>5, <1>6, <1>7 DEF InLine, Foreseen, Stored
<1>8. CASE e \notin DOMAIN log
  <2>1. PICK k : k = outbox[e].key
    OBVIOUS
  <2>2. e \in Eids(g) /\ e \in DOMAIN outbox /\ log'[e].key = k
    BY <1>1, <1>2, <1>5, <1>8, <2>1 DEF Stored, LogTrue
  <2>3. PICK F : F = {x \in Eids(g) \ DOMAIN log : outbox[x].key = k}
    OBVIOUS
  <2>4. F \subseteq Nat /\ e \in F
    BY <1>2, <1>4, <1>8, <2>1, <2>2, <2>3
  <2>5. PICK x \in F : \A y \in F : x <= y
    BY <2>4, MinExists
  <2>6. x \in Eids(g) /\ x \notin DOMAIN log /\ x \in DOMAIN outbox /\ outbox[x].key = k
    BY <1>2, <2>3, <2>5
  <2>7. PICK c \in g : c.eid = x
    BY <2>6 DEF Eids
  <2>8. c.key = k /\ c.seq = x /\ c.base = outbox[x].base /\ c \in Fresh(g)
    <3>1. c = Body(x)
      BY <1>2, <2>7
    <3>2. QED
      BY <2>6, <2>7, <3>1 DEF Body, Fresh
  <2>9. Earlier(g, c) = {}
    <3>1. SUFFICES ASSUME NEW d \in Earlier(g, c) PROVE FALSE
      OBVIOUS
    <3>2. d \in g /\ d.eid \notin DOMAIN log /\ d.key = k /\ d.seq < x
      BY <2>8 DEF Earlier, Fresh
    <3>3. d.eid \in DOMAIN outbox /\ d.seq = d.eid /\ outbox[d.eid].key = k
      <4>1. d = Body(d.eid) /\ d.eid \in DOMAIN outbox
        BY <1>2, <3>2
      <4>2. QED
        BY <3>2, <4>1 DEF Body
    <3>4. d.eid \in F
      BY <2>3, <3>2, <3>3 DEF Eids
    <3>5. x <= d.eid /\ d.eid < x /\ x \in Nat /\ d.eid \in Nat
      BY <2>4, <2>5, <3>2, <3>3, <3>4
    <3>6. QED
      BY <3>5
  <2>10. PICK base : base = outbox[x].base
    OBVIOUS
  <2>11. base # NoEvent
    <3>1. SUFFICES ASSUME base = NoEvent PROVE FALSE
      OBVIOUS
    <3>2. x \in Stored' /\ x \in DOMAIN outbox' /\ outbox'[x].base = NoEvent
      BY <1>1, <1>2, <2>6, <2>10, <3>1
    <3>3. log'[x].key = k /\ log'[f].pos < log'[x].pos /\ log'[f].key = k
      <4>1. x \in DOMAIN log' /\ x \notin DOMAIN log
        BY <2>6, <3>2 DEF Stored
      <4>2. log'[x].key = outbox'[x].key
        BY <1>1, <3>2 DEF LogTrue
      <4>3. QED
        BY <1>1, <1>2, <1>5, <1>6, <2>2, <2>6, <4>1, <4>2
    <3>4. f \in DOMAIN log' \ Ids'
      BY <1>3, <1>6 DEF Ids
    <3>5. x \in Unversioned'
      BY <3>2 DEF Unversioned
    <3>6. Blind'
      BY <3>3, <3>4, <3>5 DEF Blind
    <3>7. QED
      BY <3>6
  <2>12. RowLog(k) # {} /\ f \in RowLog(k)
    BY <1>3, <1>5, <1>6, <2>2 DEF RowLog
  <2>13. PICK h \in RowLog(k) : HeadOf(k) = {h} /\ \A z \in RowLog(k) : z # h => log[z].pos < log[h].pos
    BY <1>1, <2>12, HeadExists
  <2>14. base = h
    <3>1. ~InConflict(g, c)
      BY <2>8 DEF Conflicting, InConflict
    <3>2. HeadSeen(g, c) = HeadOf(k)
      BY <2>8, <2>9 DEF HeadSeen
    <3>3. base \in HeadOf(k)
      BY <2>8, <2>10, <2>11, <2>13, <3>1, <3>2 DEF InConflict
    <3>4. QED
      BY <2>13, <3>3
  <2>15. base \in DOMAIN log /\ log[base].key = k /\ log[f].key = k /\ (f = base \/ log[f].pos < log[base].pos)
    BY <2>12, <2>13, <2>14 DEF RowLog
  <2>16. CASE base \in Ids
    <3>1. base \in Stored /\ f # base
      BY <1>6, <2>15, <2>16 DEF Stored
    <3>2. QED
      BY <2>15, <3>1 DEF InLine, Foreseen
  <2>17. CASE base \notin Ids
    <3>1. x \in Ours /\ EntryOf(x) = outbox[x]
      BY <2>6, PeacefulFacts DEF Ours
    <3>2. base \in replayed
      BY <2>10, <2>11, <2>17, <3>1 DEF Truthful, BasesKnown, BaseKnown
    <3>3. QED
      BY <2>15, <3>2 DEF InLine, ReplayedInOrder
  <2>18. QED
    BY <2>16, <2>17
<1>9. QED
  BY <1>7, <1>8

(* What the rows show when the server has appended a group.                *)
LEMMA AppendedShown ==
  ASSUME Inv, RowInv, RunInv, Peaceful, Truthful, InLine, NEW g, Served(g), LogGrows,
         Conflicting(g) = {}, LogInOrder', Down(Stored)', NEW k \in Keys
  PROVE  RowShows(k)'
<1>1. /\ Stored' = Stored \cup Eids(g)
      /\ \A e \in DOMAIN log, f \in DOMAIN log' \ DOMAIN log : log'[e].pos < log'[f].pos
      /\ LogTrue' /\ LogTrue
  BY AppendedTruth DEF Truthful
<1>2. UNCHANGED <<config, rows, outbox, replayed>> /\ Eids(g) \subseteq DOMAIN outbox
      /\ DOMAIN log' = DOMAIN log \cup Eids(g)
  BY DEF Served, AppendsInOrder
<1>3. \A e \in DOMAIN log : e \in DOMAIN log' /\ log'[e] = log[e]
  BY DEF LogGrows
<1>4. /\ DOMAIN outbox \subseteq Ids /\ Ids \subseteq Nat /\ Stored \subseteq DOMAIN outbox
      /\ Unstored(k) \subseteq Ids
  BY HandsIn
<1>5. PICK U, V : U = Unstored(k) /\ V = Unstored(k)'
  OBVIOUS
<1>6. V = U \ Eids(g) /\ \A e \in U : e \in DOMAIN outbox /\ outbox[e].key = k /\ e \notin DOMAIN log
  BY <1>2, <1>5 DEF Unstored
<1>7. RowShows(k)
  BY DEF InLine, RowsShow
<1>8. \A e \in U \ V : e \in DOMAIN log' /\ e \in Stored' /\ log'[e].key = k /\ log'[e].type = outbox[e].type
  <2>1. \A e \in U \ V : e \in Stored'
    BY <1>1, <1>6
  <2>2. QED
    BY <1>1, <1>2, <1>6, <2>1 DEF LogTrue, Stored
<1>9. CASE U = {}
  <2>1. V = U
    BY <1>6, <1>9
  <2>2. SeenOf(k)' = SeenOf(k)
    <3>1. ASSUME NEW e \in Eids(g), e \notin DOMAIN log PROVE log'[e].key # k
      <4>1. outbox[e].key # k
        BY <1>2, <1>5, <1>9, <3>1 DEF Unstored
      <4>2. e \in Stored'
        BY <1>1, <3>1
      <4>3. QED
        BY <1>1, <1>2, <4>1, <4>2 DEF LogTrue
    <3>2. QED
      BY <1>2, <1>3, <3>1 DEF SeenOf
  <2>3. \A e \in SeenOf(k) : log'[e] = log[e]
    BY <1>3 DEF SeenOf
  <2>4. QED
    BY <1>2, <1>4, <1>5, <1>7, <2>1, <2>2, <2>3, RowKept
<1>10. CASE U # {}
  <2>1. PICK x : x = Last(U)
    OBVIOUS
  <2>2. U \subseteq Ids /\ x \in U /\ \A e \in U : e <= x
    BY <1>4, <1>5, <1>10, <2>1, LastIn
  <2>3. Shows(k, x, outbox[x].type)
    BY <1>5, <1>7, <1>10, <2>1 DEF RowShows
  <2>4. \A e \in U : e \in Nat /\ (e # x => e < x)
    <3>1. \A e \in U : e \in Nat /\ e <= x
      BY <1>4, <2>2
    <3>2. x \in Nat
      BY <2>2, <3>1
    <3>3. QED
      BY <3>1, <3>2
  <2>5. CASE V # {}
    <3>1. x \in V
      <4>1. SUFFICES ASSUME x \notin V PROVE FALSE
        OBVIOUS
      <4>2. PICK y \in V : TRUE
        BY <2>5
      <4>3. y \in U /\ y # x /\ y < x
        BY <1>6, <2>4, <4>1, <4>2
      <4>4. x \in Stored' /\ y \in DOMAIN outbox /\ outbox[y].key = outbox[x].key
        BY <1>6, <1>8, <2>2, <4>1, <4>3
      <4>5. \A f \in Stored', e \in DOMAIN outbox' :
              outbox'[e].key = outbox'[f].key /\ e < f => e \in Stored'
        BY DEF Down
      <4>6. y \in Stored'
        BY <1>2, <4>3, <4>4, <4>5
      <4>7. QED
        BY <1>5, <4>6 DEF Unstored, Stored
    <3>2. V \subseteq Ids /\ \A e \in V : e <= x
      BY <1>6, <2>2
    <3>3. Last(V) = x
      BY <3>1, <3>2, LastIs
    <3>4. Unstored(k)' # {} /\ Last(Unstored(k))' = x
      BY <1>5, <2>5, <3>3
    <3>5. QED
      BY <1>2, <2>3, <3>4 DEF RowShows, Shows
  <2>6. CASE V = {}
    <3>1. x \in DOMAIN log' /\ x \notin DOMAIN log /\ log'[x].key = k /\ log'[x].type = outbox[x].type
      BY <1>6, <1>8, <2>2, <2>6
    <3>2. x \in SeenOf(k)'
      BY <2>2, <3>1 DEF SeenOf, Ids
    <3>3. ASSUME NEW e \in Tops(SeenOf(k))' PROVE e = x
      <4>1. SUFFICES ASSUME e # x PROVE FALSE
        OBVIOUS
      <4>2. e \in SeenOf(k)' /\ log'[x].pos <= log'[e].pos
        BY <3>2 DEF Tops
      <4>3. e \in DOMAIN log' /\ log'[e].key = k
        BY <4>2 DEF SeenOf
      <4>4. log'[e].pos < log'[x].pos
        <5>1. CASE e \in DOMAIN log
          BY <1>1, <3>1, <5>1
        <5>2. CASE e \notin DOMAIN log
          <6>1. e \in Stored' /\ e \in DOMAIN outbox /\ outbox[e].key = k
            <7>1. e \in Eids(g)
              BY <1>2, <4>3, <5>2
            <7>2. e \in Stored'
              BY <1>1, <7>1
            <7>3. QED
              BY <1>1, <1>2, <4>3, <7>1, <7>2 DEF LogTrue
          <6>2. e \in U
            BY <1>5, <5>2, <6>1 DEF Unstored
          <6>3. e < x /\ x \in Stored'
            BY <1>8, <2>2, <2>4, <2>6, <4>1, <6>2
          <6>4. QED
            BY <3>1, <4>3, <6>1, <6>3 DEF LogInOrder
        <5>3. QED
          BY <5>1, <5>2
      <4>5. log'[e].pos \in Nat /\ log'[x].pos \in Nat
        <5>1. PICK n : n = Cardinality(DOMAIN log')
          OBVIOUS
        <5>2. n \in Nat
          BY <1>1, <5>1, FS_CardinalityType DEF LogTrue
        <5>3. log'[e].pos \in 1..n /\ log'[x].pos \in 1..n
          BY <1>1, <3>1, <4>3, <5>1 DEF LogTrue
        <5>4. QED
          BY <5>2, <5>3
      <4>6. QED
        BY <4>2, <4>4, <4>5
    <3>4. Shows(k, x, log[x].type)'
      BY <1>2, <2>3, <3>1 DEF Shows
    <3>5. \A e \in Tops(SeenOf(k))' : Shows(k, e, log[e].type)'
      <4>1. ASSUME NEW e \in Tops(SeenOf(k))' PROVE Shows(k, e, log[e].type)'
        <5>1. e = x
          BY <3>3
        <5>2. QED
          BY <3>4, <5>1 DEF Shows
      <4>2. QED
        BY <4>1
    <3>6. Unstored(k)' = {} /\ SeenOf(k)' # {}
      BY <1>5, <2>6, <3>2
    <3>7. QED
      BY <3>5, <3>6 DEF RowShows
  <2>7. QED
    BY <2>5, <2>6
<1>11. QED
  BY <1>9, <1>10

(* The server takes a group, and nothing is in conflict.                   *)
LEMMA ServeInLine ==
  ASSUME Inv, RowInv, RunInv, Truthful, Hopeful, InLine, NoBases, ServePush, ~Blind'
  PROVE  InLine'
<1>0. Peaceful
  BY DEF Hopeful
<1>1. PICK g : Served(g) /\ LogGrows
  BY <1>0, ServeFacts
<1>2. /\ g \in push.open /\ g = Head1(push.open) /\ push.open # {}
      /\ push'.open = push.open \ {g} /\ push'.due = push.due /\ push'.phase = push.phase
      /\ UNCHANGED <<config, rows, outbox, replayed>>
      /\ Eids(g) \subseteq DOMAIN outbox /\ Eids(g) \subseteq OpenIds
      /\ DOMAIN push'.answer = DOMAIN push.answer \cup Eids(g)
      /\ \A e \in DOMAIN push.answer \ Eids(g) : push'.answer[e] = push.answer[e]
  BY <1>1 DEF Served
<1>3. Conflicting(g) = {}
  BY <1>2, NothingConflicts
<1>4. /\ Theirs' = Theirs /\ Stored' = Stored \cup Eids(g)
      /\ \A e \in DOMAIN log, f \in DOMAIN log' \ DOMAIN log : log'[e].pos < log'[f].pos
      /\ \A e, f \in DOMAIN log' \ DOMAIN log : e < f => log'[e].pos < log'[f].pos
      /\ LogTrue' /\ LogTrue
  <2>1. LogTrue
    BY DEF Truthful
  <2>2. QED
    BY <1>0, <1>1, <1>3, <2>1, AppendedTruth
<1>5. \A e \in Eids(g) : push'.answer[e] = "confirmed"
  BY <1>1, <1>3 DEF Served
<1>6. \A e \in DOMAIN log : e \in DOMAIN log' /\ log'[e] = log[e]
  BY <1>1 DEF LogGrows
<1>7. /\ DOMAIN outbox \subseteq Ids /\ Ids \subseteq Nat /\ Stored \subseteq DOMAIN outbox
  BY <1>0, HandsIn
<1>8. AllConfirming'
  BY <1>2, <1>5 DEF InLine, AllConfirming
<1>9. LogInOrder'
  <2>1. ASSUME NEW e \in Stored', NEW f \in Stored', log'[e].key = log'[f].key, e < f
        PROVE  log'[e].pos < log'[f].pos
    <3>1. e \in DOMAIN log' /\ f \in DOMAIN log'
      BY <2>1 DEF Stored
    <3>2. CASE e \in DOMAIN log /\ f \in DOMAIN log
      BY <1>6, <2>1, <3>2 DEF InLine, LogInOrder, Stored
    <3>3. CASE e \notin DOMAIN log /\ f \in DOMAIN log
      <4>1. outbox[e].key = outbox[f].key /\ e \in DOMAIN outbox
        BY <1>2, <1>4, <2>1 DEF LogTrue
      <4>2. f \in Stored
        BY <2>1, <3>3 DEF Stored
      <4>3. e \in Stored
        BY <2>1, <4>1, <4>2 DEF InLine, SentInOrder, Down
      <4>4. QED
        BY <3>3, <4>3 DEF Stored
    <3>4. CASE e \in DOMAIN log /\ f \notin DOMAIN log
      BY <1>4, <3>1, <3>4
    <3>5. CASE e \notin DOMAIN log /\ f \notin DOMAIN log
      BY <1>4, <2>1, <3>1, <3>5
    <3>6. QED
      BY <3>2, <3>3, <3>4, <3>5
  <2>2. QED
    BY <2>1 DEF LogInOrder
<1>10. PICK A, B, C, T : /\ A = Stored /\ B = Stored \cup OpenIds
                         /\ C = Stored \cup OpenIds \cup push.due /\ T = Stored \cup Eids(g)
  OBVIOUS
<1>11. Down(A) /\ Down(B) /\ Down(C)
  BY <1>10 DEF InLine, SentInOrder
<1>12. Stored' = T /\ (Stored \cup OpenIds)' = B /\ (Stored \cup OpenIds \cup push.due)' = C
  <2>1. OpenIds' = Eids(Events(push.open \ {g}))
    BY <1>2 DEF OpenIds
  <2>2. OpenIds' \subseteq B /\ OpenIds \subseteq OpenIds' \cup Eids(g)
    BY <1>2, <1>10, <2>1 DEF OpenIds, Eids, Events
  <2>3. QED
    BY <1>2, <1>4, <1>10, <2>2
<1>13. Down(T)
  <2>1. ASSUME NEW f \in Eids(g), NEW e \in DOMAIN outbox, outbox[e].key = outbox[f].key, e < f
        PROVE  e \in T
    <3>1. CASE e \in DOMAIN log
      BY <1>7, <1>10, <3>1 DEF Stored
    <3>2. CASE e \notin DOMAIN log
      <4>1. e \in Eids(g)
        BY <1>0, <1>2, <2>1, <3>2, InHandWithIt
      <4>2. QED
        BY <1>10, <4>1
    <3>3. QED
      BY <3>1, <3>2
  <2>2. QED
    BY <1>10, <1>11, <2>1 DEF Down
<1>14. SentInOrder' /\ Down(Stored)'
  <2>1. Down(T)' /\ Down(B)' /\ Down(C)'
    BY <1>2, <1>11, <1>13 DEF Down
  <2>2. QED
    BY <1>12, <2>1 DEF SentInOrder, Down
<1>15. ReplayedInOrder'
  <2>1. \A f \in Theirs : log'[f] = log[f]
    BY <1>6 DEF Theirs
  <2>2. replayed \subseteq Theirs
    BY DEF Truthful
  <2>3. QED
    BY <1>2, <1>4, <2>1, <2>2 DEF InLine, ReplayedInOrder
<1>16. Foreseen'
  BY <1>0, <1>1, <1>3, AppendedForeseen
<1>17. AllSent'
  <2>1. SUFFICES ASSUME ~config'.busy, Syncing'
                 PROVE  DOMAIN outbox' \subseteq (Stored \cup OpenIds \cup push.due)'
    BY DEF AllSent
  <2>2. DOMAIN outbox \subseteq C
    BY <1>2, <1>10, <2>1 DEF InLine, AllSent, Syncing
  <2>3. QED
    BY <1>2, <1>12, <2>2
<1>18. RowsShow'
  <2>1. \A k \in Keys : RowShows(k)'
    BY <1>0, <1>1, <1>3, <1>9, <1>14, AppendedShown
  <2>2. Keys' = Keys
    BY <1>2 DEF Keys
  <2>3. QED
    BY <2>1, <2>2 DEF RowsShow
<1>19. QED
  BY <1>8, <1>9, <1>14, <1>15, <1>16, <1>17, <1>18 DEF InLine

(* Another device writes, after everything there is.                       *)
LEMMA ForeignInLine ==
  ASSUME Inv, RowInv, Peaceful, Truthful, InLine, NEW f \in ForeignIds, NEW j \in Keys, Foreign(f, j)
  PROVE  InLine'
<1>1. PICK n : n = Cardinality(DOMAIN log)
  OBVIOUS
<1>2. /\ UNCHANGED <<config, rows, outbox, push, replayed>>
      /\ LogGrows /\ DOMAIN log' = DOMAIN log \cup {f} /\ f \notin DOMAIN log /\ f \notin Ids
      /\ log'[f].pos = n + 1
      /\ Theirs' = Theirs \cup {f} /\ Stored' = Stored
  BY <1>1, ForeignFacts DEF Truthful
<1>3. n \in Nat /\ \A e \in DOMAIN log : log'[e] = log[e] /\ log[e].pos \in Nat /\ log[e].pos <= n
  BY <1>1, <1>2, PosIsNat DEF Truthful, LogGrows
<1>4. /\ DOMAIN outbox \subseteq Ids /\ \A k : Unstored(k) \subseteq Ids
  BY HandsIn
<1>5. replayed \subseteq Theirs /\ Theirs \subseteq DOMAIN log
  BY DEF Truthful, Theirs
<1>6. \A e \in DOMAIN log : ~(log'[f].pos < log'[e].pos)
  <2>1. \A e \in DOMAIN log : ~(n + 1 < log'[e].pos)
    BY <1>3
  <2>2. QED
    BY <1>2, <2>1
<1>7. OpenIds' = OpenIds /\ Keys' = Keys
  BY <1>2 DEF OpenIds, Keys
<1>8. AllConfirming' /\ LogInOrder' /\ AllSent'
  <2>1. \A e \in Stored : log'[e] = log[e]
    BY <1>3 DEF Stored
  <2>2. QED
    BY <1>2, <1>7, <2>1 DEF InLine, AllConfirming, LogInOrder, AllSent, Syncing
<1>9. SentInOrder'
  BY <1>2, <1>7 DEF InLine, SentInOrder, Down
<1>10. ReplayedInOrder'
  <2>1. ASSUME NEW r \in replayed, NEW x \in Theirs', log'[x].pos < log'[r].pos PROVE x \in replayed
    <3>1. x # f
      BY <1>5, <1>6, <2>1
    <3>2. x \in Theirs /\ log[x].pos < log[r].pos
      BY <1>2, <1>3, <1>5, <2>1, <3>1
    <3>3. QED
      BY <3>2 DEF InLine, ReplayedInOrder
  <2>2. QED
    BY <1>2, <2>1 DEF ReplayedInOrder
<1>11. Foreseen'
  <2>1. ASSUME NEW e \in Stored, NEW x \in Theirs', log'[x].key = log'[e].key, log'[x].pos < log'[e].pos
        PROVE  x \in replayed
    <3>1. e \in DOMAIN log
      BY DEF Stored
    <3>2. x # f
      BY <1>6, <2>1, <3>1
    <3>3. x \in Theirs /\ log[x].key = log[e].key /\ log[x].pos < log[e].pos
      BY <1>2, <1>3, <1>5, <2>1, <3>1, <3>2
    <3>4. QED
      BY <3>3 DEF InLine, Foreseen
  <2>2. QED
    BY <1>2, <2>1 DEF Foreseen
<1>12. ASSUME NEW k \in Keys PROVE RowShows(k)'
  <2>1. Unstored(k)' = Unstored(k)
    BY <1>2, <1>4 DEF Unstored
  <2>2. SeenOf(k)' = SeenOf(k)
    <3>1. f \notin replayed
      BY <1>2, <1>5
    <3>2. Ids' = Ids
      BY DEF Ids
    <3>3. QED
      BY <1>2, <1>3, <3>1, <3>2 DEF SeenOf
  <2>3. RowShows(k)
    BY DEF InLine, RowsShow
  <2>4. \A e \in SeenOf(k) : log'[e] = log[e]
    BY <1>3 DEF SeenOf
  <2>5. QED
    BY <1>2, <1>4, <2>1, <2>2, <2>3, <2>4, RowKept
<1>13. QED
  BY <1>7, <1>8, <1>9, <1>10, <1>11, <1>12 DEF InLine, RowsShow

(* The next event of another device is replayed, on the row as the server  *)
(* had it before.                                                          *)
LEMMA ReplayInLine ==
  ASSUME Inv, RowInv, RunInv, Peaceful, Truthful, InLine, NEW f \in ForeignIds, ReplayRow(f)
  PROVE  InLine'
<1>1. PICK k : k = log[f].key
  OBVIOUS
<1>2. /\ push.phase = "pull" /\ f \in NextForeign
      /\ rows' = IF (log[f].type = "insert") = rows[k].live THEN rows
                 ELSE [rows EXCEPT ![k] = [val |-> f, live |-> log[f].type # "delete"]]
      /\ replayed' = replayed \cup {f}
      /\ UNCHANGED <<log, config, outbox, push>>
  BY <1>1 DEF ReplayRow
<1>3. /\ f \in config.foreign /\ f \in DOMAIN log /\ f \notin replayed /\ f \notin Ids
      /\ \A g \in (config.foreign \cap DOMAIN log) \ replayed : log[f].pos <= log[g].pos
  BY <1>2, ForeignApart DEF NextForeign
<1>4. LogTrue /\ TypesFollow /\ replayed \subseteq Theirs /\ f \in Theirs /\ Theirs \subseteq config.foreign
      /\ k \in Keys /\ \A e \in DOMAIN log : log[e].pos \in Nat
  BY <1>1, <1>3, PosIsNat DEF Truthful, Theirs, LogTrue
<1>5. \A g \in Theirs : log[g].pos < log[f].pos => g \in replayed
  <2>1. ASSUME NEW g \in Theirs, g \notin replayed PROVE ~(log[g].pos < log[f].pos)
    <3>1. g \in DOMAIN log /\ log[f].pos <= log[g].pos
      BY <1>3, <1>4, <2>1 DEF Theirs
    <3>2. log[g].pos \in Nat /\ log[f].pos \in Nat
      BY <1>3, <1>4, <3>1
    <3>3. QED
      BY <3>1, <3>2
  <2>2. QED
    BY <2>1
<1>6. Stored' = Stored /\ OpenIds' = OpenIds /\ Theirs' = Theirs /\ Keys' = Keys
  BY <1>2 DEF Stored, OpenIds, Theirs, Keys
<1>7. AllConfirming' /\ LogInOrder' /\ AllSent' /\ SentInOrder'
  BY <1>2, <1>6 DEF InLine, AllConfirming, LogInOrder, AllSent, Syncing, SentInOrder, Down
<1>8. ReplayedInOrder' /\ Foreseen'
  BY <1>2, <1>5, <1>6 DEF InLine, ReplayedInOrder, Foreseen
<1>9. /\ DOMAIN outbox \subseteq Ids /\ \A j : Unstored(j) \subseteq Ids
  BY HandsIn
<1>10. \A j : Unstored(j)' = Unstored(j)
  BY <1>2 DEF Unstored
<1>11. rows \in [Keys -> [val : Versions, live : BOOLEAN]]
  BY DEF Inv, Tables
<1>12. ASSUME NEW j \in Keys, j # k PROVE RowShows(j)'
  <2>1. rows'[j] = rows[j]
    BY <1>2, <1>11, <1>12
  <2>2. SeenOf(j)' = SeenOf(j)
    BY <1>1, <1>2, <1>12 DEF SeenOf, Ids
  <2>3. RowShows(j)
    BY DEF InLine, RowsShow
  <2>4. QED
    BY <1>2, <1>9, <1>10, <2>1, <2>2, <2>3, RowKept
<1>13. Unstored(k) = {}
  <2>1. ~config.busy /\ Syncing
    BY <1>2, <1>3 DEF Peaceful, NoOverlap, Syncing
  <2>2. OpenIds = {} /\ push.due = {}
    BY <1>2 DEF RunInv, HandsEmpty, OpenIds, Eids, Events
  <2>3. DOMAIN outbox \subseteq Stored
    BY <2>1, <2>2 DEF InLine, AllSent
  <2>4. QED
    BY <2>3 DEF Unstored, Stored
<1>14. SeenOf(k) = Before(f)
  <2>1. ASSUME NEW e \in SeenOf(k) PROVE e \in Before(f)
    <3>1. e \in DOMAIN log /\ log[e].key = k /\ e # f /\ (e \in Stored \/ e \in replayed)
      BY <1>3 DEF SeenOf, Stored
    <3>2. ~(log[f].pos < log[e].pos)
      <4>1. CASE e \in Stored
        BY <1>1, <1>3, <1>4, <3>1, <4>1 DEF InLine, Foreseen
      <4>2. CASE e \in replayed
        BY <1>3, <1>4, <4>2 DEF InLine, ReplayedInOrder
      <4>3. QED
        BY <3>1, <4>1, <4>2
    <3>3. log[e].pos # log[f].pos
      BY <1>3, <1>4, <3>1 DEF LogTrue
    <3>4. log[e].pos \in Nat /\ log[f].pos \in Nat
      BY <1>3, <1>4, <3>1
    <3>5. log[e].pos < log[f].pos
      BY <3>2, <3>3, <3>4
    <3>6. QED
      BY <1>1, <3>1, <3>5 DEF Before
  <2>2. ASSUME NEW e \in Before(f) PROVE e \in SeenOf(k)
    <3>1. e \in DOMAIN log /\ log[e].key = k /\ log[e].pos < log[f].pos
      BY <1>1 DEF Before
    <3>2. e \in Ids \/ e \in Theirs
      BY <3>1 DEF Theirs
    <3>3. QED
      BY <1>5, <3>1, <3>2 DEF SeenOf
  <2>3. QED
    BY <2>1, <2>2
<1>15. log[f].type = "insert" <=> ~rows[k].live
  <2>1. log[f].type = "insert" <=> \A e \in Tops(SeenOf(k)) : log[e].type = "delete"
    BY <1>4, <1>14 DEF TypesFollow
  <2>2. /\ SeenOf(k) = {} => ~rows[k].live
        /\ \A e \in Tops(SeenOf(k)) : Shows(k, e, log[e].type)
    BY <1>4, <1>13 DEF InLine, RowsShow, RowShows
  <2>3. CASE SeenOf(k) = {}
    BY <2>1, <2>2, <2>3 DEF Tops
  <2>4. CASE SeenOf(k) # {}
    <3>1. PICK S : S = SeenOf(k)
      OBVIOUS
    <3>2. S \subseteq DOMAIN log /\ S # {}
      BY <2>4, <3>1 DEF SeenOf
    <3>3. PICK e \in S : Tops(S) = {e}
      BY <1>4, <3>2, TopExists
    <3>4. Tops(SeenOf(k)) = {e}
      BY <3>1, <3>3
    <3>5. rows[k].live = (log[e].type # "delete")
      BY <2>2, <3>4 DEF Shows
    <3>6. QED
      BY <2>1, <3>4, <3>5
  <2>5. QED
    BY <2>3, <2>4
<1>16. rows'[k].val = f /\ rows'[k].live = (log[f].type # "delete")
  <2>1. (log[f].type = "insert") # rows[k].live
    <3>1. rows[k].live \in BOOLEAN
      BY <1>4, <1>11
    <3>2. QED
      BY <1>15, <3>1
  <2>2. rows' = [rows EXCEPT ![k] = [val |-> f, live |-> log[f].type # "delete"]]
    BY <1>2, <2>1
  <2>3. QED
    BY <1>4, <1>11, <2>2
<1>17. RowShows(k)'
  <2>1. SeenOf(k)' = SeenOf(k) \cup {f}
    BY <1>1, <1>2, <1>3 DEF SeenOf, Ids
  <2>2. \A e \in SeenOf(k) : e \in DOMAIN log /\ log[e].pos < log[f].pos
    BY <1>14 DEF Before
  <2>3. ASSUME NEW e \in Tops(SeenOf(k))' PROVE e = f
    <3>1. SUFFICES ASSUME e # f PROVE FALSE
      OBVIOUS
    <3>2. e \in SeenOf(k) /\ log[f].pos <= log[e].pos
      BY <1>2, <2>1, <3>1 DEF Tops
    <3>3. log[e].pos < log[f].pos /\ log[e].pos \in Nat /\ log[f].pos \in Nat
      BY <1>3, <1>4, <2>2, <3>2
    <3>4. QED
      BY <3>2, <3>3
  <2>4. ASSUME NEW e \in Tops(SeenOf(k))' PROVE Shows(k, e, log[e].type)'
    <3>1. e = f
      BY <2>3
    <3>2. QED
      BY <1>2, <1>16, <3>1 DEF Shows
  <2>5. Unstored(k)' = {} /\ SeenOf(k)' # {}
    BY <1>10, <1>13, <2>1
  <2>6. QED
    BY <2>4, <2>5 DEF RowShows
<1>18. RowsShow'
  <2>1. \A j \in Keys : RowShows(j)'
    BY <1>12, <1>17
  <2>2. QED
    BY <1>6, <2>1 DEF RowsShow
<1>19. QED
  BY <1>7, <1>8, <1>18 DEF InLine

-----------------------------------------------------------------------------
(* What every step does that parks nothing.                                *)
Onward ==
  /\ config' = config /\ dead' = dead /\ LogGrows
  /\ DOMAIN outbox \subseteq DOMAIN outbox'
  /\ \A e \in DOMAIN outbox : outbox'[e].key = outbox[e].key /\ outbox'[e].base = outbox[e].base
  /\ Ours' \subseteq Ours \cup {nextId} /\ nextId' \in {nextId, nextId + 1}

(* An event that the server will not take is never taken.                  *)
NeverTaken == \A c \in DOMAIN outbox : Hopeless(c) => c \notin DOMAIN log'

(* A step of peace.                                                        *)
Advances ==
  /\ Onward /\ NeverTaken /\ Truthful'
  /\ Hopeful /\ ~Blind' => InLine'
  /\ Smooth' /\ BaseChain => BaseChain'

(* What the server will not take stays so, whatever is written.            *)
LEMMA HopelessStays ==
  ASSUME Inv, RowInv, Peaceful, Truthful, Truthful', Onward,
         NEW c \in DOMAIN outbox, c \notin DOMAIN log', Hopeless(c)
  PROVE  Hopeless(c)'
<1>1. PICK b, k : b = outbox[c].base /\ k = outbox[c].key
  OBVIOUS
<1>2. c \in DOMAIN outbox' /\ outbox'[c].base = b /\ outbox'[c].key = k
  BY <1>1 DEF Onward
<1>3. /\ b # NoEvent /\ \E f \in DOMAIN log : log[f].key = k
      /\ b \notin HeadOf(k)
      /\ b \in DOMAIN log \/ (b \notin Ours /\ b < nextId)
  BY <1>1 DEF Hopeless, Refusable
<1>4. \A e \in DOMAIN log : e \in DOMAIN log' /\ log'[e] = log[e]
  BY DEF Onward, LogGrows
<1>5. CASE b \in DOMAIN log
  <2>1. ~(/\ b \in DOMAIN log' /\ log'[b].key = k
          /\ \A f \in DOMAIN log' : log'[f].key = k => log'[f].pos <= log'[b].pos)
    BY <1>3, <1>4, <1>5 DEF HeadOf
  <2>2. \E f \in DOMAIN log' : log'[f].key = k
    BY <1>3, <1>4
  <2>3. b \in DOMAIN log'
    BY <1>4, <1>5
  <2>4. QED
    BY <1>2, <1>3, <2>1, <2>2, <2>3 DEF Hopeless, Refusable, HeadOf
<1>6. CASE b \notin DOMAIN log
  <2>1. b \notin Ours /\ b < nextId /\ b \in Ids
    <3>1. c \in Ours /\ EntryOf(c) = outbox[c]
      BY PeacefulFacts DEF Ours
    <3>2. BaseKnown(b, k)
      BY <1>1, <3>1 DEF Truthful, BasesKnown
    <3>3. QED
      BY <1>3, <1>6, <3>2 DEF BaseKnown
  <2>2. b \in Nat /\ nextId \in Nat
    BY <2>1, IdFacts, PeacefulFacts
  <2>3. b \notin Ours' /\ b < nextId'
    BY <2>1, <2>2 DEF Onward
  <2>4. b \notin DOMAIN log'
    <3>1. b \notin DOMAIN outbox'
      BY <2>3 DEF Ours
    <3>2. b \notin Stored'
      BY <3>1 DEF Truthful, LogTrue
    <3>3. QED
      BY <2>1, <3>2 DEF Stored, Ids
  <2>5. \E f \in DOMAIN log' : log'[f].key = k
    BY <1>3, <1>4
  <2>6. QED
    BY <1>2, <1>3, <2>3, <2>4, <2>5 DEF Hopeless, Refusable, HeadOf
<1>7. QED
  BY <1>5, <1>6

(* Hope is never regained.                                                 *)
LEMMA HopefulBefore ==
  ASSUME Inv, RowInv, Peaceful, Truthful, Advances, Hopeful'
  PROVE  Hopeful
<1>1. Truthful' /\ Onward /\ NeverTaken
  BY DEF Advances
<1>2. \A c \in DOMAIN outbox : ~Hopeless(c)
  <2>1. ASSUME NEW c \in DOMAIN outbox, Hopeless(c) PROVE FALSE
    <3>1. c \notin DOMAIN log' /\ c \in DOMAIN outbox'
      BY <1>1, <2>1 DEF NeverTaken, Onward
    <3>2. Hopeless(c)'
      BY <1>1, <2>1, <3>1, HopelessStays
    <3>3. QED
      BY <3>1, <3>2 DEF Hopeful
  <2>2. QED
    BY <2>1
<1>3. ~Blind
  <2>1. SUFFICES ASSUME Blind PROVE FALSE
    OBVIOUS
  <2>2. PICK e \in Unversioned, f \in DOMAIN log \ Ids : log[f].key = log[e].key /\ log[f].pos < log[e].pos
    BY <2>1 DEF Blind
  <2>3. e \in Stored \cap DOMAIN outbox /\ outbox[e].base = NoEvent
    BY <2>2 DEF Unversioned
  <2>4. /\ e \in DOMAIN log /\ e \in DOMAIN log' /\ log'[e] = log[e]
        /\ f \in DOMAIN log' /\ log'[f] = log[f]
    BY <1>1, <2>2, <2>3 DEF Onward, LogGrows, Stored
  <2>5. e \in DOMAIN outbox' /\ outbox'[e].base = NoEvent
    BY <1>1, <2>3 DEF Onward
  <2>6. e \in Unversioned'
    BY <2>3, <2>4, <2>5 DEF Unversioned, Stored, Ids
  <2>7. Blind'
    BY <2>2, <2>4, <2>6 DEF Blind, Ids
  <2>8. QED
    BY <2>7 DEF Hopeful
<1>4. QED
  BY <1>2, <1>3 DEF Hopeful

(* What waits and what is in the outbox keeps its row and its base.        *)
LEMMA ChainStays ==
  ASSUME Ours' = Ours, BaseChain,
         \A e \in Ours : EntryOf(e)'.key = EntryOf(e).key /\ EntryOf(e)'.base = EntryOf(e).base
  PROVE  BaseChain'
<1>1. \A e \in Ours : Previous(e)' = Previous(e)
  BY DEF Previous
<1>2. \A S : Newest(S)' = Newest(S)
  BY DEF Newest
<1>3. ASSUME NEW e \in Ours PROVE EntryOf(e)'.base = Newest(Previous(e)')
  BY <1>1, <1>3 DEF BaseChain
<1>4. QED
  BY <1>3 DEF BaseChain

(* A step in the memory of the calls.                                      *)
LEMMA MemoryAdvances ==
  ASSUME Inv, RowInv, LineInv, Peaceful, Truthful',
         UNCHANGED <<config, rows, log, outbox, dead, push, replayed>>,
         Ours' \subseteq Ours \cup {nextId}, nextId' \in {nextId, nextId + 1},
         Smooth' /\ BaseChain => BaseChain'
  PROVE  Advances
<1>1. Onward /\ NeverTaken
  BY DEF Onward, NeverTaken, LogGrows, Hopeless, Refusable
<1>2. Hopeful => InLine'
  <2>1. \A k : Unstored(k) \subseteq Ids
    BY HandsIn
  <2>2. QED
    BY <2>1, QuietInLine DEF LineInv
<1>3. QED
  BY <1>1, <1>2 DEF Advances

(* Something that waits is dropped, or a run goes on.                      *)
LEMMA FewerAdvances ==
  ASSUME Inv, RowInv, LineInv, Peaceful, Truthful', Rest, UNCHANGED <<rows, outbox>>, Fewer,
         DOMAIN pending' = DOMAIN pending \/ lost' # {}
  PROVE  Advances
<1>1. UNCHANGED <<config, log, dead, nextId, push, replayed>>
  BY DEF Rest
<1>2. Ours' \subseteq Ours
  BY DEF Ours, Fewer
<1>3. ASSUME Smooth', BaseChain PROVE BaseChain'
  <2>1. DOMAIN pending' = DOMAIN pending
    BY <1>3 DEF Smooth
  <2>2. Ours' = Ours /\ \A e \in Ours : EntryOf(e)' = EntryOf(e)
    BY <2>1 DEF Ours, EntryOf, Fewer
  <2>3. QED
    BY <1>3, <2>2, ChainStays
<1>4. QED
  BY <1>1, <1>2, <1>3, MemoryAdvances

(* What fails is dropped.                                                  *)
LEMMA FailAdvances ==
  ASSUME Inv, RowInv, LineInv, Peaceful, Truthful', Rest, NEW S, FailAll(S), S \subseteq DOMAIN pending
  PROVE  Advances
<1>1. /\ rows' = rows /\ outbox' = outbox /\ pending' = Without(pending, S) /\ lost' = lost \cup S
  BY DEF FailAll
<1>2. Fewer
  BY <1>1 DEF Fewer, Without
<1>3. DOMAIN pending' = DOMAIN pending \/ lost' # {}
  BY <1>1 DEF Without
<1>4. QED
  BY <1>1, <1>2, <1>3, FewerAdvances

(* What commits comes after all that is committed of its row.              *)
LEMMA InsertAdvances ==
  ASSUME Inv, RowInv, RunInv, LineInv, Peaceful, NEW S, S \subseteq DOMAIN pending, InsertAll(S), Rest,
         heads' = heads, \A e \in S : Alive(e), Leaving(S), StillWaiting
  PROVE  Advances
<1>1. Truthful
  BY DEF LineInv
<1>2. UNCHANGED <<log, config, dead, nextId>>
  BY DEF Rest
<1>3. /\ DOMAIN outbox' = DOMAIN outbox \cup S
      /\ \A e \in DOMAIN outbox : outbox'[e] = outbox[e]
      /\ Ours' = Ours /\ \A e \in Ours : EntryOf(e)' = EntryOf(e)
  BY InsertedOutbox
<1>4. Onward /\ NeverTaken
  BY <1>2, <1>3 DEF Onward, NeverTaken, LogGrows, Hopeless, Refusable
<1>5. Truthful'
  BY <1>1, InsertedTruth
<1>6. Hopeful => InLine'
  BY InsertedInLine DEF LineInv
<1>7. BaseChain => BaseChain'
  BY <1>3, ChainStays
<1>8. QED
  BY <1>4, <1>5, <1>6, <1>7 DEF Advances

(* A call bases its event on the newest one of the row.                    *)
LEMMA CallBase ==
  ASSUME Inv, RowInv, Peaceful, Truthful, Smooth, NEW k \in Keys, ~InHand(k)
  PROVE  BaseVersion(k) = Newest({f \in Ours : EntryOf(f).key = k})
<1> DEFINE here == UNION {t.entries : t \in Ambient}
           mine == UNION {OfRow(k, t.entries) : t \in Ambient}
           prev == {f \in Ours : EntryOf(f).key = k}
<1>1. /\ DOMAIN pending \cap Committed = {} /\ DOMAIN pending \subseteq Ids /\ Committed \subseteq Ids
      /\ Ours = DOMAIN pending \cup Committed
  BY IdFacts, PeacefulFacts DEF Ours
<1>2. /\ \A e \in DOMAIN pending : EntryOf(e) = pending[e]
      /\ \A e \in Committed : EntryOf(e) = RowOf(e)
  BY PeacefulFacts
<1>3. OfRow(k, DOMAIN pending) = mine
  <2>1. mine = OfRow(k, here)
    BY DEF OfRow
  <2>2. OfRow(k, DOMAIN pending \ here) = {}
    BY DEF InHand
  <2>3. QED
    BY <2>1, <2>2 DEF OfRow
<1>4. prev = CommittedOf(k) \cup mine
  BY <1>1, <1>2, <1>3 DEF OfRow, CommittedOf, KeyOf
<1>5. BaseVersion(k) = IF mine # {} THEN Last(mine) ELSE heads[k]
  BY DEF BaseVersion, Smooth
<1>6. CASE mine # {}
  <2>1. \A s \in CommittedOf(k), t \in mine : s < t
    BY <1>3 DEF RowInv, PendingNewer, CommittedOf, OfRow
  <2>2. CommittedOf(k) \subseteq Ids /\ mine \subseteq Ids
    BY <1>1, <1>3 DEF CommittedOf, OfRow
  <2> HIDE DEF mine, prev
  <2>3. Last(CommittedOf(k) \cup mine) = Last(mine)
    BY <1>6, <2>1, <2>2, LastOfLater
  <2>4. BaseVersion(k) = Newest(prev)
    BY <1>4, <1>5, <1>6, <2>3 DEF Newest
  <2>5. QED
    BY <2>4 DEF prev
<1>7. CASE mine = {}
  <2>1. halfway = NoEvent /\ config.versions /\ NoOverlap /\ config.foreign = {}
    BY DEF RowInv, Halfway, Smooth, NoOverlap
  <2>2. replayed = {} /\ ~Excused(k)
    BY <2>1 DEF RowInv, CutByCrash, Excused, Reverted, Smooth, Peaceful, Truthful, LogTrue
  <2>3. Unwritten(k) = {}
    BY DEF InHand, Unwritten, KeyOf
  <2>4. InStep(k)
    BY <2>1, <2>2 DEF RowInv, VersionsInStep
  <2>5. heads[k] = rows[k].val
    BY <2>1, <2>2, <2>3, <2>4 DEF InStep
  <2>6. rows[k].val = Newest(CommittedOf(k))
    BY <2>1 DEF RowInv, NewestShown
  <2> HIDE DEF mine, prev
  <2>7. BaseVersion(k) = Newest(prev)
    BY <1>4, <1>5, <1>7, <2>5, <2>6
  <2>8. QED
    BY <2>7 DEF prev
<1>8. QED
  BY <1>6, <1>7

(* A call adds an event to the line.                                       *)
LEMMA CallAdvances ==
  ASSUME Inv, Inv', RowInv, RunInv, LineInv, Peaceful, NEW k \in Keys, NEW type, Call(k, type)
  PROVE  Advances
<1>0. Truthful /\ Truthful'
  BY CallTruth DEF LineInv
<1>1. PICK n : n = nextId
  OBVIOUS
<1>2. PICK base : base = BaseVersion(k)
  OBVIOUS
<1>3. /\ UNCHANGED <<log, config, rows, outbox, dead, heads, stack, txs, unstamped, lost,
                     push, late, replayed, halfway, crashes>>
      /\ ~InHand(k) /\ nextId' = nextId + 1
  BY DEF Call
<1>4. /\ DOMAIN pending' = DOMAIN pending \cup {n}
      /\ pending'[n].key = k
      /\ \A e \in DOMAIN pending : e < n /\ pending'[e] = pending[e]
      /\ \A e \in Committed : e < n
      /\ n \in Nat
  BY <1>1, CallAdds
<1>5. pending'[n].base = base
  BY <1>1, <1>2 DEF Call, Join
<1>6. Ours' = Ours \cup {n}
  BY <1>3, <1>4 DEF Ours
<1>7. Ours \subseteq Nat /\ \A f \in Ours : f < n
  BY <1>1, PeacefulFacts
<1>8. n \notin Ours
  <2>1. ~(n < n)
    BY <1>4
  <2>2. QED
    BY <1>7, <2>1
<1>9. ASSUME Smooth', BaseChain, NEW e \in Ours'
      PROVE  EntryOf(e)'.base = Newest(Previous(e)')
  <2>1. Smooth
    BY <1>3, <1>9 DEF Smooth
  <2>2. \A f \in Ours : EntryOf(f)' = EntryOf(f)
    BY <1>3, <1>4, <1>8 DEF EntryOf, Ours
  <2>3. EntryOf(n)' = pending'[n]
    BY <1>4 DEF EntryOf
  <2>4. CASE e \in Ours
    <3>1. Previous(e)' = Previous(e)
      <4>1. ASSUME NEW f \in Ours' PROVE f < e => f \in Ours
        BY <1>4, <1>6, <1>7, <2>4
      <4>2. QED
        BY <1>6, <2>2, <2>4, <4>1 DEF Previous
    <3>2. EntryOf(e).base = Newest(Previous(e))
      BY <1>9, <2>4 DEF BaseChain
    <3>3. QED
      BY <2>2, <2>4, <3>1, <3>2
  <2>5. CASE e = n
    <3>1. PICK P : P = {f \in Ours : EntryOf(f).key = k}
      OBVIOUS
    <3>2. base = Newest(P)
      BY <1>0, <1>2, <1>3, <2>1, <3>1, CallBase
    <3>3. Previous(n)' = P
      <4>1. ~(n < n)
        BY <1>4
      <4>2. QED
        BY <1>4, <1>6, <1>7, <1>8, <2>2, <2>3, <3>1, <4>1 DEF Previous
    <3>4. QED
      BY <1>5, <2>3, <2>5, <3>2, <3>3
  <2>6. QED
    BY <1>6, <2>4, <2>5
<1>10. Smooth' /\ BaseChain => BaseChain'
  BY <1>9 DEF BaseChain
<1>11. QED
  BY <1>0, <1>1, <1>3, <1>6, <1>10, MemoryAdvances

(* What the calls and the runs write goes to the end of the line.          *)
LEMMA WriteAdvances ==
  ASSUME Inv, Inv', RowInv, RunInv, LineInv, Peaceful, NEW e, NEW i,
         \/ e \in Ids /\ (CommitCall(e) \/ Stamp(e) \/ AddEntry(e) \/ AddTooLate(e))
         \/ i \in DOMAIN stack /\ (CommitTx(i) \/ FailTx(i))
         \/ BeginTx
  PROVE  Advances
<1>0. Truthful
  BY DEF LineInv
<1>1. CASE e \in Ids /\ CommitCall(e)
  <2>1. Rest /\ e \in DOMAIN pending /\ heads' = heads /\ (InsertAll({e}) \/ FailAll({e}))
    BY <1>1 DEF CommitCall
  <2>2. CASE InsertAll({e})
    <3>1. {e} \subseteq DOMAIN pending /\ (\A x \in {e} : Alive(x)) /\ StillWaiting /\ Leaving({e})
      BY <1>1, <2>2, CommitCallLeaves
    <3>2. QED
      BY <2>1, <2>2, <3>1, InsertAdvances
  <2>3. CASE FailAll({e})
    <3>1. Truthful'
      BY <1>0, <1>1, <2>3, CommitCallFails
    <3>2. QED
      BY <2>1, <2>3, <3>1, FailAdvances
  <2>4. QED
    BY <2>1, <2>2, <2>3
<1>2. CASE i \in DOMAIN stack /\ CommitTx(i)
  <2>1. PICK S : S = stack[i].entries
    OBVIOUS
  <2>2. /\ Rest /\ stack[i].phase = "open" /\ heads' = heads /\ txs' = txs
        /\ InsertAll(S) \/ (FailAll(S) /\ stack' = Popped(i))
    BY <1>2, <2>1 DEF CommitTx
  <2>3. S \subseteq DOMAIN pending
    <3>1. StackInOrder /\ i \in 1..Len(stack)
      BY <1>2, StackOf DEF Inv
    <3>2. QED
      BY <2>1, <2>2, <3>1 DEF StackInOrder, Entries
  <2>4. CASE InsertAll(S)
    <3>1. (\A x \in S : Alive(x)) /\ StillWaiting /\ Leaving(S)
      BY <1>2, <2>1, <2>4, CommitTxLeaves
    <3>2. QED
      BY <2>2, <2>3, <2>4, <3>1, InsertAdvances
  <2>5. CASE FailAll(S) /\ stack' = Popped(i)
    <3>1. Truthful'
      BY <1>0, <1>2, <2>1, <2>2, <2>5, RunFails
    <3>2. QED
      BY <2>2, <2>3, <2>5, <3>1, FailAdvances
  <2>6. QED
    BY <2>2, <2>4, <2>5
<1>3. CASE i \in DOMAIN stack /\ FailTx(i)
  <2>1. /\ Rest /\ stack[i].phase = "open" /\ heads' = heads /\ txs' = txs
        /\ FailAll(stack[i].entries) /\ stack' = Popped(i)
    BY <1>3 DEF FailTx
  <2>2. stack[i].entries \subseteq DOMAIN pending
    <3>1. StackInOrder /\ i \in 1..Len(stack)
      BY <1>3, StackOf DEF Inv
    <3>2. QED
      BY <2>1, <3>1 DEF StackInOrder, Entries
  <2>3. Truthful'
    BY <1>0, <1>3, <2>1, RunFails
  <2>4. QED
    BY <2>1, <2>2, <2>3, FailAdvances
<1>4. CASE (e \in Ids /\ (Stamp(e) \/ AddEntry(e))) \/ BeginTx
  <2>1. Rest /\ rows' = rows /\ outbox' = outbox /\ pending' = pending
    BY <1>4 DEF Stamp, AddEntry, BeginTx
  <2>2. Truthful'
    BY <1>0, <1>4, StampTruth, AddEntryTruth, BeginTxTruth
  <2>3. Fewer
    BY <2>1 DEF Fewer
  <2>4. QED
    BY <2>1, <2>2, <2>3, FewerAdvances
<1>5. CASE e \in Ids /\ AddTooLate(e)
  <2>1. /\ Rest /\ rows' = rows /\ outbox' = outbox /\ pending' = Without(pending, {e})
        /\ lost' = lost \cup {e}
    BY <1>5 DEF AddTooLate
  <2>2. Fewer /\ lost' # {}
    BY <2>1 DEF Fewer, Without
  <2>3. Truthful'
    BY <1>0, <1>5, TooLateTruth
  <2>4. QED
    BY <2>1, <2>2, <2>3, FewerAdvances
<1>6. QED
  BY <1>1, <1>2, <1>3, <1>4, <1>5

(* What a push notes on the outbox, with the log as it was.                *)
LEMMA NotedAdvances ==
  ASSUME Noted, UNCHANGED <<config, dead, log, nextId>>, Truthful', DOMAIN pending' \subseteq DOMAIN pending,
         Hopeful => InLine', pending' = pending \/ ~Smooth'
  PROVE  Advances
<1>1. Onward /\ NeverTaken
  BY DEF Onward, NeverTaken, LogGrows, Hopeless, Refusable, Noted, Ours
<1>2. ASSUME Smooth', BaseChain PROVE BaseChain'
  <2>1. pending' = pending
    BY <1>2
  <2>2. Ours' = Ours
    BY <2>1 DEF Ours, Noted
  <2>3. \A x \in Ours : EntryOf(x)'.key = EntryOf(x).key /\ EntryOf(x)'.base = EntryOf(x).base
    BY <2>1 DEF Ours, EntryOf, Noted
  <2>4. QED
    BY <1>2, <2>2, <2>3, ChainStays
<1>3. QED
  BY <1>1, <1>2 DEF Advances

(* A batch goes off, an answer is noted, or a sync ends; or all that waits *)
(* is gone in a crash.                                                     *)
LEMMA PushAdvances ==
  ASSUME Inv, Inv', RowInv, RunInv, LineInv, Peaceful, NEW e,
         \/ StartPush \/ ContinuePush \/ ReceiveReply \/ EndSync \/ Confirm(e)
         \/ Crash \/ CrashInMark
  PROVE  Advances
<1>0. Truthful /\ (Hopeful => InLine)
  BY DEF LineInv
<1>1. CASE StartPush \/ ContinuePush
  <2>1. UNCHANGED <<config, dead, log, nextId, pending>>
    BY <1>1 DEF StartPush, ContinuePush, Aside, calls
  <2>2. Noted
    BY <1>1, SendFacts
  <2>3. Truthful' /\ (Hopeful => InLine')
    BY <1>0, <1>1, SendTruth, SendInLine
  <2>4. QED
    BY <2>1, <2>2, <2>3, NotedAdvances
<1>2. CASE ReceiveReply \/ EndSync \/ Confirm(e)
  <2>1. Noted /\ UNCHANGED <<config, dead, log, nextId, pending>>
    BY <1>2, AnswerFacts
  <2>2. Truthful' /\ (Hopeful => InLine')
    BY <1>0, <1>2, AnswerTruth, AnswerInLine
  <2>3. QED
    BY <2>1, <2>2, NotedAdvances
<1>3. CASE Crash \/ CrashInMark
  <2>1. /\ Noted /\ UNCHANGED <<config, dead, log, nextId>>
        /\ DOMAIN pending' = {} /\ crashes' = crashes + 1
    BY <1>3, CrashFacts
  <2>2. ~Smooth'
    <3>1. crashes \in Nat
      BY DEF RowInv
    <3>2. QED
      BY <2>1, <3>1 DEF Smooth
  <2>3. Truthful' /\ (Hopeful => InLine')
    BY <1>0, <1>3, AnswerTruth, AnswerInLine
  <2>4. QED
    BY <2>1, <2>2, <2>3, NotedAdvances
<1>4. QED
  BY <1>1, <1>2, <1>3

(* The server does not take a group with an event that it will not take.   *)
LEMMA HopelessConflicts ==
  ASSUME Inv, RowInv, Peaceful, Truthful, NEW g \in push.open, NEW c \in Eids(g), Hopeless(c)
  PROVE  Conflicting(g) # {}
<1>1. \A b \in g : /\ b.eid \in DOMAIN outbox /\ b.eid \in Ids /\ b.seq = b.eid
                   /\ b.key = outbox[b.eid].key /\ b.base = outbox[b.eid].base
  <2>1. \A b \in g : b.eid \in DOMAIN outbox /\ b = Body(b.eid)
    BY DEF Truthful, BodiesWhole
  <2>2. DOMAIN outbox \subseteq Ids
    BY HandsIn
  <2>3. QED
    BY <2>1, <2>2 DEF Body
<1>2. PICK b \in g : b.eid = c
  BY DEF Eids
<1>3. PICK base, k : base = b.base /\ k = b.key
  OBVIOUS
<1>4. /\ b \in Fresh(g) /\ base # NoEvent /\ base \notin HeadOf(k)
      /\ \E f \in DOMAIN log : log[f].key = k
      /\ base \in DOMAIN log \/ base \notin Ours
  BY <1>1, <1>2, <1>3 DEF Hopeless, Refusable, Fresh
<1>5. PICK E : E = Earlier(g, b)
  OBVIOUS
<1>6. HeadSeen(g, b) # {} /\ base \notin HeadSeen(g, b)
  <2>1. CASE E = {}
    <3>1. LogTrue /\ RowLog(k) # {}
      BY <1>4 DEF Truthful, RowLog
    <3>2. HeadOf(k) # {}
      BY <3>1, HeadExists
    <3>3. HeadSeen(g, b) = HeadOf(k)
      BY <1>3, <1>5, <2>1 DEF HeadSeen
    <3>4. QED
      BY <1>4, <3>2, <3>3
  <2>2. CASE E # {}
    <3>1. \A d \in E : d.eid \in DOMAIN outbox /\ d.eid \notin DOMAIN log /\ d.seq = d.eid /\ d.eid \in Ids
      BY <1>1, <1>5 DEF Earlier, Fresh
    <3>2. HeadSeen(g, b) = {z.eid : z \in {w \in E : \A f \in E : f.seq <= w.seq}}
      BY <1>5, <2>2 DEF HeadSeen
    <3>3. PICK T : T = {d.eid : d \in E}
      OBVIOUS
    <3>4. T \subseteq Ids /\ T # {}
      BY <2>2, <3>1, <3>3
    <3>5. PICK y \in T : \A t \in T : t <= y
      BY <3>4, LastIn
    <3>6. PICK d \in E : d.eid = y
      BY <3>3, <3>5
    <3>7. \A f \in E : f.seq <= d.seq
      BY <3>1, <3>3, <3>5, <3>6
    <3>8. y \in HeadSeen(g, b)
      BY <3>2, <3>6, <3>7
    <3>9. \A z \in HeadSeen(g, b) : z \in Ours /\ z \notin DOMAIN log
      BY <3>1, <3>2 DEF Ours
    <3>10. QED
      BY <1>4, <3>8, <3>9
  <2>3. QED
    BY <2>1, <2>2
<1>7. InConflict(g, b)
  BY <1>3, <1>4, <1>6 DEF InConflict
<1>8. b \in Conflicting(g)
  BY <1>3, <1>4, <1>7 DEF Conflicting
<1>9. QED
  BY <1>8

(* The server takes a group.                                               *)
LEMMA ServeAdvances ==
  ASSUME Inv, RowInv, RunInv, LineInv, Peaceful, ServePush
  PROVE  Advances
<1>0. Truthful /\ NoBases /\ (Hopeful => InLine)
  BY DEF LineInv
<1>1. PICK g : Served(g) /\ LogGrows
  BY <1>0, ServeFacts
<1>2. /\ UNCHANGED <<config, outbox, dead, nextId, pending>> /\ g \in push.open
      /\ Conflicting(g) = {} => DOMAIN log' = DOMAIN log \cup Eids(g)
      /\ Conflicting(g) # {} => log' = log
  BY <1>1 DEF Served, AppendsInOrder
<1>3. Ours' = Ours /\ \A e \in Ours : EntryOf(e)' = EntryOf(e)
  BY <1>2 DEF Ours, EntryOf
<1>4. Onward
  BY <1>1, <1>2, <1>3 DEF Onward
<1>5. NeverTaken
  <2>1. ASSUME NEW c \in DOMAIN outbox, Hopeless(c), c \in DOMAIN log' PROVE FALSE
    <3>1. c \notin DOMAIN log
      BY <2>1 DEF Hopeless, Refusable
    <3>2. Conflicting(g) = {} /\ c \in Eids(g)
      BY <1>2, <2>1, <3>1
    <3>3. QED
      BY <1>0, <1>2, <2>1, <3>2, HopelessConflicts
  <2>2. QED
    BY <2>1 DEF NeverTaken
<1>6. Truthful'
  BY <1>0, ServeTruth
<1>7. Hopeful /\ ~Blind' => InLine'
  BY <1>0, ServeInLine
<1>8. BaseChain => BaseChain'
  BY <1>3, ChainStays
<1>9. QED
  BY <1>4, <1>5, <1>6, <1>7, <1>8 DEF Advances

(* Another device writes, or its event is replayed.                        *)
LEMMA OthersAdvance ==
  ASSUME Inv, RowInv, RunInv, LineInv, Peaceful, Others
  PROVE  Advances
<1>0. Truthful /\ LogTrue /\ (Hopeful => InLine)
  BY DEF LineInv, Truthful
<1>1. ASSUME NEW f \in ForeignIds, NEW k \in Keys, Foreign(f, k) PROVE Advances
  <2>1. /\ UNCHANGED <<config, outbox, dead, nextId, pending>>
        /\ LogGrows /\ DOMAIN log' = DOMAIN log \cup {f} /\ f \notin Ids
    BY <1>0, <1>1, ForeignFacts
  <2>2. Ours' = Ours /\ \A e \in Ours : EntryOf(e)' = EntryOf(e)
    BY <2>1 DEF Ours, EntryOf
  <2>3. Onward
    BY <2>1, <2>2 DEF Onward
  <2>4. NeverTaken
    <3>1. DOMAIN outbox \subseteq Ids
      BY HandsIn
    <3>2. QED
      BY <2>1, <3>1 DEF NeverTaken, Hopeless, Refusable
  <2>5. Truthful'
    BY <1>0, <1>1, ForeignTruth
  <2>6. Hopeful => InLine'
    BY <1>0, <1>1, ForeignInLine
  <2>7. BaseChain => BaseChain'
    BY <2>2, ChainStays
  <2>8. QED
    BY <2>3, <2>4, <2>5, <2>6, <2>7 DEF Advances
<1>2. ASSUME NEW f \in ForeignIds, ReplayRow(f) PROVE Advances
  <2>1. UNCHANGED <<config, log, outbox, dead, nextId, pending>>
    BY <1>2 DEF ReplayRow, calls
  <2>2. Noted
    BY <2>1 DEF Noted
  <2>3. Truthful'
    BY <1>0, <1>2, ReplayTruth
  <2>4. Hopeful => InLine'
    BY <1>0, <1>2, ReplayInLine
  <2>5. QED
    BY <2>1, <2>2, <2>3, <2>4, NotedAdvances
<1>3. CASE ReplayVersion
  <2>1. UNCHANGED <<config, rows, log, outbox, dead, nextId, pending, push, replayed>>
    BY <1>3 DEF ReplayVersion, calls
  <2>2. Truthful'
    BY <1>0, <1>3, ReplayTruth
  <2>3. Ours' = Ours /\ \A e \in Ours : EntryOf(e)' = EntryOf(e)
    BY <2>1 DEF Ours, EntryOf
  <2>4. BaseChain => BaseChain'
    BY <2>3, ChainStays
  <2>5. QED
    BY <2>1, <2>2, <2>3, <2>4, MemoryAdvances
<1>4. QED
  BY <1>1, <1>2, <1>3 DEF Others

-----------------------------------------------------------------------------
(* The order of the log in every state.                                    *)

(* Bases are of calls, and are only copied.                                *)
LEMMA BasesCopied ==
  ASSUME config' = config, NoBases,
         ~config.versions => \A e \in DOMAIN pending' :
           pending'[e].base = NoEvent \/ (e \in DOMAIN pending /\ pending'[e].base = pending[e].base),
         \A e \in DOMAIN outbox' : \/ e \in DOMAIN outbox /\ outbox'[e].base = outbox[e].base
                                   \/ e \in DOMAIN pending /\ outbox'[e].base = pending[e].base,
         \A g \in push'.open : \/ g \in push.open
                               \/ \A b \in g : b.eid \in DOMAIN outbox /\ b.base = outbox[b.eid].base,
         ~config.versions => \A e \in DOMAIN push'.answer :
           \/ e \in DOMAIN push.answer /\ push'.answer[e] = push.answer[e]
           \/ push'.answer[e] # "conflict"
  PROVE  NoBases'
BY DEF NoBases

(* Without versions the server has no verdict of conflict.                 *)
LEMMA ServeBases ==
  ASSUME Inv, NoBases, ServePush
  PROVE  NoBases'
<1>1. PICK g : g = Head1(push.open)
  OBVIOUS
<1>2. PICK result \in ServerResults(g, config.faults) :
        push' = [push EXCEPT !.open = @ \ {g}, !.answer = Join(@, result.answer)]
  BY <1>1 DEF ServePush
<1>3. push.phase = "waiting" /\ push.open # {} /\ UNCHANGED <<config, outbox, pending>>
  BY DEF ServePush, Aside, calls
<1>4. g \in push.open
  BY <1>1, <1>3, Head1In DEF Inv, Sending
<1>5. push'.open = push.open \ {g} /\ push'.answer = Join(push.answer, result.answer)
  BY <1>2 DEF Inv, Sending
<1>6. ASSUME ~config.versions, NEW e \in DOMAIN result.answer PROVE result.answer[e] # "conflict"
  <2>1. \A b \in g : b.base = NoEvent
    BY <1>4, <1>6 DEF NoBases
  <2>2. Conflicting(g) = {}
    BY <2>1 DEF Conflicting, InConflict, Earlier, Fresh
  <2>3. \/ result = Result(Appended(g), AllConfirmed(g))
        \/ \E b \in Fresh(g) : result = Result(log, Aborted(g, {b}, "rejected"))
        \/ result = Result(log, AllTransient(g))
    BY <2>2 DEF ServerResults
  <2>4. CASE result = Result(Appended(g), AllConfirmed(g))
    BY <1>6, <2>4 DEF Result, AllConfirmed
  <2>5. CASE \E b \in Fresh(g) : result = Result(log, Aborted(g, {b}, "rejected"))
    BY <1>6, <2>5 DEF Result, Aborted
  <2>6. CASE result = Result(log, AllTransient(g))
    BY <1>6, <2>6 DEF Result, AllTransient
  <2>7. QED
    BY <2>3, <2>4, <2>5, <2>6
<1>7. ASSUME ~config.versions, NEW e \in DOMAIN push'.answer
      PROVE  \/ e \in DOMAIN push.answer /\ push'.answer[e] = push.answer[e]
             \/ push'.answer[e] # "conflict"
  BY <1>5, <1>6, <1>7 DEF Join
<1>8. QED
  BY <1>3, <1>5, <1>7, BasesCopied

(* Without versions there are no bases.                                    *)
LEMMA NextBases ==
  ASSUME Inv, RowInv, RunInv, NoBases, [Next]_vars
  PROVE  NoBases'
<1>1. ASSUME NEW k \in Keys, NEW type, Call(k, type) PROVE NoBases'
  <2>1. PICK n, base : n = nextId /\ base = BaseVersion(k)
    OBVIOUS
  <2>2. UNCHANGED <<config, outbox, push>>
    BY <1>1 DEF Call
  <2>3. /\ DOMAIN pending' = DOMAIN pending \cup {n}
        /\ \A e \in DOMAIN pending : pending'[e] = pending[e]
    BY <1>1, <2>1, CallAdds
  <2>4. pending'[n].base = base
    BY <1>1, <2>1 DEF Call, Join
  <2>5. ~config.versions => base = NoEvent
    BY <2>1 DEF BaseVersion
  <2>6. QED
    BY <2>2, <2>3, <2>4, <2>5, BasesCopied
<1>2. ASSUME NEW S, InsertAll(S) \/ FailAll(S), Rest PROVE NoBases'
  <2>1. UNCHANGED <<config, push>>
    BY <1>2 DEF Rest
  <2>2. \A e \in DOMAIN pending' : e \in DOMAIN pending /\ pending'[e] = pending[e]
    BY <1>2 DEF InsertAll, FailAll, Without
  <2>3. \A e \in DOMAIN outbox' : \/ e \in DOMAIN outbox /\ outbox'[e] = outbox[e]
                                  \/ e \in DOMAIN pending /\ outbox'[e] = pending[e]
    BY <1>2 DEF InsertAll, FailAll, Join, Only
  <2>4. QED
    BY <2>1, <2>2, <2>3, BasesCopied
<1>3. CASE Settling \/ BeginTx \/ Finish
  <2>1. ASSUME NEW e \in Ids, CommitCall(e) PROVE NoBases'
    <3>1. Rest /\ (InsertAll({e}) \/ FailAll({e}))
      BY <2>1 DEF CommitCall
    <3>2. QED
      BY <1>2, <3>1
  <2>2. ASSUME NEW i \in DOMAIN stack, CommitTx(i) \/ FailTx(i) PROVE NoBases'
    <3>1. PICK S : S = stack[i].entries
      OBVIOUS
    <3>2. Rest /\ (InsertAll(S) \/ FailAll(S))
      BY <2>2, <3>1 DEF CommitTx, FailTx
    <3>3. QED
      BY <1>2, <3>2
  <2>3. ASSUME NEW e, Stamp(e) \/ AddEntry(e) \/ AddTooLate(e) \/ BeginTx PROVE NoBases'
    <3>1. Rest /\ outbox' = outbox /\ (pending' = pending \/ pending' = Without(pending, {e}))
      BY <2>3 DEF Stamp, AddEntry, AddTooLate, BeginTx
    <3>2. \A x \in DOMAIN pending' : x \in DOMAIN pending /\ pending'[x] = pending[x]
      BY <3>1 DEF Without
    <3>3. QED
      BY <3>1, <3>2, BasesCopied DEF Rest
  <2>4. QED
    BY <1>3, <2>1, <2>2, <2>3 DEF Settling, Finish
<1>4. CASE StartPush \/ ContinuePush
  <2>1. UNCHANGED <<config, pending>>
    BY <1>4 DEF StartPush, ContinuePush, Aside, calls
  <2>2. /\ Noted /\ DOMAIN push'.answer = {}
        /\ \A g \in push'.open : \A b \in g : b.eid \in DOMAIN outbox /\ b = Body(b.eid)
    BY <1>4, SendFacts
  <2>3. \A g \in push'.open : \A b \in g : b.eid \in DOMAIN outbox /\ b.base = outbox[b.eid].base
    BY <2>2 DEF Body
  <2>4. QED
    BY <2>1, <2>2, <2>3, BasesCopied DEF Noted
<1>5. ASSUME NEW e, ReceiveReply \/ EndSync \/ Confirm(e) \/ BackOff(e) PROVE NoBases'
  <2>1. Noted /\ HandsKept /\ UNCHANGED <<config, pending>>
    BY <1>5, AnswerFacts
  <2>2. QED
    BY <2>1, BasesCopied DEF Noted, HandsKept
<1>6. CASE Crash \/ CrashInMark
  <2>1. Noted /\ HandsKept /\ config' = config /\ DOMAIN pending' = {}
    BY <1>6, CrashFacts
  <2>2. QED
    BY <2>1, BasesCopied DEF Noted, HandsKept
<1>7. CASE CrashInPark
  <2>1. Restart /\ \A e \in DOMAIN outbox' : e \in DOMAIN outbox /\ outbox'[e] = outbox[e]
    BY <1>7 DEF CrashInPark, Without
  <2>2. config' = config /\ DOMAIN pending' = {} /\ push'.open = {} /\ DOMAIN push'.answer = {}
    BY <2>1 DEF Restart, Empty, Resting, PushIn
  <2>3. QED
    BY <2>1, <2>2, BasesCopied
<1>8. ASSUME NEW e, Park(e) \/ ParkThrows(e) PROVE NoBases'
  <2>1. UNCHANGED <<config, pending>>
    BY <1>8 DEF Park, ParkThrows, Aside, calls
  <2>2. \A x \in DOMAIN outbox' : x \in DOMAIN outbox /\ outbox'[x] = outbox[x]
    BY <1>8 DEF Park, ParkThrows, Without
  <2>3. /\ push'.open \subseteq push.open
        /\ \A x \in DOMAIN push'.answer : x \in DOMAIN push.answer /\ push'.answer[x] = push.answer[x]
    <3>1. CASE Park(e)
      <4>1. push'.open = push.open /\ push'.answer = Without(push.answer, {e})
        BY <3>1 DEF Park, Applied, Inv, Sending
      <4>2. QED
        BY <4>1 DEF Without
    <3>2. CASE ParkThrows(e)
      BY <3>2 DEF ParkThrows, Pulling, PushIn, Empty
    <3>3. QED
      BY <1>8, <3>1, <3>2
  <2>4. QED
    BY <2>1, <2>2, <2>3, BasesCopied
<1>9. CASE TransportError
  BY <1>9, BasesCopied DEF TransportError, Aside, calls
<1>10. CASE BackoffTick
  <2>1. /\ outbox' = [x \in DOMAIN outbox |->
                        [outbox[x] EXCEPT !.wait = IF @ > 0 THEN @ - 1 ELSE 0]]
        /\ UNCHANGED <<config, pending, push>>
    BY <1>10 DEF BackoffTick, Aside, calls
  <2>2. \A x \in DOMAIN outbox : outbox[x] \in Row
    BY DEF Inv, Tables, Partial
  <2>3. \A x \in DOMAIN outbox' : x \in DOMAIN outbox /\ outbox'[x].base = outbox[x].base
    BY <2>1, <2>2 DEF Row
  <2>4. QED
    BY <2>1, <2>3, BasesCopied
<1>11. CASE ServeLate \/ Others \/ UNCHANGED vars
  <2>1. UNCHANGED <<config, pending, outbox, push>>
    BY <1>11 DEF ServeLate, Others, Foreign, ReplayRow, ReplayVersion, Aside, calls, vars
  <2>2. QED
    BY <2>1, BasesCopied
<1>12. QED
  BY <1>1, <1>3, <1>4, <1>5, <1>6, <1>7, <1>8, <1>9, <1>10, <1>11, ServeBases
     DEF Next, Mutate, Pushing, Apply

(* Where every event is based on the one before it, the server takes them  *)
(* all.                                                                    *)
LEMMA ChainHopeful ==
  ASSUME Inv, RowInv, Peaceful, Truthful, BaseChain, LogInOrder, Down(Stored), config.foreign = {}
  PROVE  Hopeful
<1>1. LogTrue /\ Theirs = {}
  BY DEF Truthful, LogTrue
<1>2. \A e \in DOMAIN log : e \in Stored
  BY <1>1 DEF Theirs, Stored
<1>3. ~Blind
  BY <1>1 DEF Blind, Theirs
<1>4. ASSUME NEW c \in DOMAIN outbox, Hopeless(c) PROVE FALSE
  <2>1. PICK b, k : b = outbox[c].base /\ k = outbox[c].key
    OBVIOUS
  <2>2. /\ c \notin DOMAIN log /\ b # NoEvent /\ b \notin HeadOf(k)
        /\ \E f \in DOMAIN log : log[f].key = k
        /\ b \in DOMAIN log \/ b \notin Ours
    BY <1>4, <2>1 DEF Hopeless, Refusable
  <2>3. /\ c \in Ours /\ EntryOf(c) = outbox[c] /\ Ours \subseteq Ids /\ Ids \subseteq Nat
        /\ \A e \in DOMAIN outbox : e \in Ours /\ EntryOf(e) = outbox[e]
    BY PeacefulFacts DEF Ours
  <2>4. PICK P : P = Previous(c)
    OBVIOUS
  <2>5. b = Newest(P)
    BY <2>1, <2>3, <2>4 DEF BaseChain
  <2>6. P \subseteq Ours /\ P # {} /\ b = Last(P)
    BY <2>2, <2>4, <2>5 DEF Previous, Newest
  <2>7. b \in P /\ \A f \in P : f <= b
    BY <2>3, <2>6, LastIn
  <2>8. b \in DOMAIN log /\ b \in Stored
    BY <1>2, <2>2, <2>6, <2>7
  <2>9. b \in DOMAIN outbox /\ outbox[b].key = k /\ log[b].key = k /\ b < c
    BY <1>1, <2>1, <2>3, <2>4, <2>7, <2>8 DEF LogTrue, Previous
  <2>10. ASSUME NEW h \in DOMAIN log, log[h].key = k PROVE log[h].pos <= log[b].pos
    <3>1. h \in Stored /\ h \in DOMAIN outbox /\ outbox[h].key = k
      BY <1>1, <1>2, <2>10 DEF LogTrue
    <3>2. ~(c < h)
      <4>1. ASSUME c < h PROVE c \in Stored
        BY <2>1, <3>1, <4>1 DEF Down
      <4>2. QED
        BY <2>2, <4>1 DEF Stored
    <3>3. h # c /\ h \in Nat /\ c \in Nat /\ b \in Nat
      BY <2>2, <2>3, <2>6, <2>7, <3>1
    <3>4. h < c
      BY <3>2, <3>3
    <3>5. h \in P
      BY <2>1, <2>3, <2>4, <3>1, <3>4 DEF Previous
    <3>6. h = b \/ h < b
      BY <2>7, <3>3, <3>5
    <3>7. log[h].pos \in Nat /\ log[b].pos \in Nat
      BY <1>1, <2>8, PosIsNat
    <3>8. QED
      BY <2>8, <2>9, <2>10, <3>1, <3>6, <3>7 DEF LogInOrder
  <2>11. b \in HeadOf(k)
    BY <2>8, <2>9, <2>10 DEF HeadOf
  <2>12. QED
    BY <2>2, <2>11
<1>5. QED
  BY <1>3, <1>4 DEF Hopeful

(* While all is in line nothing is refused.                                *)
LEMMA NothingRefused ==
  ASSUME Inv, Truthful, InLine, NEW e, Applying(e)
  PROVE  ~Refused(e)
<1>1. e \in DOMAIN push.answer
  BY ToApplyIn
<1>2. push.answer[e] = "confirmed"
  BY <1>1 DEF InLine, AllConfirming
<1>3. QED
  BY <1>2 DEF Refused

(* Nothing that has happened is undone.                                    *)
LEMMA SmoothBefore ==
  ASSUME RowInv, [Next]_vars, Smooth'
  PROVE  Smooth
<1>1. config' = config /\ lost \subseteq lost' /\ (crashes' = crashes \/ crashes' = crashes + 1)
  <2>1. CASE Mutate
    BY <2>1 DEF Mutate, Call
  <2>2. CASE Settling \/ BeginTx \/ Finish
    BY <2>2 DEF Settling, CommitCall, Stamp, AddEntry, AddTooLate, BeginTx, Finish, CommitTx, FailTx,
         InsertAll, FailAll, Rest
  <2>3. CASE Pushing
    BY <2>3 DEF Pushing, StartPush, ContinuePush, ServePush, ReceiveReply, Apply, Confirm, BackOff,
         Park, ParkThrows, EndSync, Aside, calls
  <2>4. CASE TransportError \/ ServeLate \/ BackoffTick \/ Others \/ UNCHANGED vars
    BY <2>4 DEF TransportError, ServeLate, BackoffTick, Others, Foreign, ReplayRow, ReplayVersion,
         Aside, calls, vars
  <2>5. CASE Crash \/ CrashInPark \/ CrashInMark
    BY <2>5 DEF Crash, CrashInPark, CrashInMark, Restart
  <2>6. QED
    BY <2>1, <2>2, <2>3, <2>4, <2>5 DEF Next
<1>2. crashes' = 0 => crashes = 0
  BY <1>1 DEF RowInv
<1>3. QED
  BY <1>1, <1>2 DEF Smooth

(* Peace is never regained.                                                *)
LEMMA PeacefulBefore ==
  ASSUME [Next]_vars, Peaceful'
  PROVE  Peaceful
<1>1. config' = config /\ DOMAIN dead \subseteq DOMAIN dead'
  <2>1. CASE Mutate
    BY <2>1 DEF Mutate, Call
  <2>2. CASE Settling \/ BeginTx \/ Finish
    BY <2>2 DEF Settling, CommitCall, Stamp, AddEntry, AddTooLate, BeginTx, Finish, CommitTx, FailTx,
         Rest
  <2>3. CASE Pushing
    BY <2>3 DEF Pushing, StartPush, ContinuePush, ServePush, ReceiveReply, Apply, Confirm, BackOff,
         Park, ParkThrows, EndSync, Aside, Recorded, Join
  <2>4. CASE TransportError \/ ServeLate \/ BackoffTick \/ Others \/ UNCHANGED vars
    BY <2>4 DEF TransportError, ServeLate, BackoffTick, Others, Foreign, ReplayRow, ReplayVersion,
         Aside, vars
  <2>5. CASE Crash \/ CrashInPark \/ CrashInMark
    BY <2>5 DEF Crash, CrashInPark, CrashInMark, Restart, Recorded, Join
  <2>6. QED
    BY <2>1, <2>2, <2>3, <2>4, <2>5 DEF Next
<1>2. QED
  BY <1>1 DEF Peaceful, NoOverlap

(* A device that writes alone and loses nothing has nothing refused.       *)
LEMMA SmoothHopeful ==
  ASSUME Inv, RowInv, LineInv, Smooth
  PROVE  Hopeful
<1>1. Peaceful /\ BaseChain /\ InLine /\ Truthful
  BY DEF LineInv
<1>2. LogInOrder /\ Down(Stored) /\ config.foreign = {}
  BY <1>1 DEF InLine, SentInOrder, Smooth
<1>3. QED
  BY <1>1, <1>2, ChainHopeful

(* Every step in peace that parks nothing is one of peace.                 *)
LEMMA NextAdvances ==
  ASSUME Inv, Inv', RowInv, RunInv, LineInv, Peaceful, [Next]_vars,
         \A e : ~Park(e), ~CrashInPark
  PROVE  Advances
<1>0. Truthful
  BY DEF LineInv
<1>1. CASE Mutate
  BY <1>1, CallAdvances DEF Mutate
<1>2. CASE Settling \/ BeginTx \/ Finish
  BY <1>2, WriteAdvances DEF Settling, Finish
<1>3. CASE StartPush \/ ContinuePush \/ ReceiveReply \/ EndSync \/ Crash \/ CrashInMark
  BY <1>3, PushAdvances
<1>4. CASE Apply
  <2>1. PICK e \in Ids : Confirm(e) \/ BackOff(e) \/ Park(e) \/ ParkThrows(e)
    BY <1>4 DEF Apply
  <2>2. Confirm(e)
    BY <1>0, <2>1, PeacefulSteps
  <2>3. QED
    BY <2>2, PushAdvances
<1>5. CASE ServePush
  BY <1>5, ServeAdvances
<1>6. CASE TransportError \/ ServeLate \/ BackoffTick
  BY <1>0, <1>6, PeacefulSteps
<1>7. CASE Others
  BY <1>7, OthersAdvance
<1>8. CASE UNCHANGED vars
  <2>1. /\ UNCHANGED <<config, rows, log, outbox, dead, push, late, replayed, pending, heads, nextId, lost>>
        /\ UNCHANGED stack
    BY <1>8 DEF vars, calls
  <2>2. Fewer /\ Rest /\ StillWaiting
    BY <1>8, <2>1, CallsWait DEF Fewer, Rest, vars, calls
  <2>3. Truthful'
    BY <1>0, <2>1, <2>2, StackTruth
  <2>4. QED
    BY <2>1, <2>2, <2>3, FewerAdvances
<1>9. QED
  BY <1>1, <1>2, <1>3, <1>4, <1>5, <1>6, <1>7, <1>8 DEF Next, Pushing

(* Every step keeps the line.                                              *)
LEMMA NextLine == Inv /\ Inv' /\ RowInv /\ RunInv /\ LineInv /\ [Next]_vars => LineInv'
<1> SUFFICES ASSUME Inv, Inv', RowInv, RunInv, LineInv, [Next]_vars PROVE LineInv'
  OBVIOUS
<1>1. NoBases'
  BY NextBases DEF LineInv
<1>2. ASSUME Peaceful' PROVE Peaceful /\ Truthful /\ Advances
  <2>1. Peaceful /\ Truthful
    BY <1>2, PeacefulBefore DEF LineInv
  <2>2. \A e : ~Park(e) /\ ~CrashInPark
    BY <1>2, ParkEnds
  <2>3. QED
    BY <2>1, <2>2, NextAdvances
<1>3. Peaceful' => Truthful'
  BY <1>2 DEF Advances
<1>4. ASSUME Hopeful' PROVE InLine'
  <2>1. Peaceful' /\ ~Blind'
    BY <1>4 DEF Hopeful
  <2>2. Hopeful
    BY <1>2, <1>4, <2>1, HopefulBefore
  <2>3. QED
    BY <1>2, <2>1, <2>2 DEF Advances
<1>5. ASSUME Smooth' PROVE Peaceful' /\ BaseChain' /\ InLine'
  <2>1. Smooth
    BY <1>5, SmoothBefore
  <2>2. Peaceful /\ BaseChain /\ InLine /\ Truthful /\ Hopeful
    BY <2>1, SmoothHopeful DEF LineInv
  <2>3. ASSUME NEW e PROVE ~Park(e)
    BY <2>2, NothingRefused DEF Park
  <2>4. ~CrashInPark
    BY <2>2, NothingRefused DEF CrashInPark
  <2>5. Advances
    BY <2>2, <2>3, <2>4, NextAdvances
  <2>6. config' = config /\ dead' = dead /\ Truthful'
    BY <2>5 DEF Advances, Onward
  <2>7. Peaceful'
    BY <2>2, <2>6, PeaceStays
  <2>8. ~Blind'
    <3>1. Theirs' = {}
      BY <1>5, <2>6 DEF Truthful, LogTrue, Smooth
    <3>2. QED
      BY <3>1 DEF Blind, Theirs
  <2>9. QED
    BY <1>5, <2>2, <2>5, <2>7, <2>8 DEF Advances
<1>6. QED
  BY <1>1, <1>3, <1>4, <1>5 DEF LineInv

(* At the start the line is empty.                                         *)
LEMMA InitLine == Init => LineInv
<1> SUFFICES ASSUME Init PROVE LineInv
  OBVIOUS
<1>1. /\ DOMAIN pending = {} /\ DOMAIN outbox = {} /\ DOMAIN dead = {} /\ DOMAIN log = {}
      /\ push.open = {} /\ push.due = {} /\ DOMAIN push.answer = {} /\ push.phase = "idle"
      /\ late = {} /\ replayed = {}
      /\ \A k \in Keys : heads[k] = NoEvent /\ ~rows[k].live
  BY DEF Init, LogInit, Empty, Resting, PushIn
<1>2. Ours = {} /\ Stored = {} /\ OpenIds = {} /\ Theirs = {}
  BY <1>1 DEF Ours, Stored, OpenIds, Theirs, Eids, Events
<1>3. NoBases /\ BaseChain
  BY <1>1, <1>2 DEF NoBases, BaseChain
<1>4. Truthful
  <2>1. Unfaulted /\ GroupsInOrder(push.open) /\ BodiesWhole
    BY <1>1 DEF Unfaulted, GroupsInOrder, BodiesWhole
  <2>2. LogTrue
    BY <1>1, <1>2, FS_EmptySet DEF LogTrue
  <2>3. BasesKnown
    BY <1>1, <1>2, ForeignApart DEF BasesKnown, BaseKnown
  <2>4. RunChain /\ TypesFollow /\ replayed \subseteq Theirs
    BY <1>1, <1>2 DEF RunChain, TypesFollow
  <2>5. QED
    BY <2>1, <2>2, <2>3, <2>4 DEF Truthful
<1>5. InLine
  <2>1. AllConfirming /\ LogInOrder /\ ReplayedInOrder /\ Foreseen /\ AllSent
    BY <1>1, <1>2 DEF AllConfirming, LogInOrder, ReplayedInOrder, Foreseen, AllSent, Syncing
  <2>2. SentInOrder
    BY <1>1 DEF SentInOrder, Down
  <2>3. \A k : Unstored(k) = {} /\ SeenOf(k) = {}
    BY <1>1 DEF Unstored, SeenOf
  <2>4. RowsShow
    BY <1>1, <2>3 DEF RowsShow, RowShows, Tops
  <2>5. QED
    BY <2>1, <2>2, <2>4 DEF InLine
<1>6. Smooth => Peaceful
  BY <1>1 DEF Smooth, Peaceful, NoOverlap
<1>7. QED
  BY <1>3, <1>4, <1>5, <1>6 DEF LineInv

(* Hence the log is in order in every reachable state.                     *)
LEMMA LineAlways == Spec => [](Inv /\ RowInv /\ RunInv /\ LineInv)
<1>1. Init => Inv /\ RowInv /\ RunInv /\ LineInv
  BY InitOK, InitRows, InitRuns, InitLine
<1>2. Inv /\ RowInv /\ RunInv /\ LineInv /\ [Next]_vars => Inv' /\ RowInv' /\ RunInv' /\ LineInv'
  BY NextOK, NextRows, NextRuns, NextLine
<1>3. QED
  BY <1>1, <1>2, PTL DEF Spec

(* A device that writes alone, one edit of a row at a time, is never told  *)
(* that it is in conflict with itself: every base it sends is the newest   *)
(* event of the row the server has, or the one before it in the same       *)
(* group, whatever the batches and however the runs nest.                  *)
THEOREM NoConflictWithOneself == Spec => []NoSelfConflict
<1>1. LineInv => NoSelfConflict
  <2> SUFFICES ASSUME LineInv, config.foreign = {}, crashes = 0, lost = {},
                      config.versions => config.faults = {}, NEW e \in DOMAIN push.answer
               PROVE  push.answer[e] # "conflict"
    BY DEF NoSelfConflict
  <2>1. CASE config.versions
    BY <2>1 DEF LineInv, Smooth, InLine, AllConfirming
  <2>2. CASE ~config.versions
    BY <2>2 DEF LineInv, NoBases
  <2>3. QED
    BY <2>1, <2>2
<1>2. QED
  BY <1>1, LineAlways, PTL

(* What of others is stored and not replayed has a first one.              *)
LEMMA AllReplayed ==
  ASSUME LogTrue, NextForeign = {}
  PROVE  Theirs \subseteq replayed
<1>1. PICK S : S = (config.foreign \cap DOMAIN log) \ replayed
  OBVIOUS
<1>2. Theirs \ replayed \subseteq S
  BY <1>1 DEF LogTrue, Theirs
<1>3. ASSUME S # {} PROVE FALSE
  <2>1. PICK T : T = {log[e].pos : e \in S}
    OBVIOUS
  <2>2. T # {} /\ T \subseteq Nat
    BY <1>1, <1>3, <2>1, PosIsNat
  <2>3. PICK x \in T : \A y \in T : x <= y
    BY <2>2, MinExists
  <2>4. PICK f \in S : log[f].pos = x
    BY <2>1, <2>3
  <2>5. f \in NextForeign
    BY <1>1, <2>1, <2>3, <2>4 DEF NextForeign
  <2>6. QED
    BY <2>5
<1>4. QED
  BY <1>2, <1>3

(* Once everything is sent, confirmed and replayed, over a network and by  *)
(* a server that did not fail it, and nothing was parked, the device and   *)
(* the server agree on every row: whatever calls failed and crashes cut    *)
(* off, however runs nest, and whatever others write between the syncs, as *)
(* long as the device did not write a row it had never seen and they had.  *)
THEOREM AllInAgreement == Spec => []QuiescentAgreement
<1>1. Inv /\ RowInv /\ LineInv => QuiescentAgreement
  <2> SUFFICES ASSUME Inv, RowInv, LineInv, Quiescent, config.faults = {},
                      config.foreign # {} => config.versions /\ ~config.busy, ~Blind,
                      NEW k \in Keys
               PROVE  IF rows[k].live THEN \E e \in HeadOf(k) : e = rows[k].val
                      ELSE \A e \in HeadOf(k) : log[e].type = "delete"
    BY DEF QuiescentAgreement
  <2>1. Peaceful
    BY DEF Quiescent, Empty, Peaceful, NoOverlap
  <2>2. Truthful /\ LogTrue
    BY <2>1 DEF LineInv, Truthful
  <2>3. DOMAIN outbox \subseteq DOMAIN log
    BY <2>2 DEF Quiescent, Unsynced, LogTrue
  <2>4. Hopeful
    BY <2>1, <2>3 DEF Hopeful, Hopeless, Refusable
  <2>5. RowShows(k) /\ Unstored(k) = {}
    BY <2>3, <2>4 DEF LineInv, InLine, RowsShow, Unstored
  <2>6. SeenOf(k) = RowLog(k)
    <3>1. Theirs \subseteq replayed
      BY <2>2, AllReplayed DEF Quiescent
    <3>2. QED
      BY <3>1 DEF SeenOf, RowLog, Theirs
  <2>7. HeadOf(k) = Tops(SeenOf(k))
    BY <2>6, HeadIsTop
  <2>8. \A e \in HeadOf(k) : Shows(k, e, log[e].type)
    BY <2>5, <2>7 DEF RowShows
  <2>9. CASE rows[k].live
    <3>1. RowLog(k) # {}
      BY <2>5, <2>6, <2>9 DEF RowShows
    <3>2. PICK e : HeadOf(k) = {e}
      BY <2>2, <3>1, HeadExists
    <3>3. rows[k].val = e
      BY <2>8, <3>2 DEF Shows
    <3>4. QED
      BY <2>9, <3>2, <3>3
  <2>10. CASE ~rows[k].live
    <3>1. ASSUME NEW e \in HeadOf(k) PROVE log[e].type = "delete"
      BY <2>8, <2>10, <3>1 DEF Shows
    <3>2. QED
      BY <2>10, <3>1
  <2>11. QED
    BY <2>9, <2>10
<1>2. QED
  BY <1>1, LineAlways, PTL
=============================================================================
