-------------------------- MODULE OutboxPushProofs --------------------------
(***************************************************************************)
(* What OutboxPush guarantees for every number of rows and edits, every    *)
(* batch, size and retry setting, every fault set and any number of        *)
(* crashes; and what else the outbox keeps, each under the switches it     *)
(* needs: what an event says, what became of it, whole transactions, and   *)
(* the order of the edits.                                                 *)
(***************************************************************************)
EXTENDS OutboxPush, Extrema

-----------------------------------------------------------------------------
(* Operators.                                                              *)

(* The newest and the oldest of a non-empty set of rows are in it.         *)
LEMMA NewestIn ==
  ASSUME NEW ob, NEW S, S # {}, \A e \in S : ob[e].seq \in Ids
  PROVE  /\ Newest(ob, S) \in S
         /\ \A f \in S : ob[f].seq <= ob[Newest(ob, S)].seq
<1> DEFINE T == {ob[e].seq : e \in S}
<1>1. T \subseteq 1..MaxIds /\ MaxIds \in Nat
  BY BoundsAssumption DEF Ids
<1>2. T # {}
  OBVIOUS
<1>3. PICK x \in T : \A y \in T : y <= x
  BY <1>1, <1>2, MaxExists
<1>4. PICK e \in S : x = ob[e].seq
  OBVIOUS
<1>5. \A f \in S : ob[f].seq <= ob[e].seq
  BY <1>3, <1>4
<1>6. QED
  BY <1>5 DEF Newest

(* The oldest of a non-empty set of rows is in it.                         *)
LEMMA OldestIn ==
  ASSUME NEW ob, NEW S, S # {}, \A e \in S : ob[e].seq \in Ids
  PROVE  /\ Oldest(ob, S) \in S
         /\ \A f \in S : ob[Oldest(ob, S)].seq <= ob[f].seq
<1> DEFINE T == {ob[e].seq : e \in S}
<1>1. T \subseteq Nat
  BY BoundsAssumption DEF Ids
<1>2. T # {}
  OBVIOUS
<1>3. PICK x \in T : \A y \in T : x <= y
  BY <1>1, <1>2, MinExists
<1>4. PICK e \in S : x = ob[e].seq
  OBVIOUS
<1>5. \A f \in S : ob[e].seq <= ob[f].seq
  BY <1>3, <1>4
<1>6. QED
  BY <1>5 DEF Oldest

(* A fold keeps the identity of one of the events it replaces.             *)
LEMMA AnchorIn ==
  ASSUME NEW ob, NEW chain, chain # {}, \A e \in chain : ob[e].seq \in Ids
  PROVE  Anchor(ob, chain) \in chain
<1> DEFINE siblingTxs == {ob[e].tx : e \in DOMAIN ob \ chain}
           shared     == {e \in chain : ob[e].tx \in siblingTxs}
<1>1. CASE shared # {}
  <2>1. Newest(ob, shared) \in shared
    BY <1>1, NewestIn
  <2>2. Anchor(ob, chain) = Newest(ob, shared)
    BY <1>1 DEF Anchor
  <2>3. QED
    BY <2>1, <2>2
<1>2. CASE shared = {}
  <2>1. Anchor(ob, chain) = Oldest(ob, chain)
    BY <1>2 DEF Anchor
  <2>2. QED
    BY <2>1, OldestIn
<1>3. QED
  BY <1>1, <1>2

(* Rewriting a partial function gives a partial function.                  *)
LEMMA RewriteType ==
  ASSUME NEW ob, NEW gone, NEW new, NEW S, NEW T,
         PartialFunction(ob, S, T), PartialFunction(new, S, T)
  PROVE  PartialFunction(Rewrite(ob, gone, new), S, T)
BY DEF Rewrite, PartialFunction

(* A retry delay is a number of ticks.                                     *)
LEMMA BackoffDelayType ==
  ASSUME NEW n \in Nat
  PROVE  BackoffDelay(n) \in Nat
<1>1. (IF n >= 1 THEN n - 1 ELSE 0) \in Nat
  OBVIOUS
<1>2. 2 ^ (IF n >= 1 THEN n - 1 ELSE 0) \in Nat
  BY <1>1, PowerOfTwo
<1>3. QED
  BY <1>2, BoundsAssumption DEF BackoffDelay

(* Sets of eventIds are finite.                                            *)
LEMMA IdsFinite ==
  ASSUME NEW S, S \subseteq Ids
  PROVE  IsFiniteSet(S) /\ Cardinality(S) \in Nat
<1>1. IsFiniteSet(Ids)
  BY FS_Interval, BoundsAssumption DEF Ids
<1>2. QED
  BY <1>1, FS_Subset, FS_CardinalityType

-----------------------------------------------------------------------------
(* The server.                                                             *)

(* Whatever a group does to the log, no event leaves it, and what is       *)
(* answered as confirmed is in it.                                         *)
LEMMA ServerKeepsEvents ==
  ASSUME NEW group, NEW result \in ServerResults(group, Faults)
  PROVE  /\ DOMAIN log \subseteq DOMAIN result.log
         /\ \A e \in DOMAIN log : result.log[e] = log[e]
         /\ DOMAIN result.answer = Eids(group)
         /\ \A e \in Eids(group) : result.answer[e] = "confirmed" => e \in DOMAIN result.log
<1>1. CASE result = Result(Appended(group), AllConfirmed(group))
  BY <1>1 DEF Result, Appended, AllConfirmed
<1>2. ASSUME NEW refused, NEW code, code # "confirmed", result = Result(log, Aborted(group, refused, code))
      PROVE  /\ DOMAIN log \subseteq DOMAIN result.log
             /\ \A e \in DOMAIN log : result.log[e] = log[e]
             /\ DOMAIN result.answer = Eids(group)
             /\ \A e \in Eids(group) : result.answer[e] = "confirmed" => e \in DOMAIN result.log
  BY <1>2 DEF Result, Aborted
<1>3. CASE result = Result(log, AllTransient(group))
  BY <1>3 DEF Result, AllTransient
<1>4. \/ result = Result(Appended(group), AllConfirmed(group))
      \/ result = Result(log, Aborted(group, Conflicting(group), "conflict"))
      \/ \E b \in Fresh(group) : result = Result(log, Aborted(group, {b}, "rejected"))
      \/ result = Result(log, AllTransient(group))
  BY DEF ServerResults
<1>5. QED
  BY <1>1, <1>2, <1>3, <1>4

(* Appending a group leaves a well-typed log.                              *)
LEMMA AppendedType ==
  ASSUME NEW group, group \subseteq Bodies, PartialFunction(log, Ids, Stored)
  PROVE  PartialFunction(Appended(group), Ids, Stored)
<1>1. Eids(group) \subseteq Ids
  BY DEF Eids, Bodies
<1>2. ASSUME NEW e \in Eids(group) \ DOMAIN log
      PROVE  Appended(group)[e] \in Stored
  <2> DEFINE b == CHOOSE c \in group : c.eid = e
             earlier == Eids({c \in Fresh(group) : c.seq <= b.seq})
  <2>1. b \in Bodies
    BY DEF Eids
  <2>2. earlier \subseteq Ids
    BY <1>1 DEF Eids, Fresh
  <2>3. Cardinality(DOMAIN log) + Cardinality(earlier) \in Nat
    <3>1. Cardinality(DOMAIN log) \in Nat
      BY IdsFinite DEF PartialFunction
    <3>2. Cardinality(earlier) \in Nat
      BY <2>2, IdsFinite
    <3>3. QED
      BY <3>1, <3>2
  <2>4. Appended(group)[e] = StoredEvent(b, Cardinality(DOMAIN log) + Cardinality(earlier))
    BY DEF Appended
  <2> HIDE DEF earlier, b
  <2>5. QED
    BY <2>1, <2>3, <2>4 DEF StoredEvent, Stored, Bodies
<1>3. QED
  BY <1>1, <1>2 DEF Appended, PartialFunction

(* Whatever the server does with a group, log and answer keep their type.  *)
LEMMA ServerResultsType ==
  ASSUME NEW group, group \subseteq Bodies, PartialFunction(log, Ids, Stored),
         NEW result \in ServerResults(group, Faults)
  PROVE  /\ PartialFunction(result.log, Ids, Stored)
         /\ PartialFunction(result.answer, Ids, Outcomes)
<1>1. Eids(group) \subseteq Ids
  BY DEF Eids, Bodies
<1>2. CASE result = Result(Appended(group), AllConfirmed(group))
  BY <1>1, <1>2, AppendedType DEF Result, AllConfirmed, PartialFunction, Outcomes
<1>3. ASSUME NEW refused, NEW code \in Outcomes, result = Result(log, Aborted(group, refused, code))
      PROVE  /\ PartialFunction(result.log, Ids, Stored)
             /\ PartialFunction(result.answer, Ids, Outcomes)
  BY <1>1, <1>3 DEF Result, Aborted, PartialFunction, Outcomes
<1>4. CASE result = Result(log, AllTransient(group))
  BY <1>1, <1>4 DEF Result, AllTransient, PartialFunction, Outcomes
<1>5. \/ result = Result(Appended(group), AllConfirmed(group))
      \/ result = Result(log, Aborted(group, Conflicting(group), "conflict"))
      \/ \E b \in Fresh(group) : result = Result(log, Aborted(group, {b}, "rejected"))
      \/ result = Result(log, AllTransient(group))
  BY DEF ServerResults
<1>6. QED
  BY <1>2, <1>3, <1>4, <1>5 DEF Outcomes

-----------------------------------------------------------------------------
(* The mutation hook.                                                      *)

(* foldableTail takes unsynced, unreserved rows of its key only.           *)
LEMMA FoldTailUnsynced ==
  ASSUME PartialFunction(outbox, Ids, Row), NEW k
  PROVE  /\ FoldTail(k) \subseteq DOMAIN outbox
         /\ \A e \in FoldTail(k) : /\ e \in Unsynced /\ e \notin reserved
                                   /\ outbox[e].key = k
<1>1. \A e \in DOMAIN outbox : outbox[e].seq >= outbox[e].seq
  BY BoundsAssumption DEF PartialFunction, Row, Ids
<1>2. QED
  BY <1>1 DEF FoldTail, RowsOf, Unsynced

(* The rows an edit folds are unsynced, unreserved and of its key.         *)
LEMMA FoldedUnsynced ==
  ASSUME PartialFunction(outbox, Ids, Row), NEW k, NEW type
  PROVE  /\ Folded(type, k) \subseteq DOMAIN outbox
         /\ \A e \in Folded(type, k) : /\ e \in Unsynced /\ e \notin reserved
                                       /\ outbox[e].key = k
BY FoldTailUnsynced DEF Folded

(* A transaction draws one fresh id for each of its rows.                  *)
LEMMA IdOfType ==
  ASSUME TypeOK, NEW ks \in SUBSET Keys, NEW type, CanMutate(ks, type), NEW k \in ks
  PROVE  /\ IdOf(ks, k) \in Ids /\ IdOf(ks, k) >= nextId
         /\ IdOf(ks, k) < nextId + Cardinality(ks)
         /\ nextId \in Ids
<1> DEFINE below == {j \in ks : j < k}
<1>1. IsFiniteSet(ks)
  <2>1. IsFiniteSet(Keys)
    BY FS_Interval, BoundsAssumption DEF Keys
  <2>2. QED
    BY <2>1, FS_Subset
<1>2. IsFiniteSet(below) /\ Cardinality(below) <= Cardinality(ks)
      /\ (Cardinality(ks) = Cardinality(below) => ks = below)
  BY <1>1, FS_Subset
<1>3. Cardinality(below) \in Nat /\ Cardinality(ks) \in Nat
  BY <1>1, <1>2, FS_CardinalityType
<1>4. k \notin below
  BY BoundsAssumption DEF Keys
<1>5. Cardinality(below) < Cardinality(ks)
  BY <1>2, <1>3, <1>4
<1>6. nextId \in Nat /\ nextId >= 1 /\ MaxIds \in Nat /\ nextId + Cardinality(ks) <= MaxIds + 1
  BY BoundsAssumption DEF TypeOK, CanMutate
<1>7. IdOf(ks, k) = nextId + Cardinality(below)
  BY DEF IdOf
<1> HIDE DEF below
<1>8. QED
  BY <1>3, <1>5, <1>6, <1>7 DEF Ids

(* The outbox row the hook writes for a row change.                        *)
LEMMA RowForType ==
  ASSUME TypeOK, NEW ks \in SUBSET Keys, NEW type \in MutationTypes,
         CanMutate(ks, type), NEW k \in ks
  PROVE  /\ EidFor(ks, type, k) \in Ids
         /\ \/ EidFor(ks, type, k) \in Folded(type, k)
            \/ EidFor(ks, type, k) >= nextId /\ EidFor(ks, type, k) < nextId + Cardinality(ks)
         /\ RowFor(ks, type, k) \in Row
         /\ RowFor(ks, type, k).status = "pending"
         /\ IdsDrawn => RowFor(ks, type, k).seq = EidFor(ks, type, k)
<1> DEFINE chain == Folded(type, k)
<1>1. IdOf(ks, k) \in Ids /\ nextId \in Ids /\ k \in Keys
  BY IdOfType
<1>2. \A e \in DOMAIN outbox : e \in Ids /\ outbox[e] \in Row
  BY DEF TypeOK, PartialFunction
<1>3. chain \subseteq DOMAIN outbox
  BY FoldedUnsynced DEF TypeOK
<1>4. chain # {} => Anchor(outbox, chain) \in chain
  <2>1. \A e \in chain : outbox[e].seq \in Ids
    BY <1>2, <1>3 DEF Row
  <2>2. QED
    BY <2>1, AnchorIn
<1>5. chain # {} => FoldBase(outbox, chain) \in Ids \cup {NoEvent}
  <2>1. \A e \in chain : outbox[e].seq \in Ids
    BY <1>2, <1>3 DEF Row
  <2>2. chain # {} => Oldest(outbox, chain) \in chain
    BY <2>1, OldestIn
  <2>3. QED
    BY <2>2, <1>2, <1>3 DEF FoldBase, Row
<1>6. FoldedType(outbox, chain) \in MutationTypes
  BY DEF FoldedType, MutationTypes
<1>7. (IF ConflictDetection THEN heads[k] ELSE NoEvent) \in Ids \cup {NoEvent}
  BY <1>1 DEF TypeOK
<1>8. /\ EidFor(ks, type, k) \in Ids
      /\ \/ EidFor(ks, type, k) \in chain
         \/ EidFor(ks, type, k) >= nextId /\ EidFor(ks, type, k) < nextId + Cardinality(ks)
  BY <1>1, <1>2, <1>3, <1>4, IdOfType DEF EidFor
<1>9. CASE chain = {}
  <2>1. RowFor(ks, type, k) = UnsyncedRow(nextId, IdOf(ks, k), k, type, IdOf(ks, k),
                                          IF ConflictDetection THEN heads[k] ELSE NoEvent)
    BY <1>9 DEF RowFor
  <2>2. QED
    BY <1>1, <1>7, <1>8, <1>9, <2>1 DEF UnsyncedRow, Row, Statuses, EidFor
<1>10. CASE chain # {} /\ Cardinality(ks) = 1
  <2> DEFINE place == outbox[Anchor(outbox, chain)]
  <2>1. RowFor(ks, type, k) = UnsyncedRow(place.tx, place.seq, k, FoldedType(outbox, chain),
                                          IdOf(ks, k), FoldBase(outbox, chain))
    BY <1>10 DEF RowFor
  <2>2. place \in Row
    BY <1>2, <1>3, <1>4, <1>10
  <2>3. /\ place.tx \in Ids /\ place.seq \in Ids
        /\ IdsDrawn => place.seq = EidFor(ks, type, k)
    BY <1>3, <1>4, <1>10, <2>2 DEF Row, IdsDrawn, EidFor
  <2> HIDE DEF place
  <2>4. QED
    BY <1>1, <1>5, <1>6, <1>8, <1>10, <2>1, <2>3 DEF UnsyncedRow, Row, Statuses
<1>11. CASE chain # {} /\ Cardinality(ks) # 1
  <2>1. RowFor(ks, type, k) = UnsyncedRow(nextId, IdOf(ks, k), k, FoldedType(outbox, chain),
                                          IdOf(ks, k), FoldBase(outbox, chain))
    BY <1>11 DEF RowFor
  <2>2. QED
    BY <1>1, <1>5, <1>6, <1>8, <1>11, <2>1 DEF UnsyncedRow, Row, Statuses, EidFor
<1>12. QED
  BY <1>9, <1>10, <1>11

(* What the hook leaves in the outbox: rows it did not fold are as they    *)
(* were, the others are new.                                               *)
LEMMA HookWritesType ==
  ASSUME TypeOK, NEW ks \in SUBSET Keys, NEW type \in MutationTypes, CanMutate(ks, type)
  PROVE  /\ PartialFunction(HookWrites(ks, type), Ids, Row)
         /\ \A e \in DOMAIN HookWrites(ks, type) :
              IF \E k \in ks : EidFor(ks, type, k) = e
              THEN /\ HookWrites(ks, type)[e].status = "pending"
                   /\ IdsDrawn => HookWrites(ks, type)[e].seq = e
              ELSE /\ e \in DOMAIN outbox /\ HookWrites(ks, type)[e] = outbox[e]
                   /\ \A k \in ks : e \notin Folded(type, k)
         /\ \A e \in DOMAIN outbox : (\A k \in ks : e \notin Folded(type, k))
                                       => e \in DOMAIN HookWrites(ks, type)
<1> DEFINE eids == {EidFor(ks, type, k) : k \in ks}
           keyOf(e) == CHOOSE k \in ks : EidFor(ks, type, k) = e
           new == [e \in eids |-> RowFor(ks, type, keyOf(e))]
           gone == UNION {Folded(type, k) : k \in ks}
<1>1. HookWrites(ks, type) = Rewrite(outbox, gone, new)
  BY DEF HookWrites
<1>2. \A e \in eids : /\ e \in Ids /\ RowFor(ks, type, keyOf(e)) \in Row
                      /\ RowFor(ks, type, keyOf(e)).status = "pending"
                      /\ IdsDrawn => RowFor(ks, type, keyOf(e)).seq = e
  <2>1. ASSUME NEW e \in eids
        PROVE  /\ e \in Ids /\ RowFor(ks, type, keyOf(e)) \in Row
               /\ RowFor(ks, type, keyOf(e)).status = "pending"
               /\ IdsDrawn => RowFor(ks, type, keyOf(e)).seq = e
    <3>1. keyOf(e) \in ks /\ EidFor(ks, type, keyOf(e)) = e
      OBVIOUS
    <3> HIDE DEF keyOf
    <3>2. QED
      BY <3>1, RowForType
  <2>2. QED
    BY <2>1
<1> HIDE DEF keyOf
<1>3. PartialFunction(new, Ids, Row)
  BY <1>2 DEF PartialFunction
<1>4. PartialFunction(outbox, Ids, Row)
  BY DEF TypeOK
<1>5. PartialFunction(HookWrites(ks, type), Ids, Row)
  BY <1>1, <1>3, <1>4, RewriteType
<1>6. QED
  BY <1>1, <1>2, <1>5 DEF Rewrite

-----------------------------------------------------------------------------
(* compact().                                                              *)

(* A closed life consists of outbox rows of its key.                       *)
LEMMA LifeOf ==
  ASSUME NEW k, NEW life \in ClosedLives(k)
  PROVE  life \subseteq RowsOf(k) /\ life \subseteq DOMAIN outbox
BY DEF ClosedLives, Lives, RowsOf

(* A closed life loses unsynced, unreserved rows of its own, and gets back *)
(* at most one of them as a delete.                                        *)
LEMMA CollapsedIn ==
  ASSUME PartialFunction(outbox, Ids, Row), NEW k, NEW life \in ClosedLives(k)
  PROVE  /\ Collapsed(life).gone \subseteq (life \cap Unsynced) \ reserved
         /\ DOMAIN Collapsed(life).new \subseteq Collapsed(life).gone
         /\ \A e \in DOMAIN Collapsed(life).new :
              /\ Collapsed(life).new[e] \in Row
              /\ Collapsed(life).new[e].status = "pending"
              /\ Collapsed(life).new[e].seq = outbox[e].seq
<1> DEFINE suffix == UnsyncedSuffix(life)
           prefix == life \ suffix
           last   == Newest(outbox, suffix)
           row    == outbox[last]
<1>1. life \subseteq DOMAIN outbox
  BY LifeOf
<1>2. suffix \subseteq life
  BY DEF UnsyncedSuffix
<1>3. \A e \in DOMAIN outbox : e \in Ids /\ outbox[e] \in Row /\ outbox[e].seq \in Ids
  BY DEF PartialFunction, Row
<1>4. CASE ~Collapsible(life) \/ (prefix # {} /\ Cardinality(suffix) = 1)
  BY <1>4 DEF Collapsed, NoOutcome
<1>5. CASE Collapsible(life) /\ prefix = {}
  BY <1>2, <1>5 DEF Collapsed, Collapsible, NoOutcome
<1>6. CASE Collapsible(life) /\ prefix # {} /\ Cardinality(suffix) # 1
  <2> DEFINE new == UnsyncedRow(row.tx, row.seq, row.key, "delete", row.val,
                                Newest(outbox, prefix))
  <2>1. Collapsed(life) = [gone |-> suffix, new |-> One(last, new)]
    BY <1>6 DEF Collapsed
  <2>2. last \in suffix
    BY <1>1, <1>2, <1>3, <1>6, NewestIn DEF Collapsible
  <2>3. Newest(outbox, prefix) \in Ids
    BY <1>1, <1>3, <1>6, NewestIn
  <2>4. row \in Row
    BY <1>1, <1>2, <1>3, <2>2
  <2> HIDE DEF row
  <2>5. new \in Row /\ new.status = "pending" /\ new.seq = row.seq
    BY <2>3, <2>4 DEF UnsyncedRow, Row, Statuses, MutationTypes
  <2>6. row = outbox[last]
    BY DEF row
  <2> HIDE DEF new, last
  <2>7. QED
    BY <1>2, <1>6, <2>1, <2>2, <2>5, <2>6 DEF One, Collapsible
<1>7. QED
  BY <1>4, <1>5, <1>6

(* compact() of one row leaves reserved and synced rows as they are.       *)
LEMMA AfterClosedType ==
  ASSUME PartialFunction(outbox, Ids, Row), NEW k
  PROVE  /\ PartialFunction(AfterClosed(k), Ids, Row)
         /\ DOMAIN AfterClosed(k) \subseteq DOMAIN outbox
         /\ OpenLife(k) \subseteq DOMAIN AfterClosed(k)
         /\ \A e \in DOMAIN AfterClosed(k) :
              /\ AfterClosed(k)[e].status = "pending" \/ AfterClosed(k)[e] = outbox[e]
              /\ AfterClosed(k)[e].seq = outbox[e].seq
         /\ \A e \in DOMAIN outbox : e \in reserved \/ e \notin Unsynced =>
              e \in DOMAIN AfterClosed(k) /\ AfterClosed(k)[e] = outbox[e]
<1> DEFINE closed == ClosedLives(k)
           gone == UNION {Collapsed(life).gone : life \in closed}
           news == UNION {DOMAIN Collapsed(life).new : life \in closed}
           lifeOf(e) == CHOOSE life \in closed : e \in DOMAIN Collapsed(life).new
           new == [e \in news |-> Collapsed(lifeOf(e)).new[e]]
<1>1. AfterClosed(k) = Rewrite(outbox, gone, new)
  BY DEF AfterClosed
<1>2. \A life \in closed : /\ life \subseteq DOMAIN outbox
                           /\ Collapsed(life).gone \subseteq (life \cap Unsynced) \ reserved
                           /\ DOMAIN Collapsed(life).new \subseteq Collapsed(life).gone
  BY LifeOf, CollapsedIn
<1>3. \A e \in news : new[e] \in Row /\ new[e].status = "pending" /\ new[e].seq = outbox[e].seq
  <2>1. ASSUME NEW e \in news
        PROVE  new[e] \in Row /\ new[e].status = "pending" /\ new[e].seq = outbox[e].seq
    <3>1. lifeOf(e) \in closed /\ e \in DOMAIN Collapsed(lifeOf(e)).new
      OBVIOUS
    <3> HIDE DEF lifeOf
    <3>2. QED
      BY <3>1, CollapsedIn
  <2>2. QED
    BY <2>1
<1>4. gone \subseteq ((UNION closed) \cap Unsynced) \ reserved /\ news \subseteq gone
      /\ gone \subseteq DOMAIN outbox
  BY <1>2
<1>5. DOMAIN new = news
  OBVIOUS
<1>6. OpenLife(k) \subseteq DOMAIN outbox \ (UNION closed)
  BY DEF OpenLife, RowsOf
<1> HIDE DEF new, news, gone, closed
<1>7. PartialFunction(new, Ids, Row)
  BY <1>3, <1>4, <1>5 DEF PartialFunction, new
<1>8. PartialFunction(AfterClosed(k), Ids, Row)
  BY <1>1, <1>7, RewriteType
<1>9. QED
  BY <1>1, <1>3, <1>4, <1>5, <1>6, <1>8 DEF Rewrite

(* compact() adds no row, and leaves synced and reserved rows alone.       *)
LEMMA CompactedType ==
  ASSUME PartialFunction(outbox, Ids, Row), NEW k \in Keys
  PROVE  /\ PartialFunction(CompactedOutbox(k), Ids, Row)
         /\ DOMAIN CompactedOutbox(k) \subseteq DOMAIN outbox
         /\ \A e \in DOMAIN CompactedOutbox(k) :
              /\ CompactedOutbox(k)[e].status = "pending" \/ CompactedOutbox(k)[e] = outbox[e]
              /\ CompactedOutbox(k)[e].seq = outbox[e].seq
         /\ \A e \in DOMAIN outbox : e \in reserved \/ e \notin Unsynced =>
              e \in DOMAIN CompactedOutbox(k) /\ CompactedOutbox(k)[e] = outbox[e]
<1> DEFINE chain == OpenTail(k)
           ob == AfterClosed(k)
<1>1. CASE ~(Cardinality(chain) > 1)
  BY <1>1, AfterClosedType DEF CompactedOutbox
<1>2. CASE Cardinality(chain) > 1
  <2> DEFINE place == Anchor(ob, chain)
             row == UnsyncedRow(ob[place].tx, ob[place].seq, k, FoldedType(ob, chain),
                                ob[Newest(ob, chain)].val, FoldBase(ob, chain))
  <2>1. chain # {}
    BY <1>2, FS_EmptySet
  <2>2. chain \subseteq (OpenLife(k) \cap Unsynced) \ reserved
    <3>1. \A e \in OpenLife(k) : outbox[e].seq >= outbox[e].seq
      BY BoundsAssumption DEF OpenLife, RowsOf, PartialFunction, Row, Ids
    <3>2. QED
      BY <3>1 DEF OpenTail
  <2>3. chain \subseteq DOMAIN ob
    BY <2>2, AfterClosedType
  <2>4. \A e \in DOMAIN ob : e \in Ids /\ ob[e] \in Row
    BY AfterClosedType DEF PartialFunction
  <2>5. \A e \in chain : ob[e].seq \in Ids
    BY <2>3, <2>4 DEF Row
  <2> HIDE DEF ob, chain
  <2>6. place \in chain /\ Newest(ob, chain) \in chain /\ Oldest(ob, chain) \in chain
    BY <2>1, <2>5, AnchorIn, NewestIn, OldestIn
  <2>7. FoldedType(ob, chain) \in MutationTypes
    BY DEF FoldedType, MutationTypes
  <2>8. ob[place] \in Row /\ ob[Newest(ob, chain)] \in Row /\ ob[Oldest(ob, chain)] \in Row
    BY <2>3, <2>4, <2>6
  <2> HIDE DEF place
  <2>9. row \in Row /\ row.status = "pending" /\ row.seq = ob[place].seq
    BY <2>7, <2>8 DEF UnsyncedRow, Row, Statuses, FoldBase
  <2>10. CompactedOutbox(k) = Rewrite(ob, chain, One(place, row))
    BY <1>2 DEF CompactedOutbox, Squashed, ob, chain, place
  <2> HIDE DEF row
  <2>11. PartialFunction(One(place, row), Ids, Row)
    BY <2>3, <2>4, <2>6, <2>9 DEF One, PartialFunction
  <2>12. PartialFunction(CompactedOutbox(k), Ids, Row)
    BY <2>10, <2>11, AfterClosedType, RewriteType DEF ob
  <2>13. /\ DOMAIN CompactedOutbox(k) = (DOMAIN ob \ chain) \cup {place}
         /\ \A e \in DOMAIN CompactedOutbox(k) :
              CompactedOutbox(k)[e] = IF e = place THEN row ELSE ob[e]
    BY <2>10 DEF Rewrite, One
  <2>14. \A e \in chain : e \in Unsynced /\ e \notin reserved
    BY <2>2
  <2>15. QED
    BY <2>3, <2>6, <2>9, <2>12, <2>13, <2>14, AfterClosedType DEF ob
<1>3. QED
  BY <1>1, <1>2

-----------------------------------------------------------------------------
(* The push.                                                               *)

(* A push built from well-typed parts is well typed.                       *)
LEMMA PushTypeOf ==
  ASSUME NEW phase \in Phases, NEW queue \in Requests, NEW oversized \in SUBSET Ids,
         NEW todo \in Seq(Requests), NEW sent \in Requests, NEW open \in Requests,
         NEW answer, PartialFunction(answer, Ids, Outcomes),
         NEW acc, PartialFunction(acc, Ids, Outcomes),
         push' = [phase |-> phase, queue |-> queue, oversized |-> oversized, todo |-> todo,
                  sent |-> sent, open |-> open, answer |-> answer, acc |-> acc]
  PROVE  PushType(push)'
BY DEF PushType

(* The empty parts of a push have their type.                              *)
LEMMA NothingYet ==
  /\ DOMAIN NoOutcome = {} /\ PartialFunction(NoOutcome, Ids, Outcomes)
  /\ <<>> \in Seq(Requests) /\ {} \in Requests /\ {} \in SUBSET Ids
BY DEF NoOutcome, PartialFunction, Requests

(* groupByTransaction invents no event.                                    *)
LEMMA GroupsType ==
  ASSUME NEW events
  PROVE  /\ \A g \in Groups(events) : g \subseteq events
         /\ Events(Groups(events)) \subseteq events
BY DEF Groups, Events

(* What toOutboundEvent sends is well typed and keeps the eventId.         *)
LEMMA BodyType ==
  ASSUME PartialFunction(outbox, Ids, Row), NEW e \in DOMAIN outbox
  PROVE  Body(e) \in Bodies /\ Body(e).eid = e
BY DEF PartialFunction, Row, Body, Bodies

(* Groups are disjoint, and no event is in two of them.                    *)
LEMMA GroupsDisjoint ==
  ASSUME PartialFunction(outbox, Ids, Row), NEW S, S \subseteq DOMAIN outbox,
         NEW g \in Groups({Body(e) : e \in S}), NEW h \in Groups({Body(e) : e \in S}),
         g # h
  PROVE  Eids(g) \cap Eids(h) = {}
<1> DEFINE events == {Body(e) : e \in S}
<1>1. \A b \in events : b.seq \in Int
  BY BodyType, BoundsAssumption DEF Bodies, Ids
<1>2. \A b, c \in events : b.eid = c.eid => b = c
  BY BodyType
<1>3. \A b, c \in events : SameRun(events, b, c) => SameRun(events, c, b)
  BY DEF SameRun
<1> HIDE DEF events
<1>4. \A b, c, d \in events : SameRun(events, b, c) /\ SameRun(events, c, d) => SameRun(events, b, d)
  BY <1>1 DEF SameRun
<1>5. PICK b \in events, c \in events : /\ g = {x \in events : SameRun(events, b, x)}
                                        /\ h = {x \in events : SameRun(events, c, x)}
  BY DEF Groups, events
<1>6. ASSUME NEW x \in g, x \in h PROVE FALSE
  <2>1. SameRun(events, b, x) /\ SameRun(events, c, x) /\ x \in events
    BY <1>5, <1>6
  <2>2. SameRun(events, b, c) /\ SameRun(events, c, b)
    BY <1>3, <1>4, <2>1
  <2>3. g = h
    BY <1>4, <1>5, <2>2
  <2>4. QED
    BY <2>3
<1>7. g \subseteq events /\ h \subseteq events
  BY <1>5
<1>8. QED
  BY <1>2, <1>6, <1>7 DEF Eids

(* Marking changes no body.                                                *)
LEMMA MarkedType ==
  ASSUME PartialFunction(outbox, Ids, Row), NEW S
  PROVE  /\ PartialFunction(Marked(S), Ids, Row)
         /\ DOMAIN Marked(S) = DOMAIN outbox
         /\ \A e \in DOMAIN outbox : \/ Marked(S)[e] = outbox[e]
                                     \/ /\ Marked(S)[e].status = "pending"
                                        /\ Marked(S)[e].seq = outbox[e].seq
                                        /\ Marked(S)[e].tx = outbox[e].tx
                                        /\ Marked(S)[e].key = outbox[e].key
                                        /\ Marked(S)[e].type = outbox[e].type
                                        /\ Marked(S)[e].val = outbox[e].val
                                        /\ Marked(S)[e].base = outbox[e].base
<1>1. \A e \in DOMAIN outbox : outbox[e] \in Row /\ e \in Ids
  BY DEF PartialFunction
<1>2. DOMAIN Marked(S) = DOMAIN outbox
  BY DEF Marked
<1> DEFINE marked(r) == [r EXCEPT !.status = "pending", !.attempts = r.attempts + 1, !.wait = 0]
<1>3. ASSUME NEW r \in Row
      PROVE  /\ marked(r) \in Row
             /\ marked(r).status = "pending" /\ marked(r).seq = r.seq /\ marked(r).tx = r.tx
             /\ marked(r).key = r.key /\ marked(r).type = r.type /\ marked(r).val = r.val
             /\ marked(r).base = r.base
  <2>1. r.attempts + 1 \in Nat
    BY DEF Row
  <2>2. QED
    BY <2>1 DEF Row, Statuses
<1>4. \A e \in DOMAIN outbox :
        Marked(S)[e] = IF e \in S THEN marked(outbox[e]) ELSE outbox[e]
  BY DEF Marked
<1>5. Marked(S) = [e \in DOMAIN outbox |-> Marked(S)[e]]
  BY DEF Marked
<1> HIDE DEF marked
<1>6. PartialFunction(Marked(S), Ids, Row)
  BY <1>1, <1>3, <1>4, <1>5 DEF PartialFunction
<1>7. QED
  BY <1>1, <1>2, <1>3, <1>4, <1>6

(* Parking outbox rows leaves well-typed dead letters.                     *)
LEMMA ParkedType ==
  ASSUME PartialFunction(outbox, Ids, Row), PartialFunction(deadletter, Ids, Row),
         NEW S, S \subseteq DOMAIN outbox
  PROVE  PartialFunction(Parked(S), Ids, Row)
BY DEF Parked, PartialFunction

(* Restoring the heads of refused rows keeps their type.                   *)
LEMMA RestoredHeadsType ==
  ASSUME TypeOK, NEW S, S \subseteq DOMAIN outbox
  PROVE  RestoredHeads(S) \in [Keys -> Ids \cup {NoEvent}]
<1>1. \A e \in DOMAIN outbox : outbox[e].seq \in Ids /\ outbox[e].base \in Ids \cup {NoEvent}
  BY DEF TypeOK, PartialFunction, Row
<1>2. ASSUME NEW k \in Keys
      PROVE  RestoredHeads(S)[k] \in Ids \cup {NoEvent}
  <2> DEFINE mine == {e \in S : outbox[e].key = k}
  <2>1. CASE mine = {}
    BY <2>1 DEF RestoredHeads, TypeOK
  <2>2. CASE mine # {}
    <3>1. Newest(outbox, mine) \in mine
      BY <1>1, <2>2, NewestIn
    <3>2. QED
      BY <1>1, <2>2, <3>1 DEF RestoredHeads
  <2>3. QED
    BY <2>1, <2>2
<1>3. QED
  BY <1>2 DEF RestoredHeads

(* Applying outcomes touches only the rows they are for, and marks as      *)
(* synced only what was confirmed.                                         *)
LEMMA AppliedType ==
  ASSUME PartialFunction(outbox, Ids, Row), PartialFunction(push.acc, Ids, Outcomes),
         NEW P, P \subseteq DOMAIN push.acc \cap DOMAIN outbox
  PROVE  /\ PartialFunction(Applied(P), Ids, Row)
         /\ DOMAIN Applied(P) = DOMAIN outbox \ Gone(P)
         /\ Gone(P) \subseteq P
         /\ \A e \in DOMAIN outbox \ P : e \in DOMAIN Applied(P) /\ Applied(P)[e] = outbox[e]
         /\ \A e \in P \cap DOMAIN Applied(P) :
              /\ Applied(P)[e].seq = outbox[e].seq
              /\ Applied(P)[e].status = "failed" \/ push.acc[e] = "confirmed"
<1>1. \A e \in DOMAIN outbox : outbox[e] \in Row /\ e \in Ids /\ outbox[e].attempts \in Nat
  BY DEF PartialFunction, Row
<1>2. \A e \in DOMAIN outbox : BackoffDelay(outbox[e].attempts) \in Nat
  BY <1>1, BackoffDelayType
<1>3. \A e \in DOMAIN outbox :
        /\ AppliedRow(e) \in Row /\ AppliedRow(e).seq = outbox[e].seq
        /\ AppliedRow(e).status = "failed" \/ push.acc[e] = "confirmed"
  BY <1>1, <1>2 DEF AppliedRow, Row, Statuses
<1>4. Gone(P) \subseteq P
  BY DEF Gone
<1>5. QED
  BY <1>1, <1>3, <1>4 DEF Applied, PartialFunction

(* A request is never empty handed: it has a first group with a first      *)
(* event.                                                                  *)
LEMMA Head1In ==
  ASSUME NEW groups \in Requests, groups # {}, {} \notin groups
  PROVE  Head1(groups) \in groups
<1>1. ASSUME NEW g \in groups PROVE First(g).seq \in Nat
  <2>1. g \subseteq Bodies /\ g # {}
    BY DEF Requests
  <2> DEFINE T == {b.seq : b \in g}
  <2>2. T \subseteq Nat /\ T # {}
    <3>1. \A b \in g : b.seq \in Nat
      BY <2>1, BoundsAssumption DEF Bodies, Ids
    <3>2. QED
      BY <2>1, <3>1
  <2>3. PICK x \in T : \A y \in T : x <= y
    BY <2>2, MinExists
  <2>4. PICK b \in g : x = b.seq
    OBVIOUS
  <2>5. \A c \in g : b.seq <= c.seq
    BY <2>3, <2>4
  <2>6. First(g) \in g
    BY <2>5 DEF First
  <2>7. QED
    BY <2>2, <2>6
<1> DEFINE U == {First(g).seq : g \in groups}
<1>2. U \subseteq Nat /\ U # {}
  BY <1>1
<1>3. PICK x \in U : \A y \in U : x <= y
  BY <1>2, MinExists
<1>4. PICK g \in groups : x = First(g).seq
  OBVIOUS
<1>5. \A h \in groups : First(g).seq <= First(h).seq
  BY <1>3, <1>4
<1>6. QED
  BY <1>5 DEF Head1

(* Later outcomes replace earlier ones, event by event.                    *)
LEMMA OverrideType ==
  ASSUME NEW f, NEW g, PartialFunction(f, Ids, Outcomes), PartialFunction(g, Ids, Outcomes)
  PROVE  /\ PartialFunction(Override(f, g), Ids, Outcomes)
         /\ DOMAIN Override(f, g) = DOMAIN f \cup DOMAIN g
         /\ \A e \in DOMAIN Override(f, g) :
              Override(f, g)[e] = IF e \in DOMAIN g THEN g[e] ELSE f[e]
BY DEF Override, PartialFunction

(* The same outcome for a set of events is well typed.                     *)
LEMMA SameType ==
  ASSUME NEW S, S \subseteq Ids, NEW outcome \in Outcomes
  PROVE  PartialFunction(Same(S, outcome), Ids, Outcomes)
BY DEF Same, PartialFunction

(* The events of a request, and their ids, have their type.                *)
LEMMA EidsOfGroups ==
  ASSUME NEW groups \in Requests
  PROVE  /\ Events(groups) \subseteq Bodies
         /\ Eids(Events(groups)) \subseteq Ids
BY DEF Requests, Events, Eids, Bodies

-----------------------------------------------------------------------------
(* What each kind of step does to the push.                                *)

PushInv == /\ PushType(push) /\ WholeGroups /\ AnswersSent /\ GroupsApart /\ QueueApart

(* The push comes to rest.                                                 *)
LEMMA RestingPush ==
  ASSUME NEW rest \in Phases, push' = Resting(rest),
         \A r \in late' : r # {} /\ {} \notin r
  PROVE  /\ PushInv' /\ InFlight' = {}
         /\ push'.oversized = {} /\ DOMAIN push'.acc = {} /\ DOMAIN push'.answer = {}
<1>1. /\ push'.queue = {} /\ push'.sent = {} /\ push'.open = {} /\ push'.todo = <<>>
      /\ push'.oversized = {} /\ push'.acc = NoOutcome /\ push'.answer = NoOutcome
      /\ push'.phase = rest
  BY DEF Resting
<1>2. PushType(push)'
  BY NothingYet, PushTypeOf DEF Resting
<1>3. Posted' = {}
  BY <1>1 DEF Posted
<1>4. DOMAIN NoOutcome = {}
  BY DEF NoOutcome
<1>5. QED
  BY <1>1, <1>2, <1>3, <1>4
     DEF PushInv, WholeGroups, AnswersSent, GroupsApart, QueueApart, InFlight, Events, Eids

(* The next batch of the queue goes on the wire.                           *)
LEMMA PostingPush ==
  ASSUME PushInv, push' = Posting(push), late' = late
  PROVE  /\ PushInv' /\ InFlight' \subseteq Events(push.queue)
         /\ push'.oversized = {} /\ DOMAIN push'.acc = {} /\ DOMAIN push'.answer = {}
<1>1. CASE push.queue = {}
  <2>1. push' = Resting("release") /\ "release" \in Phases
    BY <1>1 DEF Posting, Phases
  <2>2. \A r \in late' : r # {} /\ {} \notin r
    BY DEF PushInv, WholeGroups
  <2>3. QED
    BY <2>1, <2>2, RestingPush
<1>2. CASE push.queue # {}
  <2> DEFINE batch == NextBatch(push.queue)
  <2>1. batch \subseteq push.queue
    BY DEF NextBatch
  <2>2. push.queue \in Requests
    BY DEF PushInv, PushType
  <2>3. push' = [IdlePush EXCEPT !.phase = "waiting", !.queue = push.queue \ batch,
                                 !.sent = batch, !.open = batch]
    BY <1>2 DEF Posting
  <2> HIDE DEF batch
  <2>4. /\ push'.queue = push.queue \ batch /\ push'.sent = batch /\ push'.open = batch
        /\ push'.todo = <<>> /\ push'.oversized = {} /\ push'.acc = NoOutcome
        /\ push'.answer = NoOutcome
    BY <2>3 DEF IdlePush, Resting
  <2>5. batch \in Requests /\ push.queue \ batch \in Requests
    BY <2>1, <2>2 DEF Requests
  <2>6. PushType(push)'
    <3>1. push' = [phase |-> "waiting", queue |-> push.queue \ batch, oversized |-> {},
                   todo |-> <<>>, sent |-> batch, open |-> batch, answer |-> NoOutcome,
                   acc |-> NoOutcome]
      BY <2>3 DEF IdlePush, Resting
    <3>2. "waiting" \in Phases
      BY DEF Phases
    <3>3. QED
      BY <2>5, <3>1, <3>2, NothingYet, PushTypeOf
  <2>7. Posted' = batch
    BY <2>4 DEF Posted
  <2>8. DOMAIN NoOutcome = {}
    BY DEF NoOutcome
  <2>9. WholeGroups' /\ AnswersSent'
    BY <2>1, <2>4, <2>7, <2>8 DEF PushInv, WholeGroups, AnswersSent
  <2>10. GroupsApart'
    BY <2>4 DEF PushInv, GroupsApart
  <2>11. Eids(Events(push.queue \ batch)) \cap Eids(Events(batch)) = {}
    <3>1. ASSUME NEW b \in Events(push.queue \ batch), NEW c \in Events(batch), b.eid = c.eid
          PROVE  FALSE
      <4>1. PICK g \in push.queue \ batch : b \in g
        BY DEF Events
      <4>2. PICK h \in batch : c \in h
        BY DEF Events
      <4>3. g # h /\ h \in push.queue /\ b.eid \in Eids(g) /\ b.eid \in Eids(h)
        BY <2>1, <3>1, <4>1, <4>2 DEF Eids
      <4>4. QED
        BY <4>1, <4>3 DEF PushInv, GroupsApart
    <3>2. QED
      BY <3>1 DEF Eids
  <2>12. QueueApart'
    BY <2>4, <2>7, <2>8, <2>11 DEF QueueApart
  <2>13. InFlight' \subseteq Events(push.queue)
    BY <2>1, <2>4, <2>7 DEF InFlight, Events
  <2>14. QED
    BY <2>4, <2>6, <2>8, <2>9, <2>10, <2>12, <2>13 DEF PushInv
<1>3. QED
  BY <1>1, <1>2

-----------------------------------------------------------------------------
(* Steps.                                                                  *)

SameEvent(r, s) == /\ r.tx = s.tx /\ r.seq = s.seq /\ r.key = s.key
                   /\ r.type = s.type /\ r.val = s.val /\ r.base = s.base

(* A step keeps what is in flight if it leaves the sent rows unsynced, in  *)
(* the outbox, reserved and with their bodies.                             *)
LEMMA FlightKept ==
  ASSUME InFlightStable, InFlight' \subseteq InFlight,
         \A b \in InFlight' : b.eid \in reserved => b.eid \in reserved',
         \A b \in InFlight' :
           b.eid \in Unsynced => /\ b.eid \in Unsynced'
                                 /\ SameEvent(outbox[b.eid], outbox'[b.eid])
  PROVE  InFlightStable'
<1>1. ASSUME NEW b \in InFlight'
      PROVE  /\ b.eid \in reserved' \cap Unsynced'
             /\ b = Body(b.eid)'
  <2>1. b.eid \in reserved \cap Unsynced /\ b = Body(b.eid)
    BY <1>1 DEF InFlightStable
  <2>2. b.eid \in Unsynced' /\ SameEvent(outbox[b.eid], outbox'[b.eid])
    BY <1>1, <2>1
  <2>3. Body(b.eid)' = Body(b.eid)
    BY <2>2 DEF Body, SameEvent
  <2>4. QED
    BY <1>1, <2>1, <2>2, <2>3
<1>2. QED
  BY <1>1 DEF InFlightStable

(* Steps of the user, the compactor and the server leave the push alone.   *)
LEMMA PushLeftAlone ==
  ASSUME Inv, push' = push, reserved' = reserved, DOMAIN log \subseteq DOMAIN log',
         \A r \in late' : r # {} /\ {} \notin r,
         \A e \in reserved \cap DOMAIN outbox :
           /\ e \in DOMAIN outbox' /\ SameEvent(outbox[e], outbox'[e])
           /\ outbox'[e].status = outbox[e].status
  PROVE  PushInv' /\ OversizedHeld' /\ ConfirmedIsStored' /\ InFlightStable'
<1>1. PushType(push)'
  BY DEF Inv, TypeOK, PushType
<1>2. Posted' = Posted /\ InFlight' = InFlight
  BY DEF Posted, InFlight
<1>3. PushInv'
  BY <1>1, <1>2 DEF Inv, PushInv, WholeGroups, AnswersSent, GroupsApart, QueueApart
<1>4. OversizedHeld' /\ ConfirmedIsStored'
  BY DEF Inv, OversizedHeld, ConfirmedIsStored
<1>5. ASSUME NEW b \in InFlight', b.eid \in Unsynced
      PROVE  b.eid \in Unsynced' /\ SameEvent(outbox[b.eid], outbox'[b.eid])
  <2>1. b.eid \in reserved \cap DOMAIN outbox
    BY <1>2, <1>5 DEF Inv, InFlightStable, Unsynced
  <2>2. QED
    BY <1>5, <2>1 DEF Unsynced
<1>6. InFlightStable'
  BY <1>2, <1>5, FlightKept DEF Inv
<1>7. QED
  BY <1>3, <1>4, <1>6

(* A user transaction.                                                     *)
LEMMA MutateInv ==
  ASSUME Inv, NEW ks \in SUBSET Keys, NEW type \in MutationTypes, Mutate(ks, type)
  PROVE  Inv'
<1>1. TypeOK /\ CanMutate(ks, type) /\ IdsDrawn
  BY DEF Inv, Mutate
<1>2. /\ outbox' = HookWrites(ks, type)
      /\ nextId' = nextId + Cardinality(ks)
      /\ log' = log /\ deadletter' = deadletter /\ reserved' = reserved
      /\ compacting' = compacting /\ push' = push /\ late' = late /\ crashes' = crashes
      /\ heads' = [k \in Keys |-> IF ConflictDetection /\ k \in ks
                                  THEN EidFor(ks, type, k) ELSE heads[k]]
      /\ local' = [k \in Keys |-> IF k \in ks
                                  THEN [val |-> IdOf(ks, k), live |-> type # "delete"]
                                  ELSE local[k]]
  BY DEF Mutate, Stamped
<1>3. Cardinality(ks) \in Nat
  <2>1. IsFiniteSet(Keys)
    BY FS_Interval, BoundsAssumption DEF Keys
  <2>2. QED
    BY <2>1, FS_Subset, FS_CardinalityType
<1>4. /\ PartialFunction(outbox', Ids, Row)
      /\ \A e \in DOMAIN outbox' :
           IF \E k \in ks : EidFor(ks, type, k) = e
           THEN outbox'[e].status = "pending" /\ outbox'[e].seq = e
           ELSE e \in DOMAIN outbox /\ outbox'[e] = outbox[e]
      /\ \A e \in DOMAIN outbox : (\A k \in ks : e \notin Folded(type, k))
                                   => e \in DOMAIN outbox'
  <2> DEFINE ob == HookWrites(ks, type)
  <2>1. /\ PartialFunction(ob, Ids, Row)
        /\ \A e \in DOMAIN ob :
             IF \E k \in ks : EidFor(ks, type, k) = e
             THEN /\ ob[e].status = "pending"
                  /\ IdsDrawn => ob[e].seq = e
             ELSE /\ e \in DOMAIN outbox /\ ob[e] = outbox[e]
                  /\ \A k \in ks : e \notin Folded(type, k)
        /\ \A e \in DOMAIN outbox : (\A k \in ks : e \notin Folded(type, k)) => e \in DOMAIN ob
    BY <1>1, HookWritesType
  <2>2. outbox' = ob
    BY <1>2
  <2> HIDE DEF ob
  <2>3. QED
    BY <1>1, <2>1, <2>2
<1>5. \A k \in ks : /\ EidFor(ks, type, k) \in Ids
                    /\ \/ EidFor(ks, type, k) \in Folded(type, k)
                       \/ /\ EidFor(ks, type, k) >= nextId
                          /\ EidFor(ks, type, k) < nextId + Cardinality(ks)
  BY <1>1, RowForType
<1>6. \A k : /\ Folded(type, k) \subseteq DOMAIN outbox
            /\ \A e \in Folded(type, k) : e \in Unsynced /\ e \notin reserved
  BY <1>1, FoldedUnsynced DEF TypeOK
<1>7. nextId \in Nat /\ nextId >= 1 /\ \A e \in DOMAIN outbox \cup reserved : e < nextId /\ e \in Ids
  BY <1>1 DEF TypeOK, IdsDrawn, PartialFunction
<1>8. Ids \subseteq Nat
  BY DEF Ids
<1>9. TypeOK'
  <2>1. heads' \in [Keys -> Ids \cup {NoEvent}]
    BY <1>1, <1>2, <1>5 DEF TypeOK
  <2>2. local' \in [Keys -> [val : Ids \cup {NoEvent}, live : BOOLEAN]]
    BY <1>1, <1>2, IdOfType DEF TypeOK
  <2>3. nextId' \in Nat /\ nextId' >= 1 /\ nextId' <= MaxIds + 1
    BY <1>1, <1>2, <1>3, <1>7 DEF CanMutate
  <2>4. QED
    BY <1>1, <1>2, <1>4, <2>1, <2>2, <2>3 DEF TypeOK, PushType
<1>10. IdsDrawn'
  <2>1. ASSUME NEW e \in DOMAIN outbox' \cup reserved'
        PROVE  e < nextId'
    <3>1. CASE e \in DOMAIN outbox \cup reserved
      <4>1. e < nextId /\ e \in Nat /\ nextId \in Nat /\ nextId' = nextId + Cardinality(ks)
        BY <1>2, <1>7, <1>8, <3>1
      <4>2. QED
        BY <1>3, <4>1
    <3>2. CASE e \notin DOMAIN outbox \cup reserved
      <4>1. PICK k \in ks : EidFor(ks, type, k) = e
        BY <1>2, <1>4, <2>1, <3>2
      <4>2. QED
        BY <1>2, <1>5, <1>6, <3>2, <4>1
    <3>3. QED
      BY <3>1, <3>2
  <2>2. \A e \in DOMAIN outbox' : outbox'[e].seq = e
    BY <1>1, <1>4 DEF IdsDrawn
  <2>3. QED
    BY <2>1, <2>2 DEF IdsDrawn
<1>11. SyncedIsStored'
  BY <1>2, <1>4 DEF Inv, SyncedIsStored, Unsynced
<1>12. ASSUME NEW e \in reserved \cap DOMAIN outbox
       PROVE  /\ e \in DOMAIN outbox' /\ SameEvent(outbox[e], outbox'[e])
              /\ outbox'[e].status = outbox[e].status
  <2>1. \A k \in ks : e \notin Folded(type, k) /\ EidFor(ks, type, k) # e
    <3>1. \A k \in ks : e \notin Folded(type, k)
      BY <1>6
    <3>2. e < nextId /\ e \in Nat
      BY <1>7, <1>8
    <3>3. ASSUME NEW k \in ks, EidFor(ks, type, k) = e PROVE FALSE
      <4>1. e >= nextId /\ nextId \in Nat
        BY <1>5, <1>7, <3>1, <3>3
      <4>2. QED
        BY <3>2, <4>1
    <3>4. QED
      BY <3>1, <3>3
  <2>2. e \in DOMAIN outbox' /\ outbox'[e] = outbox[e]
    BY <1>4, <2>1
  <2>3. QED
    BY <2>2 DEF SameEvent
<1>13. \A r \in late' : r # {} /\ {} \notin r
  BY <1>2 DEF Inv, WholeGroups
<1>14. PushInv' /\ OversizedHeld' /\ ConfirmedIsStored' /\ InFlightStable'
  BY <1>2, <1>12, <1>13, PushLeftAlone
<1>15. QED
  BY <1>9, <1>10, <1>11, <1>14 DEF Inv, PushInv

(* compact() takes the gate.                                               *)
LEMMA StartCompactInv ==
  ASSUME Inv, StartCompact
  PROVE  Inv'
<1>1. /\ log' = log /\ outbox' = outbox /\ deadletter' = deadletter /\ local' = local
      /\ heads' = heads /\ nextId' = nextId /\ reserved' = reserved /\ push' = push
      /\ late' = late /\ crashes' = crashes
      /\ compacting' = {outbox[e].key : e \in DOMAIN outbox}
  BY DEF StartCompact
<1>2. compacting' \subseteq Keys
  BY <1>1 DEF Inv, TypeOK, PartialFunction, Row
<1>3. TypeOK' /\ IdsDrawn' /\ SyncedIsStored'
  BY <1>1, <1>2 DEF Inv, TypeOK, PushType, IdsDrawn, SyncedIsStored, Unsynced
<1>4. \A r \in late' : r # {} /\ {} \notin r
  BY <1>1 DEF Inv, WholeGroups
<1>5. PushInv' /\ OversizedHeld' /\ ConfirmedIsStored' /\ InFlightStable'
  BY <1>1, <1>4, PushLeftAlone DEF SameEvent
<1>6. QED
  BY <1>3, <1>5 DEF Inv, PushInv

(* compact() rewrites the events of one row.                               *)
LEMMA CompactKeyInv ==
  ASSUME Inv, NEW k \in Keys, CompactKey(k)
  PROVE  Inv'
<1>1. /\ log' = log /\ deadletter' = deadletter /\ local' = local
      /\ heads' = heads /\ nextId' = nextId /\ reserved' = reserved /\ push' = push
      /\ late' = late /\ crashes' = crashes /\ compacting' = compacting \ {k}
  BY DEF CompactKey
<1>2. /\ PartialFunction(outbox', Ids, Row)
      /\ DOMAIN outbox' \subseteq DOMAIN outbox
      /\ \A e \in DOMAIN outbox' :
           /\ outbox'[e].status = "pending" \/ outbox'[e] = outbox[e]
           /\ outbox'[e].seq = outbox[e].seq
      /\ \A e \in DOMAIN outbox : e \in reserved \/ e \notin Unsynced =>
           e \in DOMAIN outbox' /\ outbox'[e] = outbox[e]
  <2> DEFINE ob == CompactedOutbox(k)
  <2>1. PartialFunction(outbox, Ids, Row)
    BY DEF Inv, TypeOK
  <2>2. /\ PartialFunction(ob, Ids, Row)
        /\ DOMAIN ob \subseteq DOMAIN outbox
        /\ \A e \in DOMAIN ob :
             /\ ob[e].status = "pending" \/ ob[e] = outbox[e]
             /\ ob[e].seq = outbox[e].seq
        /\ \A e \in DOMAIN outbox : e \in reserved \/ e \notin Unsynced =>
             e \in DOMAIN ob /\ ob[e] = outbox[e]
    BY <2>1, CompactedType
  <2>3. outbox' = ob
    BY DEF CompactKey
  <2> HIDE DEF ob
  <2>4. QED
    BY <2>2, <2>3
<1>3. TypeOK'
  BY <1>1, <1>2 DEF Inv, TypeOK, PushType
<1>4. IdsDrawn'
  BY <1>1, <1>2 DEF Inv, IdsDrawn
<1>5. SyncedIsStored'
  BY <1>1, <1>2 DEF Inv, SyncedIsStored, Unsynced
<1>6. \A r \in late' : r # {} /\ {} \notin r
  BY <1>1 DEF Inv, WholeGroups
<1>7. \A e \in reserved \cap DOMAIN outbox :
        /\ e \in DOMAIN outbox' /\ SameEvent(outbox[e], outbox'[e])
        /\ outbox'[e].status = outbox[e].status
  BY <1>2 DEF SameEvent
<1>8. PushInv' /\ OversizedHeld' /\ ConfirmedIsStored' /\ InFlightStable'
  BY <1>1, <1>6, <1>7, PushLeftAlone
<1>9. QED
  BY <1>3, <1>4, <1>5, <1>8 DEF Inv, PushInv

(* Time passes.                                                            *)
LEMMA BackoffTickInv ==
  ASSUME Inv, BackoffTick
  PROVE  Inv'
<1>1. /\ log' = log /\ deadletter' = deadletter /\ local' = local /\ heads' = heads
      /\ nextId' = nextId /\ reserved' = reserved /\ push' = push /\ late' = late
      /\ crashes' = crashes /\ compacting' = compacting
      /\ outbox' = [e \in DOMAIN outbox |->
                      [outbox[e] EXCEPT
                         !.wait = IF outbox[e].wait > 0 THEN outbox[e].wait - 1 ELSE 0]]
  BY DEF BackoffTick
<1>2. PartialFunction(outbox, Ids, Row)
  BY DEF Inv, TypeOK
<1>3. /\ DOMAIN outbox' = DOMAIN outbox
      /\ \A e \in DOMAIN outbox : /\ outbox'[e] \in Row
                                  /\ SameEvent(outbox[e], outbox'[e])
                                  /\ outbox'[e].status = outbox[e].status
  <2>1. DOMAIN outbox' = DOMAIN outbox
    BY <1>1
  <2>2. ASSUME NEW e \in DOMAIN outbox
        PROVE  /\ outbox'[e] \in Row
               /\ SameEvent(outbox[e], outbox'[e])
               /\ outbox'[e].status = outbox[e].status
    <3> DEFINE left == IF outbox[e].wait > 0 THEN outbox[e].wait - 1 ELSE 0
    <3>1. outbox[e] \in Row
      BY <1>2 DEF PartialFunction
    <3>2. left \in Nat
      BY <3>1 DEF Row
    <3>3. outbox'[e] = [outbox[e] EXCEPT !.wait = left]
      BY <1>1
    <3> HIDE DEF left
    <3>4. QED
      BY <3>1, <3>2, <3>3 DEF Row, SameEvent
  <2>3. QED
    BY <2>1, <2>2
<1>4. PartialFunction(outbox', Ids, Row)
  BY <1>1, <1>2, <1>3 DEF PartialFunction
<1>5. TypeOK'
  BY <1>1, <1>4 DEF Inv, TypeOK, PushType
<1>6. IdsDrawn'
  BY <1>1, <1>3 DEF Inv, IdsDrawn, SameEvent
<1>7. SyncedIsStored'
  BY <1>1, <1>3 DEF Inv, SyncedIsStored, Unsynced
<1>8. \A r \in late' : r # {} /\ {} \notin r
  BY <1>1 DEF Inv, WholeGroups
<1>9. PushInv' /\ OversizedHeld' /\ ConfirmedIsStored' /\ InFlightStable'
  BY <1>1, <1>3, <1>8, PushLeftAlone
<1>10. QED
  BY <1>5, <1>6, <1>7, <1>9 DEF Inv, PushInv

(* A request the client gave up on reaches the server.                     *)
LEMMA ServeLateInv ==
  ASSUME Inv, ServeLate
  PROVE  Inv'
<1>1. /\ outbox' = outbox /\ deadletter' = deadletter /\ local' = local /\ heads' = heads
      /\ nextId' = nextId /\ reserved' = reserved /\ compacting' = compacting /\ push' = push
      /\ crashes' = crashes
  BY DEF ServeLate
<1>2. PICK r \in late :
        /\ late' = (late \ {r}) \cup (IF r = {Head1(r)} THEN {} ELSE {r \ {Head1(r)}})
        /\ \E result \in ServerResults(Head1(r), Faults) : log' = result.log
  BY DEF ServeLate
<1>3. r \in Requests /\ r # {} /\ {} \notin r
  BY DEF Inv, TypeOK, WholeGroups
<1>4. Head1(r) \in r /\ Head1(r) \subseteq Bodies
  BY <1>3, Head1In DEF Requests
<1>5. PICK result \in ServerResults(Head1(r), Faults) : log' = result.log
  BY <1>2
<1>6. PartialFunction(log, Ids, Stored)
  BY DEF Inv, TypeOK
<1>7. PartialFunction(log', Ids, Stored)
  BY <1>4, <1>5, <1>6, ServerResultsType
<1>8. DOMAIN log \subseteq DOMAIN log'
  BY <1>5, ServerKeepsEvents
<1>9. late' \subseteq Requests /\ \A q \in late' : q # {} /\ {} \notin q
  <2>1. \A q \in late : q \in Requests /\ q # {} /\ {} \notin q
    BY DEF Inv, TypeOK, WholeGroups
  <2>2. CASE r = {Head1(r)}
    BY <1>2, <2>1, <2>2
  <2>3. CASE r # {Head1(r)}
    <3>1. r \ {Head1(r)} # {} /\ r \ {Head1(r)} \in Requests /\ {} \notin r \ {Head1(r)}
      BY <1>3, <1>4, <2>3 DEF Requests
    <3>2. QED
      BY <1>2, <2>1, <2>3, <3>1
  <2>4. QED
    BY <2>2, <2>3
<1>10. TypeOK'
  BY <1>1, <1>7, <1>9 DEF Inv, TypeOK, PushType
<1>11. IdsDrawn' /\ SyncedIsStored'
  BY <1>1, <1>8 DEF Inv, IdsDrawn, SyncedIsStored, Unsynced
<1>12. PushInv' /\ OversizedHeld' /\ ConfirmedIsStored' /\ InFlightStable'
  BY <1>1, <1>8, <1>9, PushLeftAlone DEF SameEvent
<1>13. QED
  BY <1>10, <1>11, <1>12 DEF Inv, PushInv

(* A push that has come to rest has nothing left to go wrong.              *)
LEMMA AtRest ==
  ASSUME NEW rest \in Phases, push' = Resting(rest), \A r \in late' : r # {} /\ {} \notin r
  PROVE  PushInv' /\ OversizedHeld' /\ ConfirmedIsStored' /\ InFlightStable'
<1>1. /\ PushInv' /\ InFlight' = {}
      /\ push'.oversized = {} /\ DOMAIN push'.acc = {} /\ DOMAIN push'.answer = {}
  BY RestingPush
<1>2. QED
  BY <1>1 DEF OversizedHeld, ConfirmedIsStored, InFlightStable

(* Giving the reservations back at the end of a push.                      *)
LEMMA ReleaseReservedInv ==
  ASSUME Inv, ReleaseReserved
  PROVE  Inv'
<1>1. /\ log' = log /\ outbox' = outbox /\ deadletter' = deadletter /\ local' = local
      /\ heads' = heads /\ nextId' = nextId /\ compacting' = compacting /\ late' = late
      /\ crashes' = crashes /\ reserved' = {} /\ push' = Resting("idle")
  BY DEF ReleaseReserved, IdlePush
<1>2. \A r \in late' : r # {} /\ {} \notin r
  BY <1>1 DEF Inv, WholeGroups
<1>3. "idle" \in Phases
  BY DEF Phases
<1>4. PushInv' /\ OversizedHeld' /\ ConfirmedIsStored' /\ InFlightStable'
  BY <1>1, <1>2, <1>3, AtRest
<1>5. TypeOK'
  BY <1>1, <1>4 DEF Inv, TypeOK, PushInv
<1>6. IdsDrawn' /\ SyncedIsStored'
  BY <1>1 DEF Inv, IdsDrawn, SyncedIsStored, Unsynced
<1>7. QED
  BY <1>4, <1>5, <1>6 DEF Inv, PushInv

(* What an abandoned request leaves on the network.                        *)
LEMMA AbandonedType ==
  ASSUME Inv, NEW l \in Abandoned
  PROVE  l \subseteq Requests /\ \A r \in l : r # {} /\ {} \notin r
<1>1. late \subseteq Requests /\ \A r \in late : r # {} /\ {} \notin r
  BY DEF Inv, TypeOK, WholeGroups
<1>2. push.open \in Requests /\ {} \notin push.open
  BY DEF Inv, TypeOK, PushType, WholeGroups, AnswersSent, Posted
<1>3. l = late \/ (push.open # {} /\ l = late \cup {push.open})
  BY DEF Abandoned
<1>4. QED
  BY <1>1, <1>2, <1>3

(* A restart keeps the invariant if what it finds on disk is well formed.  *)
LEMMA RestartInv ==
  ASSUME Inv, Restart,
         PartialFunction(outbox', Ids, Row), PartialFunction(deadletter', Ids, Row),
         heads' \in [Keys -> Ids \cup {NoEvent}],
         nextId' \in Nat /\ nextId' >= 1 /\ nextId' <= MaxIds + 1,
         \A e \in DOMAIN outbox' : /\ e < nextId' /\ outbox'[e].seq = e
                                   /\ \/ e \in DOMAIN outbox
                                         /\ outbox'[e].status = outbox[e].status
                                      \/ outbox'[e].status # "synced"
                                      \/ e \in DOMAIN log
  PROVE  Inv'
<1>1. /\ log' = log /\ local' = local /\ compacting' = {}
      /\ reserved' = {} /\ push' = Resting("idle")
      /\ crashes' = crashes + 1
      /\ late' \in Abandoned \/ late' = late
  BY DEF Restart, IdlePush
<1>2. late' \subseteq Requests /\ \A r \in late' : r # {} /\ {} \notin r
  BY <1>1, AbandonedType DEF Inv, TypeOK, WholeGroups
<1>3. "idle" \in Phases
  BY DEF Phases
<1>4. PushInv' /\ OversizedHeld' /\ ConfirmedIsStored' /\ InFlightStable'
  BY <1>1, <1>2, <1>3, AtRest
<1>5. TypeOK'
  BY <1>1, <1>2, <1>4 DEF Inv, TypeOK, PushInv
<1>6. IdsDrawn'
  BY <1>1 DEF Inv, IdsDrawn
<1>7. SyncedIsStored'
  BY <1>1 DEF Inv, SyncedIsStored, Unsynced
<1>8. QED
  BY <1>4, <1>5, <1>6, <1>7 DEF Inv, PushInv

(* So does one after which the outbox holds no event that it did not hold. *)
LEMMA RestartKeepsInv ==
  ASSUME Inv, Restart, nextId' = nextId,
         PartialFunction(outbox', Ids, Row), PartialFunction(deadletter', Ids, Row),
         heads' \in [Keys -> Ids \cup {NoEvent}],
         DOMAIN outbox' \subseteq DOMAIN outbox,
         \A e \in DOMAIN outbox' : /\ outbox'[e].seq = outbox[e].seq
                                   /\ \/ outbox'[e].status = outbox[e].status
                                      \/ outbox'[e].status # "synced"
                                      \/ e \in DOMAIN log
  PROVE  Inv'
<1>1. nextId' \in Nat /\ nextId' >= 1 /\ nextId' <= MaxIds + 1
  BY DEF Inv, TypeOK
<1>2. \A e \in DOMAIN outbox' : /\ e < nextId' /\ outbox'[e].seq = e
                                /\ \/ e \in DOMAIN outbox
                                      /\ outbox'[e].status = outbox[e].status
                                   \/ outbox'[e].status # "synced"
                                   \/ e \in DOMAIN log
  BY DEF Inv, IdsDrawn
<1>3. QED
  BY <1>1, <1>2, RestartInv

(* A crash between two gate jobs.                                          *)
LEMMA CrashInv ==
  ASSUME Inv, Crash
  PROVE  Inv'
BY RestartKeepsInv DEF Crash, Inv, TypeOK

(* A crash between the marks of a planned batch.                           *)
LEMMA CrashInPlanInv ==
  ASSUME Inv, CrashInPlan
  PROVE  Inv'
<1>1. PICK S : outbox' = Marked(S)
  BY DEF CrashInPlan
<1>2. PartialFunction(outbox, Ids, Row)
  BY DEF Inv, TypeOK
<1>3. /\ PartialFunction(outbox', Ids, Row)
      /\ DOMAIN outbox' = DOMAIN outbox
      /\ \A e \in DOMAIN outbox' : /\ outbox'[e].seq = outbox[e].seq
                                   /\ \/ outbox'[e].status = outbox[e].status
                                      \/ outbox'[e].status # "synced"
  BY <1>1, <1>2, MarkedType
<1>4. Restart /\ deadletter' = deadletter /\ heads' = heads /\ nextId' = nextId
  BY DEF CrashInPlan
<1>5. QED
  BY <1>3, <1>4, RestartKeepsInv DEF Inv, TypeOK

(* A crash between the writes of a transaction: an event of the outbox is  *)
(* as it was or as the hook writes it, and only folded ones are gone.      *)
HalfMutated(ks, type) ==
  /\ CanMutate(ks, type) /\ nextId' = nextId + Cardinality(ks)
  /\ PartialFunction(outbox', Ids, Row)
  /\ heads' \in [Keys -> Ids \cup {NoEvent}]
  /\ \A e \in DOMAIN outbox' :
       \/ e \in DOMAIN outbox /\ outbox'[e] = outbox[e]
       \/ /\ \E k \in ks : EidFor(ks, type, k) = e
          /\ e \in DOMAIN HookWrites(ks, type)
          /\ outbox'[e] = HookWrites(ks, type)[e]
          /\ outbox'[e].status = "pending" /\ outbox'[e].seq = e
  /\ \A e \in DOMAIN outbox : (\A k \in ks : e \notin Folded(type, k)) => e \in DOMAIN outbox'

LEMMA CrashInMutateIs ==
  ASSUME Inv, CrashInMutate
  PROVE  \E ks \in SUBSET Keys, type \in MutationTypes : HalfMutated(ks, type)
<1>1. TypeOK /\ IdsDrawn /\ PartialFunction(outbox, Ids, Row)
  BY DEF Inv, TypeOK
<1>2. PICK ks \in SUBSET Keys, type \in MutationTypes :
        /\ CanMutate(ks, type) /\ nextId' = nextId + Cardinality(ks)
        /\ \E k \in ks, n \in 0..MaxIds :
             \E done, stamped \in UpToRow(ks, k) :
               /\ stamped \subseteq done
               /\ outbox' = HalfHook(ks, type, done, FoldedUpTo(type, k, n))
               /\ heads' = Stamped(ks, type, stamped)
  BY DEF CrashInMutate
<1>3. PICK k \in ks, n \in 0..MaxIds, done \in SUBSET ks, stamped \in SUBSET ks :
        /\ outbox' = HalfHook(ks, type, done, FoldedUpTo(type, k, n))
        /\ heads' = Stamped(ks, type, stamped)
  BY <1>2 DEF UpToRow
<1> DEFINE ob == HookWrites(ks, type)
           written == {e \in DOMAIN ob : ob[e].key \in done}
           rest == {e \in DOMAIN outbox : outbox[e].key \notin done} \ FoldedUpTo(type, k, n)
<1>4. /\ PartialFunction(ob, Ids, Row)
      /\ \A e \in DOMAIN ob :
           IF \E j \in ks : EidFor(ks, type, j) = e
           THEN /\ ob[e].status = "pending"
                /\ IdsDrawn => ob[e].seq = e
           ELSE /\ e \in DOMAIN outbox /\ ob[e] = outbox[e]
                /\ \A j \in ks : e \notin Folded(type, j)
      /\ \A e \in DOMAIN outbox : (\A j \in ks : e \notin Folded(type, j)) => e \in DOMAIN ob
  BY <1>1, <1>2, HookWritesType
<1>5. outbox' = Partly(ob, written, rest)
  BY <1>3 DEF HalfHook
<1>6. heads' = [j \in Keys |-> IF ConflictDetection /\ j \in stamped
                               THEN EidFor(ks, type, j) ELSE heads[j]]
  BY <1>3 DEF Stamped
<1>7. \A j \in ks : /\ EidFor(ks, type, j) \in Ids
                    /\ EidFor(ks, type, j) \in Folded(type, j) \/ EidFor(ks, type, j) >= nextId
  BY <1>1, <1>2, RowForType
<1>8. heads' \in [Keys -> Ids \cup {NoEvent}]
  BY <1>1, <1>6, <1>7 DEF TypeOK
<1> HIDE DEF ob
<1>9. /\ written \subseteq DOMAIN ob /\ rest \subseteq DOMAIN outbox
      /\ \A e \in rest : outbox[e].key \notin done
      /\ \A e \in DOMAIN ob : ob[e].key \in done => e \in written
      /\ \A e \in DOMAIN outbox : outbox[e].key \notin done /\ e \notin Folded(type, k)
                                    => e \in rest
  BY DEF FoldedUpTo
<1> HIDE DEF written, rest
<1>10. /\ PartialFunction(outbox', Ids, Row)
       /\ DOMAIN outbox' = written \cup rest
       /\ \A e \in written : outbox'[e] = ob[e]
       /\ \A e \in rest \ written : outbox'[e] = outbox[e]
  BY <1>1, <1>4, <1>5, <1>9 DEF Partly, PartialFunction
<1>11. ASSUME NEW e \in DOMAIN outbox'
       PROVE  \/ e \in DOMAIN outbox /\ outbox'[e] = outbox[e]
              \/ /\ \E j \in ks : EidFor(ks, type, j) = e
                 /\ e \in DOMAIN ob /\ outbox'[e] = ob[e]
                 /\ outbox'[e].status = "pending" /\ outbox'[e].seq = e
  <2>1. CASE e \in written
    BY <1>1, <1>4, <1>9, <1>10, <2>1
  <2>2. CASE e \in rest \ written
    BY <1>9, <1>10, <2>2
  <2>3. QED
    BY <1>10, <2>1, <2>2
<1>12. ASSUME NEW e \in DOMAIN outbox, \A j \in ks : e \notin Folded(type, j)
       PROVE  e \in DOMAIN outbox'
  <2>1. e < nextId /\ e \in Nat /\ nextId \in Nat
    BY <1>1, BoundsAssumption DEF TypeOK, IdsDrawn, PartialFunction, Ids
  <2>2. \A j \in ks : EidFor(ks, type, j) # e
    <3>1. ASSUME NEW j \in ks, EidFor(ks, type, j) = e PROVE FALSE
      <4>1. e >= nextId
        BY <1>7, <1>12, <3>1
      <4>2. QED
        BY <2>1, <4>1
    <3>2. QED
      BY <3>1
  <2>3. e \in DOMAIN ob /\ ob[e] = outbox[e]
    BY <1>4, <1>12, <2>2
  <2>4. CASE outbox[e].key \in done
    <3>1. e \in written
      BY <1>9, <2>3, <2>4
    <3>2. QED
      BY <1>10, <3>1
  <2>5. CASE outbox[e].key \notin done
    <3>1. e \in rest
      BY <1>9, <1>12, <2>5
    <3>2. QED
      BY <1>10, <3>1
  <2>6. QED
    BY <2>4, <2>5
<1>13. QED
  BY <1>2, <1>8, <1>10, <1>11, <1>12 DEF ob, HalfMutated

LEMMA CrashInMutateInv ==
  ASSUME Inv, CrashInMutate
  PROVE  Inv'
<1>1. /\ TypeOK /\ IdsDrawn /\ nextId \in Nat /\ nextId >= 1
      /\ PartialFunction(deadletter, Ids, Row)
      /\ \A e \in DOMAIN outbox : /\ e < nextId /\ e \in Ids /\ outbox[e].seq = e
  BY DEF Inv, TypeOK, IdsDrawn, PartialFunction
<1>0. PICK ks \in SUBSET Keys, type \in MutationTypes : HalfMutated(ks, type)
  BY CrashInMutateIs
<1>2. /\ CanMutate(ks, type) /\ nextId' = nextId + Cardinality(ks)
      /\ PartialFunction(outbox', Ids, Row)
      /\ heads' \in [Keys -> Ids \cup {NoEvent}]
      /\ \A e \in DOMAIN outbox' :
           \/ e \in DOMAIN outbox /\ outbox'[e] = outbox[e]
           \/ /\ \E k \in ks : EidFor(ks, type, k) = e
              /\ outbox'[e].status = "pending" /\ outbox'[e].seq = e
  BY <1>0 DEF HalfMutated
<1>3. Cardinality(ks) \in Nat
  <2>1. IsFiniteSet(Keys)
    BY FS_Interval, BoundsAssumption DEF Keys
  <2>2. QED
    BY <2>1, FS_Subset, FS_CardinalityType
<1>4. nextId' \in Nat /\ nextId' >= 1 /\ nextId' <= MaxIds + 1
  BY <1>1, <1>2, <1>3 DEF CanMutate
<1>5. ASSUME NEW e \in DOMAIN outbox'
      PROVE  /\ e < nextId' /\ outbox'[e].seq = e
             /\ \/ e \in DOMAIN outbox /\ outbox'[e].status = outbox[e].status
                \/ outbox'[e].status # "synced"
  <2>0. e \in Nat
    BY <1>2 DEF PartialFunction, Ids
  <2>1. CASE e \in DOMAIN outbox /\ outbox'[e] = outbox[e]
    BY <1>1, <1>2, <1>3, <2>0, <2>1
  <2>2. CASE /\ \E k \in ks : EidFor(ks, type, k) = e
             /\ outbox'[e].status = "pending" /\ outbox'[e].seq = e
    <3>2. PICK k \in ks : EidFor(ks, type, k) = e
      BY <2>2
    <3>3. e \in Folded(type, k) \/ e < nextId + Cardinality(ks)
      BY <1>1, <1>2, <3>2, RowForType
    <3>4. e \in DOMAIN outbox \/ e < nextId'
      BY <1>1, <1>2, <3>3, FoldedUnsynced DEF TypeOK
    <3>5. e < nextId'
      BY <1>1, <1>2, <1>3, <2>0, <3>4
    <3>6. QED
      BY <2>2, <3>5
  <2>3. QED
    BY <1>2, <2>1, <2>2
<1>6. Restart /\ deadletter' = deadletter
  BY DEF CrashInMutate
<1>7. QED
  BY <1>1, <1>2, <1>4, <1>5, <1>6, RestartInv

(* A crash inside compact() of a row.                                      *)
LEMMA CrashInCompactIs ==
  ASSUME Inv, CrashInCompact
  PROVE  /\ PartialFunction(outbox', Ids, Row)
         /\ DOMAIN outbox' \subseteq DOMAIN outbox
         /\ \A e \in DOMAIN outbox' :
              /\ outbox'[e].status = "pending" \/ outbox'[e] = outbox[e]
              /\ outbox'[e].seq = outbox[e].seq
         /\ \A e \in DOMAIN outbox : e \notin Unsynced =>
              e \in DOMAIN outbox' /\ outbox'[e] = outbox[e]
<1>0. PartialFunction(outbox, Ids, Row) /\ compacting \subseteq Keys
  BY DEF Inv, TypeOK
<1>1. PICK k \in Keys :
        \E visited \in SUBSET RowsOf(k), deleted \in SUBSET Replaced(k) :
          outbox' = Partly(CompactedOutbox(k),
                           (visited \cap DOMAIN CompactedOutbox(k)) \ deleted,
                           DOMAIN outbox \ visited)
  BY <1>0 DEF CrashInCompact
<1>2. PICK visited \in SUBSET RowsOf(k), deleted \in SUBSET Replaced(k) :
        outbox' = Partly(CompactedOutbox(k),
                         (visited \cap DOMAIN CompactedOutbox(k)) \ deleted,
                         DOMAIN outbox \ visited)
  BY <1>1
<1> DEFINE ob == CompactedOutbox(k)
           written == (visited \cap DOMAIN ob) \ deleted
           rest == DOMAIN outbox \ visited
<1>3. Replaced(k) \subseteq Unsynced
  <2>1. OpenTail(k) \subseteq Unsynced
    <3>1. \A f \in OpenLife(k) : outbox[f].seq >= outbox[f].seq
      BY <1>0, BoundsAssumption DEF OpenLife, RowsOf, PartialFunction, Row, Ids
    <3>2. QED
      BY <3>1 DEF OpenTail
  <2>2. \A life \in ClosedLives(k) : Collapsed(life).gone \subseteq Unsynced
    BY <1>0, CollapsedIn
  <2>3. QED
    BY <2>1, <2>2 DEF Replaced, Squashable
<1>4. deleted \subseteq Unsynced
  BY <1>3
<1>5. /\ PartialFunction(ob, Ids, Row) /\ DOMAIN ob \subseteq DOMAIN outbox
      /\ \A f \in DOMAIN ob : /\ ob[f].status = "pending" \/ ob[f] = outbox[f]
                              /\ ob[f].seq = outbox[f].seq
      /\ \A f \in DOMAIN outbox : f \notin Unsynced => f \in DOMAIN ob /\ ob[f] = outbox[f]
  BY <1>0, CompactedType
<1> HIDE DEF ob
<1>6. /\ PartialFunction(outbox', Ids, Row)
      /\ DOMAIN outbox' = written \cup rest
      /\ \A f \in written : outbox'[f] = ob[f]
      /\ \A f \in rest \ written : outbox'[f] = outbox[f]
  BY <1>0, <1>2, <1>5 DEF ob, Partly, PartialFunction
<1>7. QED
  BY <1>4, <1>5, <1>6

LEMMA CrashInCompactInv ==
  ASSUME Inv, CrashInCompact
  PROVE  Inv'
<1>2. /\ PartialFunction(outbox', Ids, Row)
      /\ DOMAIN outbox' \subseteq DOMAIN outbox
      /\ \A e \in DOMAIN outbox' : /\ outbox'[e].seq = outbox[e].seq
                                   /\ \/ outbox'[e].status = outbox[e].status
                                      \/ outbox'[e].status # "synced"
  BY CrashInCompactIs
<1>3. Restart /\ deadletter' = deadletter /\ heads' = heads /\ nextId' = nextId
  BY DEF CrashInCompact
<1>4. QED
  BY <1>2, <1>3, RestartKeepsInv DEF Inv, TypeOK

(* Outcomes applied to the rows P leave the outbox well formed.            *)
LEMMA AppliedKeeps ==
  ASSUME Inv, NEW P, P \subseteq DOMAIN push.acc \cap DOMAIN outbox
  PROVE  /\ PartialFunction(Applied(P), Ids, Row)
         /\ DOMAIN Applied(P) \subseteq DOMAIN outbox
         /\ \A e \in DOMAIN Applied(P) : /\ Applied(P)[e].seq = outbox[e].seq
                                         /\ \/ Applied(P)[e].status = outbox[e].status
                                            \/ Applied(P)[e].status # "synced"
                                            \/ e \in DOMAIN log
<1>1. PartialFunction(outbox, Ids, Row) /\ PartialFunction(push.acc, Ids, Outcomes)
  BY DEF Inv, TypeOK, PushType
<1>2. \A e \in DOMAIN push.acc : push.acc[e] = "confirmed" => e \in DOMAIN log
  BY DEF Inv, ConfirmedIsStored
<1> DEFINE ob == Applied(P)
<1>3. /\ PartialFunction(ob, Ids, Row)
      /\ DOMAIN ob = DOMAIN outbox \ Gone(P)
      /\ Gone(P) \subseteq P
      /\ \A e \in DOMAIN outbox \ P : e \in DOMAIN ob /\ ob[e] = outbox[e]
      /\ \A e \in P \cap DOMAIN ob :
           /\ ob[e].seq = outbox[e].seq
           /\ ob[e].status = "failed" \/ push.acc[e] = "confirmed"
  BY <1>1, AppliedType
<1> HIDE DEF ob
<1>4. ASSUME NEW e \in DOMAIN ob
      PROVE  /\ ob[e].seq = outbox[e].seq
             /\ \/ ob[e].status = outbox[e].status
                \/ ob[e].status # "synced"
                \/ e \in DOMAIN log
  <2>1. CASE e \in P
    BY <1>2, <1>3, <2>1
  <2>2. CASE e \notin P
    BY <1>3, <2>2
  <2>3. QED
    BY <2>1, <2>2
<1>5. QED
  BY <1>3, <1>4 DEF ob

(* A crash between the writes that apply an answer.                        *)
LEMMA CrashInApplyInv ==
  ASSUME Inv, CrashInApply
  PROVE  Inv'
<1>1. PICK e \in DOMAIN push.acc \cap DOMAIN outbox :
        LET done == {f \in DOMAIN push.acc \cap DOMAIN outbox : Before(f, e)}
        IN  /\ \E gone \in {done, done \cup {e}} :
                 /\ outbox' = Applied(done) \/ outbox' = Applied(gone)
                 /\ deadletter' = Parked(Gone(gone))
            /\ heads' = RestoredHeads(ConflictsIn(done))
  BY DEF CrashInApply
<1> DEFINE done == {f \in DOMAIN push.acc \cap DOMAIN outbox : Before(f, e)}
<1>2. done \subseteq DOMAIN push.acc \cap DOMAIN outbox
      /\ done \cup {e} \subseteq DOMAIN push.acc \cap DOMAIN outbox
  OBVIOUS
<1>3. PICK gone \in {done, done \cup {e}} :
        /\ outbox' = Applied(done) \/ outbox' = Applied(gone)
        /\ deadletter' = Parked(Gone(gone))
        /\ heads' = RestoredHeads(ConflictsIn(done))
  BY <1>1
<1> HIDE DEF done
<1>4. Gone(gone) \subseteq DOMAIN outbox /\ ConflictsIn(done) \subseteq DOMAIN outbox
  BY <1>2, <1>3 DEF Gone, ConflictsIn
<1>5. TypeOK
  BY DEF Inv
<1>6. PartialFunction(deadletter', Ids, Row)
  BY <1>3, <1>4, <1>5, ParkedType DEF TypeOK
<1>7. heads' \in [Keys -> Ids \cup {NoEvent}]
  BY <1>3, <1>4, <1>5, RestoredHeadsType
<1>8. PICK P : outbox' = Applied(P) /\ P \subseteq DOMAIN push.acc \cap DOMAIN outbox
  BY <1>2, <1>3
<1>9. /\ PartialFunction(outbox', Ids, Row)
      /\ DOMAIN outbox' \subseteq DOMAIN outbox
      /\ \A f \in DOMAIN outbox' : /\ outbox'[f].seq = outbox[f].seq
                                   /\ \/ outbox'[f].status = outbox[f].status
                                      \/ outbox'[f].status # "synced"
                                      \/ f \in DOMAIN log
  BY <1>8, AppliedKeeps
<1>10. Restart /\ nextId' = nextId
  BY DEF CrashInApply
<1>11. QED
  BY <1>6, <1>7, <1>9, <1>10, RestartKeepsInv

(* The first gate job of a push.                                           *)
LEMMA PlanPushInv ==
  ASSUME Inv, PlanPush
  PROVE  Inv'
<1> DEFINE events == {Body(e) : e \in Due}
           planned == Groups(events)
           over == Oversized(planned)
<1>1. /\ log' = log /\ deadletter' = deadletter /\ local' = local /\ heads' = heads
      /\ nextId' = nextId /\ compacting' = compacting /\ late' = late /\ crashes' = crashes
      /\ reserved' = Due
      /\ outbox' = Marked(ToMark)
      /\ push' = [phase |-> "planned", queue |-> planned \ over,
                  oversized |-> Eids(Events(over)), todo |-> <<>>, sent |-> {}, open |-> {},
                  answer |-> NoOutcome, acc |-> NoOutcome]
  BY DEF PlanPush, Planned, IdlePush, Resting
<1>2. PartialFunction(outbox, Ids, Row) /\ IdsDrawn
  BY DEF Inv, TypeOK
<1>3. Due \subseteq DOMAIN outbox /\ Due \subseteq Unsynced
  BY DEF Due, Unsynced
<1>4. \A b \in events : b \in Bodies /\ b.eid \in Due /\ b = Body(b.eid) /\ b.seq = b.eid
  <2>1. ASSUME NEW e \in Due
        PROVE  Body(e) \in Bodies /\ Body(e).eid = e /\ Body(e).seq = e
    <3>1. Body(e) \in Bodies /\ Body(e).eid = e
      BY <1>2, <1>3, BodyType
    <3>2. Body(e).seq = e
      BY <1>2, <1>3 DEF Body, IdsDrawn
    <3>3. QED
      BY <3>1, <3>2
  <2>2. QED
    BY <2>1
<1>5. \A g \in planned, h \in planned : g # h => Eids(g) \cap Eids(h) = {}
  BY <1>2, <1>3, GroupsDisjoint
<1> HIDE DEF events
<1>6. \A g \in planned : g \subseteq events /\ g # {}
  <2>1. \A b, d \in events : \/ d.seq < b.seq \/ d.seq > b.seq \/ d.tx = b.tx
    <3>1. ASSUME NEW b \in events, NEW d \in events, ~(d.seq < b.seq), ~(d.seq > b.seq)
          PROVE  d.tx = b.tx
      <4>1. b.seq \in Nat /\ d.seq \in Nat
        BY <1>4 DEF Bodies, Ids
      <4>2. b.seq = d.seq
        BY <3>1, <4>1
      <4>3. QED
        BY <1>4, <4>2
    <3>2. QED
      BY <3>1
  <2>2. \A b \in events : SameRun(events, b, b)
    BY <2>1 DEF SameRun
  <2>3. ASSUME NEW g \in planned PROVE g \subseteq events /\ g # {}
    <3>1. PICK b \in events : g = {c \in events : SameRun(events, b, c)}
      BY DEF Groups
    <3>2. QED
      BY <2>2, <3>1
  <2>4. QED
    BY <2>3
<1>7. over \subseteq planned
  BY DEF Oversized
<1> HIDE DEF planned, over
<1>8. /\ Eids(Events(over)) \subseteq Due
      /\ planned \ over \in Requests
      /\ \A b \in Events(planned \ over) : b.eid \in Due /\ b = Body(b.eid)
  <2>1. Events(over) \subseteq events /\ Events(planned \ over) \subseteq events
    BY <1>6, <1>7 DEF Events
  <2>2. planned \ over \in Requests
    BY <1>4, <1>6 DEF Requests
  <2>3. QED
    BY <1>4, <2>1, <2>2 DEF Eids
<1>9. /\ PartialFunction(outbox', Ids, Row)
      /\ DOMAIN outbox' = DOMAIN outbox
      /\ \A e \in DOMAIN outbox : /\ SameEvent(outbox[e], outbox'[e])
                                  /\ \/ outbox'[e].status = outbox[e].status
                                     \/ outbox'[e].status = "pending"
  BY <1>1, <1>2, MarkedType DEF SameEvent
<1>10. Due \subseteq Ids
  BY <1>2, <1>3 DEF PartialFunction
<1>11. PushType(push)'
  <2>1. "planned" \in Phases
    BY DEF Phases
  <2>2. Eids(Events(over)) \in SUBSET Ids
    BY <1>8, <1>10
  <2>3. QED
    BY <1>1, <1>8, <2>1, <2>2, NothingYet, PushTypeOf
<1>12. /\ push'.queue = planned \ over /\ push'.oversized = Eids(Events(over))
       /\ push'.todo = <<>> /\ push'.sent = {} /\ push'.open = {}
       /\ DOMAIN push'.answer = {} /\ DOMAIN push'.acc = {} /\ Posted' = {}
  BY <1>1 DEF NoOutcome, Posted
<1>13. WholeGroups' /\ AnswersSent' /\ GroupsApart'
  BY <1>1, <1>5, <1>6, <1>12 DEF Inv, WholeGroups, AnswersSent, GroupsApart
<1>14. Eids(Events(planned \ over)) \cap Eids(Events(over)) = {}
  <2>1. ASSUME NEW b \in Events(planned \ over), NEW c \in Events(over), b.eid = c.eid
        PROVE  FALSE
    <3>1. PICK g \in planned \ over : b \in g
      BY DEF Events
    <3>2. PICK h \in over : c \in h
      BY DEF Events
    <3>3. g # h /\ h \in planned /\ b.eid \in Eids(g) /\ b.eid \in Eids(h)
      BY <1>7, <2>1, <3>1, <3>2 DEF Eids
    <3>4. QED
      BY <1>5, <3>1, <3>3
  <2>2. QED
    BY <2>1 DEF Eids
<1>15. QueueApart'
  BY <1>12, <1>14 DEF QueueApart, Events, Eids
<1>16. OversizedHeld'
  BY <1>1, <1>3, <1>8, <1>9, <1>12 DEF OversizedHeld
<1>17. ConfirmedIsStored'
  BY <1>12 DEF ConfirmedIsStored
<1>18. InFlightStable'
  <2>1. InFlight' = Events(planned \ over)
    BY <1>12 DEF InFlight
  <2>2. ASSUME NEW b \in InFlight'
        PROVE  b.eid \in reserved' \cap Unsynced' /\ b = Body(b.eid)'
    <3>1. b.eid \in Due /\ b = Body(b.eid) /\ b.eid \in DOMAIN outbox /\ b.eid \in Unsynced
      BY <1>3, <1>8, <2>1, <2>2
    <3>2. Body(b.eid)' = Body(b.eid)
      BY <1>9, <3>1 DEF Body, SameEvent
    <3>3. b.eid \in Unsynced'
      BY <1>9, <3>1 DEF Unsynced
    <3>4. QED
      BY <1>1, <3>1, <3>2, <3>3
  <2>3. QED
    BY <2>2 DEF InFlightStable
<1>19. TypeOK'
  BY <1>1, <1>9, <1>10, <1>11 DEF Inv, TypeOK
<1>20. IdsDrawn'
  <2>1. \A e \in DOMAIN outbox' : outbox'[e].seq = e
    BY <1>2, <1>9 DEF IdsDrawn, SameEvent
  <2>2. QED
    BY <1>1, <1>2, <1>3, <1>9, <2>1 DEF IdsDrawn
<1>21. SyncedIsStored'
  BY <1>1, <1>9 DEF Inv, SyncedIsStored, Unsynced
<1>22. QED
  BY <1>11, <1>13, <1>15, <1>16, <1>17, <1>18, <1>19, <1>20, <1>21 DEF Inv

(* The rows still to be sent are none of those already decided.            *)
LEMMA QueuedIsUndecided ==
  ASSUME Inv
  PROVE  /\ \A b \in Events(push.queue) : b.eid \notin DOMAIN push.acc \cup push.oversized
         /\ Events(push.queue) \subseteq InFlight
BY DEF Inv, QueueApart, Eids, InFlight, Events

(* The second gate job of a push.                                          *)
LEMMA ParkOversizedInv ==
  ASSUME Inv, ParkOversized
  PROVE  Inv'
<1>1. /\ log' = log /\ local' = local /\ heads' = heads /\ nextId' = nextId
      /\ reserved' = reserved /\ compacting' = compacting /\ late' = late
      /\ crashes' = crashes /\ push' = Posting(push)
      /\ deadletter' = Parked(push.oversized)
      /\ outbox' = Rewrite(outbox, push.oversized, NoOutcome)
  BY DEF ParkOversized
<1>2. TypeOK /\ push.oversized \subseteq DOMAIN outbox
  BY DEF Inv, OversizedHeld
<1>3. /\ PartialFunction(outbox', Ids, Row)
      /\ DOMAIN outbox' = DOMAIN outbox \ push.oversized
      /\ \A e \in DOMAIN outbox' : outbox'[e] = outbox[e]
  BY <1>1, <1>2 DEF TypeOK, Rewrite, NoOutcome, PartialFunction
<1>4. PartialFunction(deadletter', Ids, Row)
  BY <1>1, <1>2, ParkedType DEF TypeOK
<1>5. PushInv
  BY DEF Inv, TypeOK, PushInv
<1>6. /\ PushInv' /\ InFlight' \subseteq Events(push.queue)
      /\ push'.oversized = {} /\ DOMAIN push'.acc = {} /\ DOMAIN push'.answer = {}
  BY <1>1, <1>5, PostingPush
<1>7. TypeOK'
  BY <1>1, <1>2, <1>3, <1>4, <1>6 DEF TypeOK, PushInv
<1>8. IdsDrawn' /\ SyncedIsStored'
  BY <1>1, <1>3 DEF Inv, IdsDrawn, SyncedIsStored, Unsynced
<1>9. OversizedHeld' /\ ConfirmedIsStored'
  BY <1>6 DEF OversizedHeld, ConfirmedIsStored
<1>10. InFlightStable'
  <2>1. \A b \in InFlight' : b \in InFlight /\ b.eid \notin push.oversized
    BY <1>6, QueuedIsUndecided
  <2>2. \A b \in InFlight' :
          b.eid \in Unsynced => /\ b.eid \in Unsynced'
                                /\ SameEvent(outbox[b.eid], outbox'[b.eid])
    BY <1>3, <2>1 DEF Unsynced, SameEvent
  <2>3. QED
    BY <1>1, <2>1, <2>2, FlightKept DEF Inv
<1>11. QED
  BY <1>6, <1>7, <1>8, <1>9, <1>10 DEF Inv, PushInv

(* The results of a batch are applied.                                     *)
LEMMA ApplyBatchInv ==
  ASSUME Inv, ApplyBatch
  PROVE  Inv'
<1> DEFINE P == DOMAIN push.acc \cap DOMAIN outbox
<1>1. /\ log' = log /\ local' = local /\ nextId' = nextId
      /\ reserved' = reserved /\ compacting' = compacting /\ late' = late
      /\ crashes' = crashes
      /\ push' = IF TransportFailed THEN Resting("release") ELSE Posting(push)
      /\ outbox' = Applied(P) /\ deadletter' = Parked(Gone(P))
      /\ heads' = RestoredHeads(ConflictsIn(P))
  BY DEF ApplyBatch
<1>2. P \subseteq DOMAIN push.acc \cap DOMAIN outbox
  OBVIOUS
<1> HIDE DEF P
<1>3. TypeOK /\ Gone(P) \subseteq DOMAIN outbox /\ ConflictsIn(P) \subseteq DOMAIN outbox
  BY <1>2 DEF Inv, Gone, ConflictsIn
<1>4. /\ PartialFunction(outbox', Ids, Row)
      /\ DOMAIN outbox' \subseteq DOMAIN outbox
      /\ \A e \in DOMAIN outbox' : /\ outbox'[e].seq = outbox[e].seq
                                   /\ \/ outbox'[e].status = outbox[e].status
                                      \/ outbox'[e].status # "synced"
                                      \/ e \in DOMAIN log
  BY <1>1, <1>2, AppliedKeeps
<1>5. \A e \in DOMAIN outbox \ DOMAIN push.acc : e \in DOMAIN outbox' /\ outbox'[e] = outbox[e]
  BY <1>1, <1>2 DEF Applied, Gone
<1>6. PartialFunction(deadletter', Ids, Row)
  BY <1>1, <1>3, ParkedType DEF TypeOK
<1>7. heads' \in [Keys -> Ids \cup {NoEvent}]
  BY <1>1, <1>3, RestoredHeadsType
<1>8. /\ PushInv' /\ InFlight' \subseteq Events(push.queue)
      /\ push'.oversized = {} /\ DOMAIN push'.acc = {} /\ DOMAIN push'.answer = {}
  <2>1. CASE TransportFailed
    <3>1. push' = Resting("release") /\ "release" \in Phases
      BY <1>1, <2>1 DEF Phases
    <3>2. \A r \in late' : r # {} /\ {} \notin r
      BY <1>1 DEF Inv, WholeGroups
    <3>3. QED
      BY <3>1, <3>2, RestingPush
  <2>2. CASE ~TransportFailed
    <3>1. push' = Posting(push) /\ late' = late
      BY <1>1, <2>2
    <3>2. PushInv
      BY DEF Inv, TypeOK, PushInv
    <3>3. QED
      BY <3>1, <3>2, PostingPush
  <2>3. QED
    BY <2>1, <2>2
<1>9. TypeOK'
  BY <1>1, <1>3, <1>4, <1>6, <1>7, <1>8 DEF TypeOK, PushInv
<1>10. IdsDrawn'
  BY <1>1, <1>4 DEF Inv, IdsDrawn
<1>11. SyncedIsStored'
  BY <1>1, <1>4 DEF Inv, SyncedIsStored, Unsynced
<1>12. OversizedHeld' /\ ConfirmedIsStored'
  BY <1>8 DEF OversizedHeld, ConfirmedIsStored
<1>13. InFlightStable'
  <2>1. \A b \in InFlight' : b \in InFlight /\ b.eid \notin DOMAIN push.acc
    BY <1>8, QueuedIsUndecided
  <2>2. \A b \in InFlight' :
          b.eid \in Unsynced => /\ b.eid \in Unsynced'
                                /\ SameEvent(outbox[b.eid], outbox'[b.eid])
    BY <1>5, <2>1 DEF Unsynced, SameEvent
  <2>3. QED
    BY <1>1, <2>1, <2>2, FlightKept DEF Inv
<1>14. QED
  BY <1>8, <1>9, <1>10, <1>11, <1>12, <1>13 DEF Inv, PushInv

(* A step of the exchange with the server, which sends nothing but what    *)
(* was to be sent, keeps the invariant of everything but the log.          *)
LEMMA ExchangeInv ==
  ASSUME Inv, PushType(push)', PartialFunction(log', Ids, Stored),
         DOMAIN log \subseteq DOMAIN log',
         outbox' = outbox, deadletter' = deadletter, local' = local, heads' = heads,
         nextId' = nextId, reserved' = reserved, compacting' = compacting,
         crashes' = crashes,
         late' \subseteq Requests, \A r \in late' : r # {} /\ {} \notin r,
         push'.queue = push.queue, Posted' \subseteq Posted,
         push'.oversized \subseteq push.oversized,
         push'.open \subseteq push'.sent,
         DOMAIN push'.answer \subseteq Eids(Events(push'.sent \ push'.open)),
         DOMAIN push'.acc \subseteq DOMAIN push.acc \cup Eids(Events(Posted)),
         ConfirmedIsStored'
  PROVE  Inv'
<1>1. TypeOK'
  BY DEF Inv, TypeOK
<1>2. IdsDrawn' /\ SyncedIsStored' /\ OversizedHeld'
  BY DEF Inv, IdsDrawn, SyncedIsStored, Unsynced, OversizedHeld
<1>3. WholeGroups' /\ AnswersSent' /\ GroupsApart'
  BY DEF Inv, WholeGroups, AnswersSent, GroupsApart
<1>4. QueueApart'
  BY DEF Inv, QueueApart, Eids, Events
<1>5. InFlight' \subseteq InFlight
  BY DEF InFlight, Events
<1>6. InFlightStable'
  BY <1>5, FlightKept DEF Inv, SameEvent, Unsynced
<1>7. QED
  BY <1>1, <1>2, <1>3, <1>4, <1>6 DEF Inv

(* The parts of a push that travel are requests.                           *)
LEMMA PostedType ==
  ASSUME PushType(push)
  PROVE  /\ push.sent \in Requests /\ push.open \in Requests /\ push.queue \in Requests
         /\ push.todo \in Seq(Requests) /\ push.phase \in Phases /\ push.oversized \in SUBSET Ids
         /\ PartialFunction(push.answer, Ids, Outcomes) /\ PartialFunction(push.acc, Ids, Outcomes)
         /\ Posted \in Requests /\ push.sent \subseteq Posted
         /\ \A i \in DOMAIN push.todo : push.todo[i] \in Requests /\ push.todo[i] \subseteq Posted
         /\ Eids(Events(Posted)) \subseteq Ids
<1>1. /\ push.sent \in Requests /\ push.open \in Requests /\ push.queue \in Requests
      /\ push.todo \in Seq(Requests) /\ push.phase \in Phases /\ push.oversized \in SUBSET Ids
      /\ PartialFunction(push.answer, Ids, Outcomes) /\ PartialFunction(push.acc, Ids, Outcomes)
  BY DEF PushType
<1>2. \A i \in DOMAIN push.todo : push.todo[i] \in Requests
  BY <1>1
<1>3. Posted \in Requests
  BY <1>1, <1>2 DEF Posted, Requests
<1>4. push.sent \subseteq Posted /\ \A i \in DOMAIN push.todo : push.todo[i] \subseteq Posted
  BY DEF Posted
<1>5. QED
  BY <1>1, <1>2, <1>3, <1>4, EidsOfGroups

(* The server takes one group of the request.                              *)
LEMMA ServePushInv ==
  ASSUME Inv, ServePush
  PROVE  Inv'
<1> DEFINE g == Head1(push.open)
<1>1. PushType(push) /\ PartialFunction(log, Ids, Stored)
  BY DEF Inv, TypeOK
<1>2. PICK result \in ServerResults(g, Faults) :
        /\ log' = result.log
        /\ push' = [push EXCEPT !.open = push.open \ {g},
                                !.answer = Override(push.answer, result.answer)]
  BY DEF ServePush
<1>3. /\ outbox' = outbox /\ deadletter' = deadletter /\ local' = local /\ heads' = heads
      /\ nextId' = nextId /\ reserved' = reserved /\ compacting' = compacting /\ late' = late
      /\ crashes' = crashes /\ push.open # {}
  BY DEF ServePush
<1>4. push.open \subseteq push.sent /\ {} \notin push.open
  BY DEF Inv, AnswersSent, WholeGroups, Posted
<1>5. g \in push.open
  BY <1>1, <1>3, <1>4, Head1In, PostedType
<1>6. g \subseteq Bodies
  BY <1>1, <1>5, PostedType DEF Requests
<1> HIDE DEF g
<1>7. /\ PartialFunction(result.log, Ids, Stored)
      /\ PartialFunction(result.answer, Ids, Outcomes)
  BY <1>1, <1>6, ServerResultsType
<1>8. /\ DOMAIN log \subseteq DOMAIN result.log
      /\ DOMAIN result.answer = Eids(g)
      /\ \A e \in Eids(g) : result.answer[e] = "confirmed" => e \in DOMAIN result.log
  BY ServerKeepsEvents
<1> DEFINE answer == Override(push.answer, result.answer)
<1>9. /\ PartialFunction(answer, Ids, Outcomes)
      /\ DOMAIN answer = DOMAIN push.answer \cup Eids(g)
      /\ \A e \in DOMAIN answer :
           answer[e] = IF e \in Eids(g) THEN result.answer[e] ELSE push.answer[e]
  <2>1. PartialFunction(push.answer, Ids, Outcomes)
    BY <1>1, PostedType
  <2>2. /\ PartialFunction(answer, Ids, Outcomes)
        /\ DOMAIN answer = DOMAIN push.answer \cup DOMAIN result.answer
        /\ \A e \in DOMAIN answer :
             answer[e] = IF e \in DOMAIN result.answer THEN result.answer[e] ELSE push.answer[e]
    BY <1>7, <2>1, OverrideType
  <2>3. QED
    BY <1>8, <2>2
<1> HIDE DEF answer
<1>10. push' = [phase |-> push.phase, queue |-> push.queue, oversized |-> push.oversized,
                todo |-> push.todo, sent |-> push.sent, open |-> push.open \ {g},
                answer |-> answer, acc |-> push.acc]
  BY <1>1, <1>2 DEF PushType, answer
<1>11. PushType(push)'
  <2>1. push.open \ {g} \in Requests
    BY <1>1, PostedType DEF Requests
  <2>2. QED
    BY <1>1, <1>9, <1>10, <2>1, PostedType, PushTypeOf
<1>12. Posted' = Posted
  BY <1>10 DEF Posted
<1>13. Eids(g) \subseteq Eids(Events(push.sent \ (push.open \ {g})))
  BY <1>4, <1>5 DEF Eids, Events
<1>14. DOMAIN push.answer \subseteq Eids(Events(push.sent \ (push.open \ {g})))
  BY DEF Inv, AnswersSent, Eids, Events
<1>15. ConfirmedIsStored'
  <2>1. \A e \in DOMAIN push.answer : push.answer[e] = "confirmed" => e \in DOMAIN log
    BY DEF Inv, ConfirmedIsStored
  <2>2. \A e \in DOMAIN push.acc : push.acc[e] = "confirmed" => e \in DOMAIN log
    BY DEF Inv, ConfirmedIsStored
  <2>3. log' = result.log /\ push'.answer = answer /\ push'.acc = push.acc
    <3>1. log' = result.log
      BY <1>2
    <3>2. push'.answer = answer /\ push'.acc = push.acc
      BY <1>10
    <3>3. QED
      BY <3>1, <3>2
  <2>4. \A e \in DOMAIN answer : answer[e] = "confirmed" => e \in DOMAIN result.log
    BY <1>8, <1>9, <2>1
  <2>5. QED
    BY <1>8, <2>2, <2>3, <2>4 DEF ConfirmedIsStored
<1>16. late' \subseteq Requests /\ \A r \in late' : r # {} /\ {} \notin r
  BY <1>3 DEF Inv, TypeOK, WholeGroups
<1>17. /\ push'.queue = push.queue /\ push'.oversized = push.oversized
       /\ push'.open \subseteq push'.sent /\ push'.acc = push.acc
       /\ DOMAIN push'.answer \subseteq Eids(Events(push'.sent \ push'.open))
  BY <1>4, <1>9, <1>10, <1>13, <1>14
<1>18. QED
  BY <1>2, <1>3, <1>7, <1>8, <1>11, <1>12, <1>15, <1>16, <1>17, ExchangeInv

(* A request is settled with the outcomes acc, none of them a confirmation *)
(* that the server did not give.                                           *)
LEMMA SettledInv ==
  ASSUME Inv, NEW acc, PartialFunction(acc, Ids, Outcomes), push' = Settled(push, acc),
         DOMAIN acc \subseteq DOMAIN push.acc \cup Eids(Events(Posted)),
         \A e \in DOMAIN acc : acc[e] = "confirmed" => e \in DOMAIN log,
         UNCHANGED <<log, outbox, deadletter, local, heads, nextId, reserved, compacting,
                     late, crashes>>
  PROVE  Inv'
<1>1. PushType(push) /\ PartialFunction(log', Ids, Stored)
  BY DEF Inv, TypeOK
<1>2. late' \subseteq Requests /\ \A r \in late' : r # {} /\ {} \notin r
  BY DEF Inv, TypeOK, WholeGroups
<1>3. /\ PushType(push)' /\ Posted' \subseteq Posted
      /\ push'.queue = push.queue /\ push'.oversized = {} /\ push'.open \subseteq push'.sent
      /\ push'.answer = NoOutcome /\ push'.acc = acc
  <2>1. CASE push.todo = <<>>
    <3>1. push' = [phase |-> "apply", queue |-> push.queue, oversized |-> {}, todo |-> <<>>,
                   sent |-> {}, open |-> {}, answer |-> NoOutcome, acc |-> acc]
      BY <2>1 DEF Settled, IdlePush, Resting
    <3>2. "apply" \in Phases
      BY DEF Phases
    <3>3. PushType(push)'
      BY <1>1, <3>1, <3>2, NothingYet, PostedType, PushTypeOf
    <3>4. Posted' = {}
      BY <3>1 DEF Posted
    <3>5. QED
      BY <3>1, <3>3, <3>4
  <2>2. CASE push.todo # <<>>
    <3> DEFINE next == Head(push.todo)
               rest == Tail(push.todo)
    <3>1. push' = [phase |-> "waiting", queue |-> push.queue, oversized |-> {}, todo |-> rest,
                   sent |-> next, open |-> next, answer |-> NoOutcome, acc |-> acc]
      BY <2>2 DEF Settled, IdlePush, Resting
    <3>2. push.todo \in Seq(Requests)
      BY <1>1, PostedType
    <3>3. next \in Requests /\ rest \in Seq(Requests)
      BY <2>2, <3>2
    <3>4. next \subseteq Posted
      <4>1. 1 \in DOMAIN push.todo /\ next = push.todo[1]
        BY <2>2, <3>2
      <4>2. QED
        BY <4>1 DEF Posted
    <3>5. \A i \in DOMAIN rest : rest[i] \subseteq Posted
      <4>1. \A i \in DOMAIN rest : i + 1 \in DOMAIN push.todo /\ rest[i] = push.todo[i + 1]
        BY <2>2, <3>2
      <4>2. QED
        BY <4>1 DEF Posted
    <3> HIDE DEF next, rest
    <3>6. PushType(push)'
      <4>1. "waiting" \in Phases
        BY DEF Phases
      <4>2. QED
        BY <1>1, <3>1, <3>3, <4>1, NothingYet, PostedType, PushTypeOf
    <3>7. Posted' \subseteq Posted
      <4>1. Posted' = next \cup UNION {rest[i] : i \in DOMAIN rest}
        BY <3>1 DEF Posted
      <4>2. QED
        BY <3>4, <3>5, <4>1
    <3>8. QED
      BY <3>1, <3>6, <3>7
  <2>3. QED
    BY <2>1, <2>2
<1>4. DOMAIN push'.answer = {}
  BY <1>3 DEF NoOutcome
<1>5. ConfirmedIsStored'
  BY <1>3, <1>4 DEF ConfirmedIsStored
<1>6. QED
  BY <1>1, <1>2, <1>3, <1>4, <1>5, ExchangeInv

(* The reply arrives.                                                      *)
LEMMA ReceiveReplyInv ==
  ASSUME Inv, ReceiveReply
  PROVE  Inv'
<1> DEFINE acc == Override(push.acc, push.answer)
<1>1. push' = Settled(push, acc)
      /\ UNCHANGED <<log, outbox, deadletter, local, heads, nextId, reserved, compacting,
                     late, crashes>>
  BY DEF ReceiveReply
<1>2. PartialFunction(push.acc, Ids, Outcomes) /\ PartialFunction(push.answer, Ids, Outcomes)
      /\ push.sent \subseteq Posted
  BY PostedType DEF Inv, TypeOK
<1>3. /\ PartialFunction(acc, Ids, Outcomes)
      /\ DOMAIN acc = DOMAIN push.acc \cup DOMAIN push.answer
      /\ \A e \in DOMAIN acc :
           acc[e] = IF e \in DOMAIN push.answer THEN push.answer[e] ELSE push.acc[e]
  BY <1>2, OverrideType
<1> HIDE DEF acc
<1>4. DOMAIN push.answer \subseteq Eids(Events(Posted))
  BY <1>2 DEF Inv, AnswersSent, Eids, Events
<1>5. \A e \in DOMAIN acc : acc[e] = "confirmed" => e \in DOMAIN log
  BY <1>3 DEF Inv, ConfirmedIsStored
<1>6. QED
  BY <1>1, <1>3, <1>4, <1>5, SettledInv

(* Rows that were never confirmed get an outcome that is no confirmation.  *)
LEMMA Unconfirmed ==
  ASSUME Inv, NEW S, S \subseteq Eids(Events(Posted)), NEW outcome \in Outcomes,
         outcome # "confirmed",
         NEW acc, acc = Override(push.acc, Same(S, outcome))
  PROVE  /\ PartialFunction(acc, Ids, Outcomes)
         /\ DOMAIN acc \subseteq DOMAIN push.acc \cup Eids(Events(Posted))
         /\ \A e \in DOMAIN acc : acc[e] = "confirmed" => e \in DOMAIN log
<1>1. PartialFunction(push.acc, Ids, Outcomes) /\ S \subseteq Ids
  BY PostedType DEF Inv, TypeOK
<1> DEFINE same == Same(S, outcome)
<1>2. PartialFunction(same, Ids, Outcomes)
  BY <1>1, SameType
<1>3. DOMAIN same = S /\ \A e \in S : same[e] = outcome
  BY DEF Same
<1> HIDE DEF same
<1>4. /\ PartialFunction(Override(push.acc, same), Ids, Outcomes)
      /\ DOMAIN Override(push.acc, same) = DOMAIN push.acc \cup DOMAIN same
      /\ \A e \in DOMAIN Override(push.acc, same) :
           Override(push.acc, same)[e] = IF e \in DOMAIN same THEN same[e] ELSE push.acc[e]
  BY <1>1, <1>2, OverrideType
<1>5. acc = Override(push.acc, same)
  BY DEF same
<1>6. \A e \in DOMAIN push.acc : push.acc[e] = "confirmed" => e \in DOMAIN log
  BY DEF Inv, ConfirmedIsStored
<1>7. QED
  BY <1>3, <1>4, <1>5, <1>6

(* The request fails, before or after the server served some of it.        *)
LEMMA TransportErrorInv ==
  ASSUME Inv, TransportError
  PROVE  Inv'
<1> DEFINE unsent == Eids(Events(push.sent))
                       \cup UNION {Eids(Events(push.todo[i])) : i \in DOMAIN push.todo}
           acc == Override(push.acc, Same(unsent, "unsent"))
<1>1. /\ push' = [phase |-> "apply", queue |-> push.queue, oversized |-> {}, todo |-> <<>>,
                  sent |-> {}, open |-> {}, answer |-> NoOutcome, acc |-> acc]
      /\ log' = log /\ outbox' = outbox /\ deadletter' = deadletter /\ local' = local
      /\ heads' = heads /\ nextId' = nextId /\ reserved' = reserved
      /\ compacting' = compacting /\ crashes' = crashes /\ late' \in Abandoned
  BY DEF TransportError, IdlePush, Resting
<1>2. unsent \subseteq Eids(Events(Posted))
  <2>1. push.sent \subseteq Posted /\ \A i \in DOMAIN push.todo : push.todo[i] \subseteq Posted
    BY DEF Posted
  <2>2. QED
    BY <2>1 DEF Eids, Events
<1> HIDE DEF unsent
<1>3. "unsent" \in Outcomes /\ "unsent" # "confirmed" /\ "apply" \in Phases
  BY DEF Outcomes, Phases
<1>4. /\ PartialFunction(acc, Ids, Outcomes)
      /\ DOMAIN acc \subseteq DOMAIN push.acc \cup Eids(Events(Posted))
      /\ \A e \in DOMAIN acc : acc[e] = "confirmed" => e \in DOMAIN log
  BY <1>2, <1>3, Unconfirmed
<1> HIDE DEF acc
<1>5. PushType(push) /\ PartialFunction(log', Ids, Stored) /\ DOMAIN log \subseteq DOMAIN log'
  BY <1>1 DEF Inv, TypeOK
<1>6. PushType(push)'
  BY <1>1, <1>3, <1>4, <1>5, NothingYet, PostedType, PushTypeOf
<1>7. late' \subseteq Requests /\ \A r \in late' : r # {} /\ {} \notin r
  BY <1>1, AbandonedType
<1>8. /\ push'.queue = push.queue /\ Posted' = {} /\ push'.oversized = {}
      /\ push'.open = push'.sent /\ DOMAIN push'.answer = {} /\ push'.acc = acc
  BY <1>1 DEF Posted, NoOutcome
<1>9. ConfirmedIsStored'
  BY <1>1, <1>4, <1>8 DEF ConfirmedIsStored
<1>10. QED
  BY <1>1, <1>4, <1>5, <1>6, <1>7, <1>8, <1>9, ExchangeInv

(* Putting a request before the others.                                    *)
LEMMA Prepended ==
  ASSUME NEW T, NEW x \in T, NEW s \in Seq(T)
  PROVE  /\ <<x>> \o s \in Seq(T)
         /\ \A i \in DOMAIN (<<x>> \o s) :
              \/ (<<x>> \o s)[i] = x
              \/ \E j \in DOMAIN s : (<<x>> \o s)[i] = s[j]
<1>1. <<x>> \in Seq(T) /\ Len(<<x>>) = 1
  OBVIOUS
<1>2. <<x>> \o s \in Seq(T) /\ Len(<<x>> \o s) = 1 + Len(s)
  BY <1>1
<1>3. ASSUME NEW i \in DOMAIN (<<x>> \o s), i # 1
      PROVE  i - 1 \in DOMAIN s /\ (<<x>> \o s)[i] = s[i - 1]
  <2>1. i \in 1..(1 + Len(s)) /\ Len(s) \in Nat
    BY <1>2
  <2>2. i - 1 \in 1..Len(s)
    BY <1>3, <2>1
  <2>3. QED
    BY <1>1, <1>3, <2>1, <2>2
<1>4. (<<x>> \o s)[1] = x
  BY <1>1
<1>5. QED
  BY <1>2, <1>3, <1>4

(* HTTP 413: the batch is halved, or its only group given up.              *)
LEMMA RefuseTooLargeInv ==
  ASSUME Inv, RefuseTooLarge
  PROVE  Inv'
<1>1. /\ UNCHANGED <<log, outbox, deadletter, local, heads, nextId, reserved, compacting,
                     late, crashes>>
      /\ push.open = push.sent
  BY DEF RefuseTooLarge
<1>2. PushType(push)
  BY DEF Inv, TypeOK
<1>3. CASE Cardinality(push.sent) = 1
  <2> DEFINE S == Eids(Events(push.sent))
             acc == Override(push.acc, Same(S, "tooLarge"))
  <2>1. push' = Settled(push, acc)
    BY <1>3 DEF RefuseTooLarge
  <2>2. S \subseteq Eids(Events(Posted))
    BY DEF Posted, Eids, Events
  <2>3. "tooLarge" \in Outcomes /\ "tooLarge" # "confirmed"
    BY DEF Outcomes
  <2> HIDE DEF S
  <2>4. /\ PartialFunction(acc, Ids, Outcomes)
        /\ DOMAIN acc \subseteq DOMAIN push.acc \cup Eids(Events(Posted))
        /\ \A e \in DOMAIN acc : acc[e] = "confirmed" => e \in DOMAIN log
    BY <2>2, <2>3, Unconfirmed
  <2> HIDE DEF acc
  <2>5. QED
    BY <1>1, <2>1, <2>4, SettledInv
<1>4. CASE Cardinality(push.sent) # 1
  <2> DEFINE half == FirstHalf(push.sent)
             todo == <<push.sent \ half>> \o push.todo
  <2>1. push' = [push EXCEPT !.sent = half, !.open = half, !.todo = todo]
    BY <1>4 DEF RefuseTooLarge
  <2>2. half \subseteq push.sent
    BY DEF FirstHalf
  <2> HIDE DEF half
  <2>3. half \in Requests /\ push.sent \ half \in Requests /\ push.todo \in Seq(Requests)
    BY <1>2, <2>2, PostedType DEF Requests
  <2>4. todo \in Seq(Requests)
    BY <2>3, Prepended
  <2>5. \A i \in DOMAIN todo : todo[i] \subseteq Posted
    <3>1. \A i \in DOMAIN todo : \/ todo[i] = push.sent \ half
                                 \/ \E j \in DOMAIN push.todo : todo[i] = push.todo[j]
      BY <2>3, Prepended
    <3>2. push.sent \ half \subseteq Posted /\ \A j \in DOMAIN push.todo : push.todo[j] \subseteq Posted
      BY DEF Posted
    <3> HIDE DEF todo
    <3>3. QED
      BY <3>1, <3>2
  <2> HIDE DEF todo
  <2>6. push' = [phase |-> push.phase, queue |-> push.queue, oversized |-> push.oversized,
                 todo |-> todo, sent |-> half, open |-> half, answer |-> push.answer,
                 acc |-> push.acc]
    BY <1>2, <2>1 DEF PushType
  <2>7. PushType(push)'
    BY <1>2, <2>3, <2>4, <2>6, PostedType, PushTypeOf
  <2>8. Posted' \subseteq Posted
    <3>1. Posted' = half \cup UNION {todo[i] : i \in DOMAIN todo}
      BY <2>6 DEF Posted
    <3>2. half \subseteq Posted
      BY <2>2 DEF Posted
    <3>3. QED
      BY <2>5, <3>1, <3>2
  <2>9. DOMAIN push.answer = {}
    BY <1>1 DEF Inv, AnswersSent, Eids, Events
  <2>10. /\ push'.queue = push.queue /\ push'.oversized = push.oversized
         /\ push'.open \subseteq push'.sent /\ push'.acc = push.acc
         /\ push'.answer = push.answer
    BY <2>6
  <2>11. ConfirmedIsStored'
    BY <1>1, <2>10 DEF Inv, ConfirmedIsStored
  <2>12. /\ late' \subseteq Requests /\ \A r \in late' : r # {} /\ {} \notin r
         /\ PartialFunction(log', Ids, Stored) /\ DOMAIN log \subseteq DOMAIN log'
    BY <1>1 DEF Inv, TypeOK, WholeGroups
  <2>13. QED
    BY <1>1, <2>7, <2>8, <2>9, <2>10, <2>11, <2>12, ExchangeInv
<1>5. QED
  BY <1>3, <1>4

-----------------------------------------------------------------------------
(* The invariant.                                                          *)

(* The invariant holds at the start.                                       *)
LEMMA InitInv == Init => Inv
<1> SUFFICES ASSUME Init PROVE Inv
  OBVIOUS
<1>1. /\ log = [e \in {} |-> NoEvent] /\ outbox = [e \in {} |-> NoEvent]
      /\ deadletter = [e \in {} |-> NoEvent]
      /\ local = [k \in Keys |-> [val |-> NoEvent, live |-> FALSE]]
      /\ heads = [k \in Keys |-> NoEvent] /\ nextId = 1
      /\ reserved = {} /\ compacting = {} /\ late = {} /\ crashes = 0
      /\ push = [phase |-> "idle", queue |-> {}, oversized |-> {}, todo |-> <<>>,
                 sent |-> {}, open |-> {}, answer |-> NoOutcome, acc |-> NoOutcome]
  BY DEF Init, LogInit, IdlePush, Resting
<1>2. DOMAIN log = {} /\ DOMAIN outbox = {} /\ DOMAIN deadletter = {} /\ DOMAIN NoOutcome = {}
  BY <1>1 DEF NoOutcome
<1>3. Posted = {} /\ InFlight = {}
  BY <1>1 DEF Posted, InFlight, Events
<1>4. PushType(push)
  BY <1>1, NothingYet DEF PushType, Phases
<1>5. TypeOK
  <2>1. local \in [Keys -> [val : Ids \cup {NoEvent}, live : BOOLEAN]]
        /\ heads \in [Keys -> Ids \cup {NoEvent}]
    BY <1>1
  <2>2. nextId \in Nat /\ nextId >= 1 /\ nextId <= MaxIds + 1 /\ crashes \in Nat
    BY <1>1, BoundsAssumption
  <2>3. /\ PartialFunction(log, Ids, Stored) /\ PartialFunction(outbox, Ids, Row)
        /\ PartialFunction(deadletter, Ids, Row)
    BY <1>1, <1>2 DEF PartialFunction
  <2>4. QED
    BY <1>1, <1>4, <2>1, <2>2, <2>3 DEF TypeOK
<1>6. IdsDrawn /\ WholeGroups /\ OversizedHeld /\ AnswersSent /\ GroupsApart
  BY <1>1, <1>2, <1>3
     DEF IdsDrawn, WholeGroups, OversizedHeld, AnswersSent, GroupsApart
<1>7. QueueApart /\ ConfirmedIsStored /\ SyncedIsStored /\ InFlightStable
  BY <1>1, <1>2, <1>3
     DEF QueueApart, ConfirmedIsStored, SyncedIsStored, InFlightStable, Events, Eids
<1>8. QED
  BY <1>5, <1>6, <1>7 DEF Inv

(* A step that changes nothing keeps the invariant.                        *)
LEMMA StutterInv ==
  ASSUME Inv, UNCHANGED vars
  PROVE  Inv'
<1>1. /\ log' = log /\ outbox' = outbox /\ deadletter' = deadletter /\ local' = local
      /\ heads' = heads /\ nextId' = nextId /\ reserved' = reserved /\ push' = push
      /\ compacting' = compacting /\ late' = late /\ crashes' = crashes
  BY DEF vars
<1>2. TypeOK' /\ IdsDrawn' /\ SyncedIsStored'
  BY <1>1 DEF Inv, TypeOK, PushType, IdsDrawn, SyncedIsStored, Unsynced
<1>3. \A r \in late' : r # {} /\ {} \notin r
  BY <1>1 DEF Inv, WholeGroups
<1>4. PushInv' /\ OversizedHeld' /\ ConfirmedIsStored' /\ InFlightStable'
  BY <1>1, <1>3, PushLeftAlone DEF SameEvent
<1>5. QED
  BY <1>2, <1>4 DEF Inv, PushInv

(* Every step keeps the invariant: one lemma per action.                   *)
LEMMA NextInv == Inv /\ [Next]_vars => Inv'
<1> SUFFICES ASSUME Inv, [Next]_vars PROVE Inv'
  OBVIOUS
<1>1. CASE Edit
  BY <1>1, MutateInv DEF Edit
<1>2. CASE Compact
  BY <1>2, StartCompactInv, CompactKeyInv DEF Compact
<1>3. CASE PlanPush \/ ParkOversized \/ ApplyBatch \/ ReleaseReserved
  BY <1>3, PlanPushInv, ParkOversizedInv, ApplyBatchInv, ReleaseReservedInv
<1>4. CASE ServePush \/ ReceiveReply \/ RefuseTooLarge \/ TransportError \/ ServeLate
  BY <1>4, ServePushInv, ReceiveReplyInv, RefuseTooLargeInv, TransportErrorInv, ServeLateInv
<1>5. CASE BackoffTick
  BY <1>5, BackoffTickInv
<1>6. CASE Crashes
  BY <1>6, CrashInv, CrashInPlanInv, CrashInMutateInv, CrashInCompactInv, CrashInApplyInv
     DEF Crashes
<1>7. CASE UNCHANGED vars
  BY <1>7, StutterInv
<1>8. QED
  BY <1>1, <1>2, <1>3, <1>4, <1>5, <1>6, <1>7 DEF Next, Pushing

(* In every behaviour of the push pipeline, faults and crashes included,   *)
(* the strengthened invariant holds.                                       *)
THEOREM Invariance == Spec => []Inv
<1>1. Init => Inv
  BY InitInv
<1>2. Inv /\ [Next]_vars => Inv'
  BY NextInv
<1>3. QED
  BY <1>1, <1>2, PTL DEF Spec

(* The outbox, the dead letters, the row versions and the push in progress *)
(* stay well formed, whatever the settings of the database are.            *)
THEOREM TypeCorrect == Spec => []TypeOK
<1>1. Inv => TypeOK
  BY DEF Inv
<1>2. QED
  BY <1>1, Invariance, PTL

(* The push never marks an event as synced that the server does not hold:  *)
(* not after a lost or late request, a partial failure, a fold, a          *)
(* compaction or a crash between two writes.                               *)
THEOREM SyncedIsSafe == Spec => []SyncedIsStored
<1>1. Inv => SyncedIsStored
  BY DEF Inv
<1>2. QED
  BY <1>1, Invariance, PTL

(* While a push is running, every event it has in hand is still in the     *)
(* outbox, unsynced, reserved, and has the body it was sent with: no edit, *)
(* fold or compaction changes what the reply will be applied to.           *)
THEOREM InFlightIsSafe == Spec => []InFlightStable
<1>1. Inv => InFlightStable
  BY DEF Inv
<1>2. QED
  BY <1>1, Invariance, PTL

-----------------------------------------------------------------------------
(* OutboxPush implements Delivery: whatever the outbox does with batches,  *)
(* halves, retries, folds, compactions and crashes, an event is stored     *)
(* once, and leaves the queue only confirmed, parked or replaced.          *)

(* The ids handed out to edits so far.                                     *)
DrawnIds == 1..(nextId - 1)

(* What the server holds, or may still receive, was drawn on the device.   *)
ServerKnowsDrawn ==
  /\ DOMAIN log \subseteq DrawnIds
  /\ \A r \in late : Eids(Events(r)) \subseteq DrawnIds

(* The rows whose outcome a push has in hand are queued and reserved.      *)
DecidedAreHeld == DOMAIN push.acc \cup push.oversized \subseteq reserved \cap Unsynced

DeliveryInv == Inv /\ ServerKnowsDrawn /\ DecidedAreHeld

-----------------------------------------------------------------------------
(* The steps of Delivery, in the terms of the outbox.                      *)

Confirmed == DOMAIN outbox \ Unsynced

(* Longer intervals hold more.                                             *)
LEMMA IntervalGrows ==
  ASSUME NEW a \in Nat, NEW b \in Nat, NEW c \in Nat, a <= b, b <= c + 1
  PROVE  /\ 1..(a - 1) \subseteq 1..(b - 1) /\ 1..(b - 1) \subseteq 1..c
         /\ \A e \in 1..c : e >= a /\ e < b => e \in (1..(b - 1)) \ (1..(a - 1))
OBVIOUS

(* Ids drawn before stay drawn, and all of them are Ids.                   *)
LEMMA DrawnGrows ==
  ASSUME TypeOK, TypeOK', nextId <= nextId'
  PROVE  /\ DrawnIds \subseteq DrawnIds' /\ DrawnIds' \subseteq Ids
         /\ \A e \in Ids : e >= nextId /\ e < nextId' => e \in DrawnIds' \ DrawnIds
<1>1. nextId \in Nat /\ nextId >= 1 /\ nextId <= MaxIds + 1 /\ MaxIds \in Nat
  BY BoundsAssumption DEF TypeOK
<1>2. nextId' \in Nat /\ nextId' >= 1 /\ nextId' <= MaxIds + 1
  BY DEF TypeOK
<1>3. DrawnIds' = 1..(nextId' - 1)
  BY DEF DrawnIds
<1>4. QED
  BY <1>1, <1>2, <1>3, IntervalGrows DEF DrawnIds, Ids

(* A step that only takes queued events away, or queues new ones.          *)
LEMMA WriteStep ==
  ASSUME TypeOK, TypeOK', nextId <= nextId',
         Unsynced' \subseteq Unsynced \cup (DrawnIds' \ DrawnIds),
         Confirmed' = Confirmed, log' = log, deadletter' = deadletter
  PROVE  D!Write
<1>1. DrawnIds' = DrawnIds \cup (DrawnIds' \ DrawnIds)
      /\ DrawnIds' \ DrawnIds \in SUBSET (Ids \ DrawnIds)
  BY DrawnGrows
<1>2. QED
  BY <1>1 DEF D!Write, DrawnIds, Confirmed

(* A step in which only the server's log grows.                            *)
LEMMA StoreStep ==
  ASSUME outbox' = outbox, deadletter' = deadletter, nextId' = nextId,
         DOMAIN log \subseteq DOMAIN log', DOMAIN log' \subseteq DOMAIN log \cup DrawnIds
  PROVE  D!Store
<1>1. DOMAIN log' = DOMAIN log \cup (DOMAIN log' \ DOMAIN log)
      /\ DOMAIN log' \ DOMAIN log \in SUBSET (DrawnIds \ DOMAIN log)
  OBVIOUS
<1>2. Unsynced' = Unsynced
  BY DEF Unsynced
<1>3. QED
  BY <1>1, <1>2 DEF D!Store, DrawnIds

(* A step in which queued events are confirmed or parked.                  *)
LEMMA SettleStep ==
  ASSUME NEW yes \in SUBSET (Unsynced \cap DOMAIN log), NEW no \in SUBSET (Unsynced \ yes),
         NEW gone \in SUBSET no, Unsynced' = (Unsynced \ yes) \ gone,
         Confirmed' = Confirmed \cup yes, DOMAIN deadletter' = DOMAIN deadletter \cup no,
         log' = log, nextId' = nextId
  PROVE  D!Settle
BY DEF D!Settle, Confirmed

(* A step that neither queues, stores nor settles anything.                *)
LEMMA QuietStep ==
  ASSUME log' = log, nextId' = nextId, deadletter' = deadletter,
         DOMAIN outbox' = DOMAIN outbox, Unsynced' = Unsynced
  PROVE  UNCHANGED D!dvars
BY DEF D!dvars, DrawnIds

(* The outbox with the outcomes of the rows P applied: the confirmed ones  *)
(* are synced, the others failed or gone.                                  *)
LEMMA AppliedRows ==
  ASSUME Inv, NEW P, P \subseteq DOMAIN push.acc \cap Unsynced,
         outbox' = Applied(P)
  PROVE  LET yes == {e \in P : push.acc[e] = "confirmed"}
         IN  /\ Gone(P) \subseteq P \ yes
             /\ Unsynced' = (Unsynced \ yes) \ Gone(P)
             /\ Confirmed' = Confirmed \cup yes
<1> DEFINE yes == {e \in P : push.acc[e] = "confirmed"}
<1>1. \A e \in DOMAIN outbox : outbox[e] \in Row
  BY DEF Inv, TypeOK, PartialFunction
<1>2. P \subseteq DOMAIN outbox
  BY DEF Unsynced
<1>3. ASSUME NEW e \in P
      PROVE  AppliedRow(e).status = IF e \in yes THEN "synced" ELSE "failed"
  <2>1. outbox[e] \in Row
    BY <1>1, <1>2
  <2>2. CASE push.acc[e] = "confirmed"
    BY <2>1, <2>2 DEF AppliedRow, Row
  <2>3. CASE push.acc[e] # "confirmed"
    BY <2>1, <2>3 DEF AppliedRow, Row
  <2>4. QED
    BY <2>2, <2>3
<1>4. Gone(P) \subseteq P \ yes
  BY DEF Gone
<1>5. /\ DOMAIN outbox' = DOMAIN outbox \ Gone(P)
      /\ \A e \in DOMAIN outbox' : outbox'[e] = IF e \in P THEN AppliedRow(e) ELSE outbox[e]
  BY DEF Applied
<1> HIDE DEF yes
<1>6. Unsynced' = (Unsynced \ yes) \ Gone(P)
  <2>1. P \subseteq Unsynced /\ yes \subseteq P
    BY DEF yes
  <2>2. \A e \in DOMAIN outbox' : e \in P => (outbox'[e].status # "synced" <=> e \notin yes)
    BY <1>3, <1>5
  <2>3. \A e \in DOMAIN outbox' : e \notin P => outbox'[e] = outbox[e]
    BY <1>5
  <2>4. \A e : e \in Unsynced' <=> e \in DOMAIN outbox' /\ outbox'[e].status # "synced"
    BY DEF Unsynced
  <2>5. \A e : e \in Unsynced <=> e \in DOMAIN outbox /\ outbox[e].status # "synced"
    BY DEF Unsynced
  <2>6. ASSUME NEW e PROVE e \in Unsynced' <=> e \in (Unsynced \ yes) \ Gone(P)
    <3>1. CASE e \in P
      BY <1>2, <1>5, <2>1, <2>2, <2>4, <3>1
    <3>2. CASE e \notin P
      BY <1>4, <1>5, <2>1, <2>3, <2>4, <2>5, <3>2
    <3>3. QED
      BY <3>1, <3>2
  <2>7. QED
    BY <2>6
<1>7. Confirmed' = Confirmed \cup yes
  <2>1. yes \subseteq P
    BY DEF yes
  <2>2. DOMAIN outbox' = DOMAIN outbox \ Gone(P)
    BY <1>5
  <2>3. QED
    BY <1>2, <1>4, <1>6, <2>1, <2>2 DEF Confirmed
<1>8. QED
  BY <1>4, <1>6, <1>7 DEF yes

(* Applying the outcomes of P, with the dead letters of S recorded, is a   *)
(* step of Delivery, also when a crash ends it after P.                    *)
LEMMA OutcomesStep ==
  ASSUME DeliveryInv, NEW P, NEW S, P \subseteq S, S \subseteq DOMAIN push.acc,
         outbox' = Applied(P), deadletter' = Parked(Gone(S)), log' = log, nextId' = nextId
  PROVE  D!Settle
<1> DEFINE yes == {e \in P : push.acc[e] = "confirmed"}
<1>1. S \subseteq Unsynced
  BY DEF DeliveryInv, DecidedAreHeld
<1>2. Inv /\ P \subseteq DOMAIN push.acc \cap Unsynced
  BY <1>1 DEF DeliveryInv
<1>3. /\ Gone(P) \subseteq P \ yes
      /\ Unsynced' = (Unsynced \ yes) \ Gone(P)
      /\ Confirmed' = Confirmed \cup yes
  BY <1>2, AppliedRows
<1>4. yes \subseteq Unsynced \cap DOMAIN log
  BY <1>1, <1>2 DEF Inv, ConfirmedIsStored
<1>5. Gone(S) \subseteq Unsynced \ yes /\ Gone(P) \subseteq Gone(S)
  BY <1>1 DEF Gone
<1>6. DOMAIN deadletter' = DOMAIN deadletter \cup Gone(S)
  BY DEF Parked
<1>7. /\ yes \in SUBSET (Unsynced \cap DOMAIN log)
      /\ Gone(S) \in SUBSET (Unsynced \ yes)
      /\ Gone(P) \in SUBSET Gone(S)
  BY <1>4, <1>5
<1>8. /\ Unsynced' = (Unsynced \ yes) \ Gone(P)
      /\ Confirmed' = Confirmed \cup yes
  BY <1>3
<1> HIDE DEF yes
<1>9. QED
  BY <1>6, <1>7, <1>8, SettleStep

-----------------------------------------------------------------------------
(* Every step of the outbox is one of those, and keeps DeliveryInv.        *)

StepOK == (D!Next \/ UNCHANGED D!dvars) /\ ServerKnowsDrawn' /\ DecidedAreHeld'

(* What a push has in hand was drawn, is reserved and is queued.           *)
LEMMA FlightIsHeld ==
  ASSUME Inv
  PROVE  /\ \A b \in InFlight : b.eid \in DrawnIds /\ b.eid \in reserved \cap Unsynced
         /\ Eids(InFlight) \subseteq DrawnIds \cap reserved \cap Unsynced
<1>1. ASSUME NEW b \in InFlight
      PROVE  b.eid \in DrawnIds /\ b.eid \in reserved \cap Unsynced
  <2>1. b.eid \in reserved \cap Unsynced
    BY DEF Inv, InFlightStable
  <2>2. b.eid \in Ids /\ b.eid < nextId /\ nextId \in Nat
    BY <2>1 DEF Inv, TypeOK, IdsDrawn
  <2>3. QED
    BY <2>1, <2>2, BoundsAssumption DEF DrawnIds, Ids
<1>2. QED
  BY <1>1 DEF Eids

(* What a request carries is in flight.                                    *)
LEMMA SentIsInFlight ==
  ASSUME Inv
  PROVE  /\ Eids(Events(push.sent)) \subseteq Eids(InFlight)
         /\ Eids(Events(push.open)) \subseteq Eids(InFlight)
         /\ Eids(Events(Posted)) \subseteq Eids(InFlight)
         /\ DOMAIN push.answer \subseteq Eids(InFlight)
<1>1. push.sent \subseteq Posted /\ push.open \subseteq Posted
  BY DEF Inv, AnswersSent, Posted
<1>2. Eids(Events(Posted)) \subseteq Eids(InFlight)
  BY DEF InFlight, Events, Eids
<1>3. Eids(Events(push.sent)) \subseteq Eids(Events(Posted))
      /\ Eids(Events(push.open)) \subseteq Eids(Events(Posted))
  BY <1>1 DEF Events, Eids
<1>4. DOMAIN push.answer \subseteq Eids(Events(push.sent))
  BY DEF Inv, AnswersSent, Events, Eids
<1>5. QED
  BY <1>2, <1>3, <1>4

(* No new row is decided, and those that are keep their place.             *)
LEMMA HeldKept ==
  ASSUME DeliveryInv, push' = push, reserved' = reserved,
         \A e \in reserved \cap Unsynced : e \in Unsynced'
  PROVE  DecidedAreHeld'
BY DEF DeliveryInv, DecidedAreHeld

(* A push at rest has decided nothing.                                     *)
LEMMA NothingHeld ==
  ASSUME DOMAIN push'.acc = {}, push'.oversized = {}
  PROVE  DecidedAreHeld'
BY DEF DecidedAreHeld

(* What may arrive late was drawn.                                         *)
LEMMA LateIsDrawn ==
  ASSUME DeliveryInv, Inv', log' = log, nextId <= nextId', late' \in Abandoned
  PROVE  ServerKnowsDrawn'
<1>1. Eids(Events(push.open)) \subseteq DrawnIds
  BY FlightIsHeld, SentIsInFlight DEF DeliveryInv
<1>2. \A r \in late' : r \in late \/ r = push.open
  BY DEF Abandoned
<1>3. DrawnIds \subseteq DrawnIds'
  BY DrawnGrows DEF DeliveryInv, Inv
<1>4. QED
  BY <1>1, <1>2, <1>3 DEF DeliveryInv, ServerKnowsDrawn

(* Log and late requests are left alone, and ids stay drawn.               *)
LEMMA DrawnKept ==
  ASSUME DeliveryInv, Inv', log' = log, late' = late, nextId <= nextId'
  PROVE  ServerKnowsDrawn'
<1>1. DrawnIds \subseteq DrawnIds'
  BY DrawnGrows DEF DeliveryInv, Inv
<1>2. QED
  BY <1>1 DEF DeliveryInv, ServerKnowsDrawn

(* A step that leaves the outbox, the dead letters and the log alone.      *)
LEMMA OutboxKept ==
  ASSUME log' = log, nextId' = nextId, deadletter' = deadletter, outbox' = outbox
  PROVE  UNCHANGED D!dvars /\ Unsynced' = Unsynced
<1>1. Unsynced' = Unsynced
  BY DEF Unsynced
<1>2. QED
  BY <1>1, QuietStep

(* A row change is queued under a fresh id, or under that of an event it   *)
(* folds, which no push has in hand.                                       *)
LEMMA EidForIs ==
  ASSUME TypeOK, TypeOK', NEW ks \in SUBSET Keys, NEW type \in MutationTypes,
         CanMutate(ks, type), nextId' = nextId + Cardinality(ks), NEW k \in ks
  PROVE  LET e == EidFor(ks, type, k)
         IN  \/ e \in Unsynced \ reserved
             \/ e \in DrawnIds' \ DrawnIds /\ e >= nextId
<1> DEFINE chain == Folded(type, k)
<1>1. CASE chain # {} /\ Cardinality(ks) = 1
  <2>1. PartialFunction(outbox, Ids, Row)
    BY DEF TypeOK
  <2>2. chain \subseteq DOMAIN outbox /\ \A e \in chain : e \in Unsynced /\ e \notin reserved
    BY <2>1, FoldedUnsynced
  <2>3. \A e \in chain : outbox[e].seq \in Ids
    BY <2>1, <2>2 DEF PartialFunction, Row
  <2>4. EidFor(ks, type, k) = Anchor(outbox, chain)
    BY <1>1 DEF EidFor
  <2> HIDE DEF chain
  <2>5. Anchor(outbox, chain) \in chain
    BY <1>1, <2>3, AnchorIn
  <2>6. QED
    BY <2>2, <2>4, <2>5
<1>2. CASE ~(chain # {} /\ Cardinality(ks) = 1)
  <2>1. EidFor(ks, type, k) = IdOf(ks, k)
    BY <1>2 DEF EidFor
  <2>2. /\ IdOf(ks, k) \in Ids /\ IdOf(ks, k) >= nextId
        /\ IdOf(ks, k) < nextId'
    BY IdOfType
  <2>3. nextId <= nextId'
    BY <2>2, BoundsAssumption DEF TypeOK, Ids
  <2>4. IdOf(ks, k) \in DrawnIds' \ DrawnIds
    BY <2>2, <2>3, DrawnGrows
  <2>5. QED
    BY <2>1, <2>2, <2>4
<1>3. QED
  BY <1>1, <1>2

(* A user transaction writes to the queue.                                 *)
LEMMA MutateStep ==
  ASSUME DeliveryInv, Inv', NEW ks \in SUBSET Keys, NEW type \in MutationTypes,
         Mutate(ks, type)
  PROVE  StepOK
<1>1. Inv /\ TypeOK /\ TypeOK' /\ IdsDrawn /\ CanMutate(ks, type)
  BY DEF DeliveryInv, Inv, Mutate
<1>2. /\ outbox' = HookWrites(ks, type) /\ nextId' = nextId + Cardinality(ks)
      /\ log' = log /\ deadletter' = deadletter /\ reserved' = reserved
      /\ push' = push /\ late' = late
  BY DEF Mutate
<1>3. nextId <= nextId'
  <2>1. IsFiniteSet(Keys)
    BY FS_Interval, BoundsAssumption DEF Keys
  <2>2. Cardinality(ks) \in Nat /\ nextId \in Nat
    BY <1>1, <2>1, FS_Subset, FS_CardinalityType DEF TypeOK
  <2>3. QED
    BY <1>2, <2>2
<1> DEFINE written == {EidFor(ks, type, k) : k \in ks}
<1>4. \A e \in written : \/ e \in Unsynced \ reserved
                         \/ e \in DrawnIds' \ DrawnIds /\ e >= nextId
  BY <1>1, <1>2, EidForIs
<1>5. /\ \A e \in DOMAIN outbox' :
           IF e \in written THEN outbox'[e].status = "pending"
           ELSE e \in DOMAIN outbox /\ outbox'[e] = outbox[e]
      /\ \A e \in DOMAIN outbox : (\A k \in ks : e \notin Folded(type, k))
                                   => e \in DOMAIN outbox'
  <2> DEFINE ob == HookWrites(ks, type)
  <2>1. /\ \A e \in DOMAIN ob :
             IF \E k \in ks : EidFor(ks, type, k) = e
             THEN /\ ob[e].status = "pending"
                  /\ IdsDrawn => ob[e].seq = e
             ELSE /\ e \in DOMAIN outbox /\ ob[e] = outbox[e]
                  /\ \A k \in ks : e \notin Folded(type, k)
        /\ \A e \in DOMAIN outbox : (\A k \in ks : e \notin Folded(type, k)) => e \in DOMAIN ob
    BY <1>1, HookWritesType
  <2>2. outbox' = ob
    BY <1>2
  <2> HIDE DEF ob
  <2>3. QED
    BY <2>1, <2>2
<1>6. \A e \in DOMAIN outbox : e < nextId /\ e \in Nat /\ nextId \in Nat
  BY <1>1, BoundsAssumption DEF TypeOK, IdsDrawn, PartialFunction, Ids
<1> HIDE DEF written
<1>7. Unsynced' \subseteq Unsynced \cup (DrawnIds' \ DrawnIds)
  <2>1. ASSUME NEW e \in Unsynced' PROVE e \in Unsynced \cup (DrawnIds' \ DrawnIds)
    <3>1. e \in DOMAIN outbox' /\ outbox'[e].status # "synced"
      BY DEF Unsynced
    <3>2. CASE e \in written
      BY <1>4, <3>2
    <3>3. CASE e \notin written
      BY <1>5, <3>1, <3>3 DEF Unsynced
    <3>4. QED
      BY <3>2, <3>3
  <2>2. QED
    BY <2>1
<1>8. \A e \in DOMAIN outbox : (e \in reserved \/ e \notin Unsynced) =>
        e \notin written /\ e \in DOMAIN outbox' /\ outbox'[e] = outbox[e]
  <2>1. ASSUME NEW e \in DOMAIN outbox, e \in reserved \/ e \notin Unsynced
        PROVE  e \notin written /\ e \in DOMAIN outbox' /\ outbox'[e] = outbox[e]
    <3>1. e \notin written
      BY <1>4, <1>6, <2>1
    <3>2. \A k \in ks : e \notin Folded(type, k)
      BY <1>1, <2>1, FoldedUnsynced DEF TypeOK
    <3>3. e \in DOMAIN outbox'
      BY <1>5, <3>2
    <3>4. QED
      BY <1>5, <3>1, <3>3
  <2>2. QED
    BY <2>1
<1>9. Confirmed' = Confirmed
  <2>1. ASSUME NEW e \in Confirmed' PROVE e \in Confirmed
    <3>1. e \in DOMAIN outbox' /\ outbox'[e].status = "synced"
      BY DEF Confirmed, Unsynced
    <3>2. e \in DOMAIN outbox /\ outbox'[e] = outbox[e]
      BY <1>5, <3>1
    <3>3. QED
      BY <3>1, <3>2 DEF Confirmed, Unsynced
  <2>2. ASSUME NEW e \in Confirmed PROVE e \in Confirmed'
    BY <1>8 DEF Confirmed, Unsynced
  <2>3. QED
    BY <2>1, <2>2
<1>10. D!Write
  BY <1>1, <1>2, <1>3, <1>7, <1>9, WriteStep
<1>11. \A e \in reserved \cap Unsynced : e \in Unsynced'
  BY <1>8 DEF Unsynced
<1>12. DecidedAreHeld'
  BY <1>2, <1>11, HeldKept
<1>13. ServerKnowsDrawn'
  BY <1>2, <1>3, DrawnKept
<1>14. QED
  BY <1>10, <1>12, <1>13 DEF StepOK, D!Next

(* Compacting a row takes queued events away.                              *)
LEMMA CompactKeyStep ==
  ASSUME DeliveryInv, Inv', NEW k \in Keys, CompactKey(k)
  PROVE  StepOK
<1>1. Inv /\ TypeOK /\ TypeOK' /\ PartialFunction(outbox, Ids, Row) /\ nextId \in Nat
  BY DEF DeliveryInv, Inv, TypeOK
<1>2. /\ outbox' = CompactedOutbox(k) /\ nextId' = nextId
      /\ log' = log /\ deadletter' = deadletter /\ reserved' = reserved
      /\ push' = push /\ late' = late
  BY DEF CompactKey
<1>3. /\ DOMAIN outbox' \subseteq DOMAIN outbox
      /\ \A e \in DOMAIN outbox' : outbox'[e].status = "pending" \/ outbox'[e] = outbox[e]
      /\ \A e \in DOMAIN outbox : e \in reserved \/ e \notin Unsynced =>
           e \in DOMAIN outbox' /\ outbox'[e] = outbox[e]
  BY <1>1, <1>2, CompactedType
<1>4. Unsynced' \subseteq Unsynced
  BY <1>3 DEF Unsynced
<1>5. Confirmed' = Confirmed
  BY <1>3 DEF Confirmed, Unsynced
<1>6. \A e \in reserved \cap Unsynced : e \in Unsynced'
  BY <1>3 DEF Unsynced
<1>7. D!Write
  BY <1>1, <1>2, <1>4, <1>5, WriteStep
<1>8. DecidedAreHeld' /\ ServerKnowsDrawn'
  BY <1>1, <1>2, <1>6, HeldKept, DrawnKept
<1>9. QED
  BY <1>7, <1>8 DEF StepOK, D!Next

(* A crash between the writes of a transaction loses some of the rows it   *)
(* folds, and leaves some of its own.                                      *)
LEMMA CrashInMutateStep ==
  ASSUME DeliveryInv, Inv', CrashInMutate
  PROVE  StepOK
<1>1. Inv /\ TypeOK /\ TypeOK' /\ IdsDrawn /\ nextId \in Nat
  BY DEF DeliveryInv, Inv, TypeOK
<1>0. PICK ks \in SUBSET Keys, type \in MutationTypes : HalfMutated(ks, type)
  BY <1>1, CrashInMutateIs
<1>2. /\ CanMutate(ks, type) /\ nextId' = nextId + Cardinality(ks)
      /\ \A e \in DOMAIN outbox' :
           \/ e \in DOMAIN outbox /\ outbox'[e] = outbox[e]
           \/ /\ \E k \in ks : EidFor(ks, type, k) = e
              /\ outbox'[e].status = "pending"
      /\ \A e \in DOMAIN outbox : (\A k \in ks : e \notin Folded(type, k))
                                    => e \in DOMAIN outbox'
  BY <1>0 DEF HalfMutated
<1>3. nextId <= nextId'
  <2>1. IsFiniteSet(Keys)
    BY FS_Interval, BoundsAssumption DEF Keys
  <2>2. Cardinality(ks) \in Nat
    BY <2>1, FS_Subset, FS_CardinalityType
  <2>3. QED
    BY <1>1, <1>2, <2>2
<1>4. \A k \in ks : \/ EidFor(ks, type, k) \in Unsynced \ reserved
                    \/ /\ EidFor(ks, type, k) \in DrawnIds' \ DrawnIds
                       /\ EidFor(ks, type, k) >= nextId
  BY <1>1, <1>2, EidForIs
<1>5. \A e \in DOMAIN outbox : e < nextId /\ e \in Nat
  BY <1>1, BoundsAssumption DEF TypeOK, IdsDrawn, PartialFunction, Ids
<1>6. ASSUME NEW e \in DOMAIN outbox'
      PROVE  \/ e \in DOMAIN outbox /\ outbox'[e] = outbox[e]
             \/ /\ outbox'[e].status = "pending"
                /\ e \in Unsynced \/ (e \in DrawnIds' \ DrawnIds /\ e >= nextId)
  BY <1>2, <1>4
<1>7. ASSUME NEW e \in DOMAIN outbox, e \notin Unsynced
      PROVE  e \in DOMAIN outbox' /\ outbox'[e] = outbox[e]
  <2>1. \A k \in ks : e \notin Folded(type, k)
    BY <1>1, <1>7, FoldedUnsynced DEF TypeOK
  <2>2. e \in DOMAIN outbox'
    BY <1>2, <2>1
  <2>3. ~(e >= nextId)
    BY <1>1, <1>5
  <2>4. QED
    BY <1>6, <1>7, <2>2, <2>3
<1>8. Unsynced' \subseteq Unsynced \cup (DrawnIds' \ DrawnIds)
  BY <1>6 DEF Unsynced
<1>9. Confirmed' = Confirmed
  <2>1. ASSUME NEW e \in Confirmed' PROVE e \in Confirmed
    BY <1>6 DEF Confirmed, Unsynced
  <2>2. ASSUME NEW e \in Confirmed PROVE e \in Confirmed'
    BY <1>7 DEF Confirmed, Unsynced
  <2>3. QED
    BY <2>1, <2>2
<1>10. /\ log' = log /\ deadletter' = deadletter /\ push' = IdlePush
       /\ late' \in Abandoned \/ late' = late
  BY DEF CrashInMutate, Restart
<1>11. D!Write
  BY <1>1, <1>3, <1>8, <1>9, <1>10, WriteStep
<1>12. DecidedAreHeld' /\ ServerKnowsDrawn'
  BY <1>3, <1>10, NothingHeld, NothingYet, LateIsDrawn, DrawnKept DEF IdlePush, Resting
<1>13. QED
  BY <1>11, <1>12 DEF StepOK, D!Next

(* A crash inside compact() loses queued rows.                             *)
LEMMA CrashInCompactStep ==
  ASSUME DeliveryInv, Inv', CrashInCompact
  PROVE  StepOK
<1>1. Inv /\ TypeOK /\ TypeOK' /\ PartialFunction(outbox, Ids, Row) /\ nextId \in Nat
  BY DEF DeliveryInv, Inv, TypeOK
<1>2. /\ DOMAIN outbox' \subseteq DOMAIN outbox
      /\ \A e \in DOMAIN outbox' : outbox'[e].status = "pending" \/ outbox'[e] = outbox[e]
      /\ \A e \in DOMAIN outbox : e \notin Unsynced => e \in DOMAIN outbox' /\ outbox'[e] = outbox[e]
  BY <1>1, CrashInCompactIs
<1>3. Unsynced' \subseteq Unsynced
  BY <1>2 DEF Unsynced
<1>4. Confirmed' = Confirmed
  BY <1>2 DEF Confirmed, Unsynced
<1>5. /\ nextId' = nextId /\ log' = log /\ deadletter' = deadletter /\ push' = IdlePush
      /\ late' \in Abandoned \/ late' = late
  BY DEF CrashInCompact, Restart
<1>6. D!Write
  BY <1>1, <1>3, <1>4, <1>5, WriteStep
<1>7. DecidedAreHeld' /\ ServerKnowsDrawn'
  BY <1>1, <1>5, NothingHeld, NothingYet, LateIsDrawn, DrawnKept DEF IdlePush, Resting
<1>8. QED
  BY <1>6, <1>7 DEF StepOK, D!Next

(* What a plan takes up is due.                                            *)
LEMMA PlannedIsDue ==
  ASSUME Inv, NEW S, S \subseteq Planned
  PROVE  Eids(Events(S)) \subseteq Due /\ Due \subseteq Unsynced
<1>1. Due \subseteq Unsynced /\ Due \subseteq DOMAIN outbox
  BY DEF Due, Unsynced
<1>2. \A e \in Due : Body(e).eid = e
  BY <1>1, BodyType DEF Inv, TypeOK
<1>3. Events(S) \subseteq {Body(e) : e \in Due}
  <2>1. Events(Groups({Body(e) : e \in Due})) \subseteq {Body(e) : e \in Due}
    BY GroupsType
  <2>2. QED
    BY <2>1 DEF Events, Planned
<1>4. QED
  BY <1>1, <1>2, <1>3 DEF Eids

(* Marking what is due changes neither what is queued nor what is synced.  *)
LEMMA MarkedIsQueued ==
  ASSUME Inv, NEW S, S \subseteq Unsynced, outbox' = Marked(S)
  PROVE  DOMAIN outbox' = DOMAIN outbox /\ Unsynced' = Unsynced
<1>1. \A e \in DOMAIN outbox : outbox[e] \in Row
  BY DEF Inv, TypeOK, PartialFunction
<1>2. ASSUME NEW e \in S PROVE e \in DOMAIN outbox /\ Marked(S)[e].status = "pending"
  <2>1. e \in DOMAIN outbox
    BY DEF Unsynced
  <2>2. outbox[e] \in Row
    BY <1>1, <2>1
  <2>3. QED
    BY <2>1, <2>2 DEF Marked, Row
<1>3. DOMAIN outbox' = DOMAIN outbox /\ \A e \in DOMAIN outbox \ S : outbox'[e] = outbox[e]
  BY DEF Marked
<1>4. \A e \in S : outbox'[e].status = "pending"
  BY <1>2
<1>5. QED
  BY <1>3, <1>4 DEF Unsynced

(* A plan reserves and marks; it decides only what is too large.           *)
LEMMA PlanPushStep ==
  ASSUME DeliveryInv, Inv', PlanPush
  PROVE  StepOK
<1>1. Inv /\ nextId \in Nat
  BY DEF DeliveryInv, Inv, TypeOK
<1>2. /\ log' = log /\ deadletter' = deadletter /\ nextId' = nextId /\ late' = late
      /\ reserved' = Due /\ outbox' = Marked(ToMark)
  BY DEF PlanPush
<1>3. DOMAIN push'.acc = {} /\ push'.oversized = Eids(Events(Oversized(Planned)))
  BY DEF PlanPush, IdlePush, Resting, NoOutcome
<1>4. ToMark \subseteq Unsynced
  BY <1>1, PlannedIsDue DEF ToMark
<1>5. DOMAIN outbox' = DOMAIN outbox /\ Unsynced' = Unsynced
  BY <1>1, <1>2, <1>4, MarkedIsQueued
<1>6. UNCHANGED D!dvars
  BY <1>2, <1>5, QuietStep
<1>7. push'.oversized \subseteq Due /\ Due \subseteq Unsynced
  BY <1>1, <1>3, PlannedIsDue DEF Oversized
<1>8. DecidedAreHeld'
  BY <1>2, <1>3, <1>5, <1>7 DEF DecidedAreHeld
<1>9. ServerKnowsDrawn'
  BY <1>1, <1>2, DrawnKept
<1>10. QED
  BY <1>6, <1>8, <1>9 DEF StepOK

(* A crash between two marks.                                              *)
LEMMA CrashInPlanStep ==
  ASSUME DeliveryInv, Inv', CrashInPlan
  PROVE  StepOK
<1>1. Inv /\ nextId \in Nat
  BY DEF DeliveryInv, Inv, TypeOK
<1>2. PICK S \in SUBSET ToMark : outbox' = Marked(S)
  <2>1. PICK e \in ToMark :
          outbox' = Marked({f \in ToMark : outbox[f].seq <= outbox[e].seq})
    BY DEF CrashInPlan
  <2>2. QED
    BY <2>1
<1>3. /\ nextId' = nextId /\ log' = log /\ deadletter' = deadletter /\ push' = IdlePush
      /\ late' \in Abandoned \/ late' = late
  BY DEF CrashInPlan, Restart
<1>4. S \subseteq Unsynced
  BY <1>1, PlannedIsDue DEF ToMark
<1>5. UNCHANGED D!dvars
  BY <1>1, <1>2, <1>3, <1>4, MarkedIsQueued, QuietStep
<1>6. DecidedAreHeld' /\ ServerKnowsDrawn'
  BY <1>1, <1>3, NothingHeld, NothingYet, LateIsDrawn, DrawnKept DEF IdlePush, Resting
<1>7. QED
  BY <1>5, <1>6 DEF StepOK

(* Time only counts waits down.                                            *)
LEMMA BackoffTickStep ==
  ASSUME DeliveryInv, Inv', BackoffTick
  PROVE  StepOK
<1>1. Inv /\ nextId \in Nat
  BY DEF DeliveryInv, Inv, TypeOK
<1>2. \A e \in DOMAIN outbox : outbox[e] \in Row
  BY <1>1 DEF Inv, TypeOK, PartialFunction
<1>3. /\ log' = log /\ deadletter' = deadletter /\ nextId' = nextId /\ late' = late
      /\ push' = push /\ reserved' = reserved /\ DOMAIN outbox' = DOMAIN outbox
      /\ \A e \in DOMAIN outbox :
           outbox'[e] = [outbox[e] EXCEPT !.wait = IF outbox[e].wait > 0 THEN outbox[e].wait - 1 ELSE 0]
  BY DEF BackoffTick
<1>4. ASSUME NEW e \in DOMAIN outbox PROVE outbox'[e].status = outbox[e].status
  <2>1. outbox[e] \in Row
    BY <1>2
  <2>2. QED
    BY <1>3, <2>1 DEF Row
<1>5. Unsynced' = Unsynced
  BY <1>3, <1>4 DEF Unsynced
<1>6. UNCHANGED D!dvars
  BY <1>3, <1>5, QuietStep
<1>7. DecidedAreHeld' /\ ServerKnowsDrawn'
  BY <1>1, <1>3, <1>5, HeldKept, DrawnKept
<1>8. QED
  BY <1>6, <1>7 DEF StepOK

(* A push whose outcomes are applied has decided nothing more.             *)
LEMMA PostingDecides ==
  ASSUME Inv, late' = late, push' = Posting(push) \/ push' = Resting("release")
  PROVE  DOMAIN push'.acc = {} /\ push'.oversized = {}
<1>1. CASE push' = Posting(push)
  BY <1>1, PostingPush DEF Inv, TypeOK, PushInv
<1>2. CASE push' = Resting("release")
  BY <1>2, NothingYet DEF Resting
<1>3. QED
  BY <1>1, <1>2

(* A settled request hands on its outcomes.                                *)
LEMMA SettledDecides ==
  ASSUME NEW acc, push' = Settled(push, acc)
  PROVE  push'.acc = acc /\ push'.oversized = {}
<1>1. CASE push.todo = <<>>
  <2>1. push' = [IdlePush EXCEPT !.phase = "apply", !.queue = push.queue, !.acc = acc]
    BY <1>1 DEF Settled
  <2>2. QED
    BY <2>1 DEF IdlePush, Resting
<1>2. CASE push.todo # <<>>
  <2> DEFINE next == Head(push.todo)
             rest == Tail(push.todo)
  <2>1. push' = [IdlePush EXCEPT !.phase = "waiting", !.queue = push.queue, !.acc = acc,
                                 !.todo = rest, !.sent = next, !.open = next]
    BY <1>2 DEF Settled
  <2> HIDE DEF next, rest
  <2>2. QED
    BY <2>1 DEF IdlePush, Resting
<1>3. QED
  BY <1>1, <1>2

(* What was found too large is parked.                                     *)
LEMMA ParkOversizedStep ==
  ASSUME DeliveryInv, Inv', ParkOversized
  PROVE  StepOK
<1>1. Inv /\ nextId \in Nat
  BY DEF DeliveryInv, Inv, TypeOK
<1> DEFINE no == push.oversized
<1>2. /\ log' = log /\ nextId' = nextId /\ late' = late /\ reserved' = reserved
      /\ deadletter' = Parked(no) /\ outbox' = Rewrite(outbox, no, NoOutcome)
      /\ push' = Posting(push)
  BY DEF ParkOversized
<1>3. no \subseteq Unsynced
  BY DEF DeliveryInv, DecidedAreHeld
<1>4. DOMAIN push'.acc = {} /\ push'.oversized = {}
  BY <1>1, <1>2, PostingDecides
<1>5. DOMAIN deadletter' = DOMAIN deadletter \cup no
  BY <1>2 DEF Parked
<1>6. /\ DOMAIN outbox' = DOMAIN outbox \ no
      /\ \A e \in DOMAIN outbox' : outbox'[e] = outbox[e]
  BY <1>2, NothingYet DEF Rewrite
<1> HIDE DEF no
<1>7. Unsynced' = (Unsynced \ {}) \ no /\ Confirmed' = Confirmed \cup {}
  BY <1>3, <1>6 DEF Unsynced, Confirmed
<1>8. /\ {} \in SUBSET (Unsynced \cap DOMAIN log)
      /\ no \in SUBSET (Unsynced \ {}) /\ no \in SUBSET no
  BY <1>3
<1>9. D!Settle
  BY <1>2, <1>5, <1>7, <1>8, SettleStep
<1>10. DecidedAreHeld' /\ ServerKnowsDrawn'
  BY <1>1, <1>2, <1>4, NothingHeld, DrawnKept
<1>11. QED
  BY <1>9, <1>10 DEF StepOK, D!Next

(* The outcomes of a batch are applied.                                    *)
LEMMA ApplyBatchStep ==
  ASSUME DeliveryInv, Inv', ApplyBatch
  PROVE  StepOK
<1>1. Inv /\ nextId \in Nat
  BY DEF DeliveryInv, Inv, TypeOK
<1> DEFINE P == DOMAIN push.acc \cap DOMAIN outbox
<1>2. /\ log' = log /\ nextId' = nextId /\ late' = late
      /\ deadletter' = Parked(Gone(P)) /\ outbox' = Applied(P)
      /\ push' = Resting("release") \/ push' = Posting(push)
  BY DEF ApplyBatch
<1>3. DOMAIN push'.acc = {} /\ push'.oversized = {}
  BY <1>1, <1>2, PostingDecides
<1>4. D!Settle
  BY <1>2, OutcomesStep
<1>5. DecidedAreHeld' /\ ServerKnowsDrawn'
  BY <1>1, <1>2, <1>3, NothingHeld, DrawnKept
<1>6. QED
  BY <1>4, <1>5 DEF StepOK, D!Next

(* A crash part way through the outcomes.                                  *)
LEMMA CrashInApplyStep ==
  ASSUME DeliveryInv, Inv', CrashInApply
  PROVE  StepOK
<1>1. Inv /\ nextId \in Nat
  BY DEF DeliveryInv, Inv, TypeOK
<1>2. PICK e \in DOMAIN push.acc \cap DOMAIN outbox :
        LET done == {f \in DOMAIN push.acc \cap DOMAIN outbox : Before(f, e)}
        IN  \E gone \in {done, done \cup {e}} :
              /\ outbox' = Applied(done) \/ outbox' = Applied(gone)
              /\ deadletter' = Parked(Gone(gone))
  BY DEF CrashInApply
<1>3. PICK S \in SUBSET DOMAIN push.acc : /\ \E P \in SUBSET S : outbox' = Applied(P)
                                         /\ deadletter' = Parked(Gone(S))
  BY <1>2
<1>4. PICK P \in SUBSET S : outbox' = Applied(P)
  BY <1>3
<1>5. /\ nextId' = nextId /\ log' = log /\ push' = IdlePush
      /\ late' \in Abandoned \/ late' = late
  BY DEF CrashInApply, Restart
<1>6. D!Settle
  BY <1>3, <1>4, <1>5, OutcomesStep
<1>7. DecidedAreHeld' /\ ServerKnowsDrawn'
  BY <1>1, <1>5, NothingHeld, NothingYet, LateIsDrawn, DrawnKept DEF IdlePush, Resting
<1>8. QED
  BY <1>6, <1>7 DEF StepOK, D!Next

(* A group the server takes adds its own events to the log, and no others. *)
LEMMA ServerStores ==
  ASSUME NEW group, NEW result \in ServerResults(group, Faults)
  PROVE  DOMAIN log \subseteq DOMAIN result.log
         /\ DOMAIN result.log \subseteq DOMAIN log \cup Eids(group)
<1>1. \/ result = Result(Appended(group), AllConfirmed(group))
      \/ result = Result(log, Aborted(group, Conflicting(group), "conflict"))
      \/ \E b \in Fresh(group) : result = Result(log, Aborted(group, {b}, "rejected"))
      \/ result = Result(log, AllTransient(group))
  BY DEF ServerResults
<1>2. result.log = Appended(group) \/ result.log = log
  <2>1. CASE result = Result(Appended(group), AllConfirmed(group))
    BY <2>1 DEF Result
  <2>2. ASSUME NEW answer, result = Result(log, answer) PROVE result.log = log
    BY <2>2 DEF Result
  <2>3. QED
    BY <1>1, <2>1, <2>2
<1>3. DOMAIN Appended(group) = DOMAIN log \cup Eids(group)
  BY DEF Appended
<1>4. QED
  BY <1>2, <1>3

(* The server takes a group of the request on the wire.                    *)
LEMMA ServePushStep ==
  ASSUME DeliveryInv, Inv', ServePush
  PROVE  StepOK
<1>1. Inv /\ nextId \in Nat
  BY DEF DeliveryInv, Inv, TypeOK
<1> DEFINE g == Head1(push.open)
<1>2. PICK result \in ServerResults(g, Faults) :
        /\ log' = result.log
        /\ push' = [push EXCEPT !.open = push.open \ {g},
                                !.answer = Override(push.answer, result.answer)]
  BY DEF ServePush
<1>3. /\ outbox' = outbox /\ deadletter' = deadletter /\ nextId' = nextId
      /\ reserved' = reserved /\ late' = late /\ push.open # {}
  BY DEF ServePush
<1>4. push.open \in Requests /\ {} \notin push.open
  BY <1>1, PostedType DEF Inv, TypeOK, AnswersSent, WholeGroups, Posted
<1>5. g \in push.open
  BY <1>3, <1>4, Head1In
<1>6. Eids(g) \subseteq DrawnIds
  <2>1. Eids(Events(push.open)) \subseteq DrawnIds
    BY <1>1, FlightIsHeld, SentIsInFlight
  <2>2. QED
    BY <1>5, <2>1 DEF Eids, Events
<1>7. DOMAIN log \subseteq DOMAIN log' /\ DOMAIN log' \subseteq DOMAIN log \cup Eids(g)
  BY <1>2, ServerStores
<1>8. push'.acc = push.acc /\ push'.oversized = push.oversized
  BY <1>1, <1>2 DEF Inv, TypeOK, PushType
<1> HIDE DEF g
<1>9. D!Store
  BY <1>3, <1>6, <1>7, StoreStep
<1>10. DecidedAreHeld'
  BY <1>3, <1>8 DEF DeliveryInv, DecidedAreHeld, Unsynced
<1>11. ServerKnowsDrawn'
  BY <1>3, <1>6, <1>7 DEF DeliveryInv, ServerKnowsDrawn, DrawnIds
<1>12. QED
  BY <1>9, <1>10, <1>11 DEF StepOK, D!Next

(* A request that was given up on reaches the server.                      *)
LEMMA ServeLateStep ==
  ASSUME DeliveryInv, Inv', ServeLate
  PROVE  StepOK
<1>1. Inv /\ nextId \in Nat
  BY DEF DeliveryInv, Inv, TypeOK
<1>2. PICK r \in late :
        LET g == Head1(r)
            rest == IF r = {g} THEN {} ELSE {r \ {g}}
        IN  /\ late' = (late \ {r}) \cup rest
            /\ \E result \in ServerResults(g, Faults) : log' = result.log
  BY DEF ServeLate
<1> DEFINE g == Head1(r)
<1>3. PICK result \in ServerResults(g, Faults) : log' = result.log
  BY <1>2
<1>4. /\ outbox' = outbox /\ deadletter' = deadletter /\ nextId' = nextId
      /\ reserved' = reserved /\ push' = push
  BY DEF ServeLate
<1>5. r \in Requests /\ r # {} /\ {} \notin r
  BY <1>1 DEF Inv, TypeOK, WholeGroups
<1>6. g \in r
  BY <1>5, Head1In
<1>7. Eids(Events(r)) \subseteq DrawnIds
  BY DEF DeliveryInv, ServerKnowsDrawn
<1>8. Eids(g) \subseteq DrawnIds
  BY <1>6, <1>7 DEF Eids, Events
<1>9. DOMAIN log \subseteq DOMAIN log' /\ DOMAIN log' \subseteq DOMAIN log \cup Eids(g)
  BY <1>3, ServerStores
<1>10. \A q \in late' : q \in late \/ q = r \ {g}
  BY <1>2
<1> HIDE DEF g
<1>11. Eids(Events(r \ {g})) \subseteq DrawnIds
  BY <1>7 DEF Eids, Events
<1>12. D!Store
  BY <1>4, <1>8, <1>9, StoreStep
<1>13. ServerKnowsDrawn'
  BY <1>4, <1>8, <1>9, <1>10, <1>11 DEF DeliveryInv, ServerKnowsDrawn, DrawnIds
<1>14. DecidedAreHeld'
  BY <1>4, HeldKept DEF Unsynced
<1>15. QED
  BY <1>12, <1>13, <1>14 DEF StepOK, D!Next

(* Steps of the push that only move what is in hand.                       *)
LEMMA InHandStep ==
  ASSUME DeliveryInv, Inv', ReceiveReply \/ RefuseTooLarge \/ TransportError
  PROVE  StepOK
<1>1. Inv /\ nextId \in Nat
  BY DEF DeliveryInv, Inv, TypeOK
<1>2. /\ log' = log /\ outbox' = outbox /\ deadletter' = deadletter /\ nextId' = nextId
      /\ reserved' = reserved /\ (late' \in Abandoned \/ late' = late)
  BY DEF ReceiveReply, RefuseTooLarge, TransportError
<1>3. UNCHANGED D!dvars /\ Unsynced' = Unsynced
  BY <1>2, OutboxKept
<1>4. ServerKnowsDrawn'
  BY <1>1, <1>2, LateIsDrawn, DrawnKept
<1>5. /\ DOMAIN push'.acc \subseteq DOMAIN push.acc \cup Eids(InFlight)
      /\ push'.oversized = {} \/ push'.oversized = push.oversized
  <2>1. /\ Eids(Events(push.sent)) \subseteq Eids(InFlight)
        /\ DOMAIN push.answer \subseteq Eids(InFlight)
        /\ Eids(Events(Posted)) \subseteq Eids(InFlight)
    BY <1>1, SentIsInFlight
  <2>2. \A acc : push' = Settled(push, acc) => push'.acc = acc /\ push'.oversized = {}
    BY SettledDecides
  <2>3. CASE ReceiveReply
    <3>1. push' = Settled(push, Override(push.acc, push.answer))
      BY <2>3 DEF ReceiveReply
    <3>2. DOMAIN Override(push.acc, push.answer) = DOMAIN push.acc \cup DOMAIN push.answer
      BY DEF Override
    <3>3. QED
      BY <2>1, <2>2, <3>1, <3>2
  <2>4. CASE RefuseTooLarge
    <3> DEFINE new == Override(push.acc, Same(Eids(Events(push.sent)), "tooLarge"))
    <3>1. DOMAIN new = DOMAIN push.acc \cup Eids(Events(push.sent))
      BY DEF Override, Same
    <3>2. CASE push' = Settled(push, new)
      BY <2>1, <2>2, <3>1, <3>2
    <3>3. CASE push' # Settled(push, new)
      <4>1. PICK half, rest : push' = [push EXCEPT !.sent = half, !.open = half, !.todo = rest]
        BY <2>4, <3>3 DEF RefuseTooLarge
      <4>2. push'.acc = push.acc /\ push'.oversized = push.oversized
        BY <1>1, <4>1 DEF Inv, TypeOK, PushType
      <4>3. QED
        BY <4>2
    <3>4. QED
      BY <3>2, <3>3
  <2>5. CASE TransportError
    <3> DEFINE unsent == Eids(Events(push.sent))
                           \cup UNION {Eids(Events(push.todo[i])) : i \in DOMAIN push.todo}
    <3>1. push'.acc = Override(push.acc, Same(unsent, "unsent")) /\ push'.oversized = {}
      BY <2>5 DEF TransportError, IdlePush, Resting
    <3>2. unsent \subseteq Eids(Events(Posted))
      <4>1. push.sent \subseteq Posted /\ \A i \in DOMAIN push.todo : push.todo[i] \subseteq Posted
        BY DEF Posted
      <4>2. QED
        BY <4>1 DEF Eids, Events
    <3> HIDE DEF unsent
    <3>3. DOMAIN push'.acc = DOMAIN push.acc \cup unsent
      BY <3>1 DEF Override, Same
    <3>4. QED
      BY <2>1, <3>1, <3>2, <3>3
  <2>6. QED
    BY <2>3, <2>4, <2>5
<1>6. Eids(InFlight) \subseteq reserved \cap Unsynced
  BY <1>1, FlightIsHeld
<1>7. DecidedAreHeld'
  BY <1>2, <1>3, <1>5, <1>6 DEF DeliveryInv, DecidedAreHeld
<1>8. QED
  BY <1>3, <1>4, <1>7 DEF StepOK

(* A push that ends, a compaction that begins, a crash with nothing half   *)
(* written, and a step that changes nothing.                               *)
LEMMA IdleStep ==
  ASSUME DeliveryInv, Inv', StartCompact \/ ReleaseReserved \/ Crash \/ UNCHANGED vars
  PROVE  StepOK
<1>1. Inv /\ nextId \in Nat
  BY DEF DeliveryInv, Inv, TypeOK
<1>2. /\ log' = log /\ outbox' = outbox /\ deadletter' = deadletter /\ nextId' = nextId
      /\ late' \in Abandoned \/ late' = late
      /\ (push' = push /\ reserved' = reserved) \/ push' = IdlePush
  BY DEF StartCompact, ReleaseReserved, Crash, Restart, vars
<1>3. UNCHANGED D!dvars /\ Unsynced' = Unsynced
  BY <1>2, OutboxKept
<1>4. ServerKnowsDrawn'
  BY <1>1, <1>2, LateIsDrawn, DrawnKept
<1>5. DecidedAreHeld'
  BY <1>2, <1>3, HeldKept, NothingHeld, NothingYet DEF IdlePush, Resting
<1>6. QED
  BY <1>3, <1>4, <1>5 DEF StepOK

-----------------------------------------------------------------------------
(* A database that was never used promises what Delivery promises.         *)
LEMMA InitDelivers == Init => D!Init /\ DeliveryInv
<1> SUFFICES ASSUME Init PROVE D!Init /\ DeliveryInv
  OBVIOUS
<1>1. /\ DOMAIN log = {} /\ DOMAIN outbox = {} /\ DOMAIN deadletter = {} /\ nextId = 1
      /\ late = {} /\ push = IdlePush
  BY DEF Init, LogInit
<1>2. Unsynced = {} /\ 1..(nextId - 1) = {}
  BY <1>1 DEF Unsynced
<1>3. D!Init
  BY <1>1, <1>2 DEF D!Init
<1>4. DOMAIN push.acc = {} /\ push.oversized = {}
  BY <1>1, NothingYet DEF IdlePush, Resting
<1>5. QED
  BY <1>1, <1>3, <1>4, InitInv DEF DeliveryInv, ServerKnowsDrawn, DecidedAreHeld

(* Every step of the outbox is a step of Delivery or none at all.          *)
LEMMA NextDelivers ==
  DeliveryInv /\ [Next]_vars => DeliveryInv' /\ [D!Next]_(D!dvars)
<1> SUFFICES ASSUME DeliveryInv, [Next]_vars PROVE DeliveryInv' /\ [D!Next]_(D!dvars)
  OBVIOUS
<1>1. Inv'
  BY NextInv DEF DeliveryInv
<1>2. StepOK
  <2>1. CASE Edit
    BY <1>1, <2>1, MutateStep DEF Edit
  <2>2. CASE Compact
    BY <1>1, <2>2, IdleStep, CompactKeyStep DEF Compact
  <2>3. CASE PlanPush \/ ParkOversized \/ ApplyBatch \/ ReleaseReserved
    BY <1>1, <2>3, PlanPushStep, ParkOversizedStep, ApplyBatchStep, IdleStep
  <2>4. CASE ServePush \/ ServeLate
    BY <1>1, <2>4, ServePushStep, ServeLateStep
  <2>5. CASE ReceiveReply \/ RefuseTooLarge \/ TransportError
    BY <1>1, <2>5, InHandStep
  <2>6. CASE BackoffTick
    BY <1>1, <2>6, BackoffTickStep
  <2>7. CASE Crashes
    BY <1>1, <2>7, IdleStep, CrashInPlanStep, CrashInMutateStep, CrashInCompactStep,
       CrashInApplyStep DEF Crashes
  <2>8. CASE UNCHANGED vars
    BY <1>1, <2>8, IdleStep
  <2>9. QED
    BY <2>1, <2>2, <2>3, <2>4, <2>5, <2>6, <2>7, <2>8 DEF Next, Pushing
<1>3. QED
  BY <1>1, <1>2 DEF StepOK, DeliveryInv

(* The outbox of the collection client keeps the promise of Delivery: an   *)
(* event leaves the queue only confirmed by a server that holds it, parked *)
(* or replaced by a later edit, and never comes back.                      *)
THEOREM Delivers == Spec => ImplementsDelivery
<1>1. Init => D!Init /\ DeliveryInv
  BY InitDelivers
<1>2. DeliveryInv /\ [Next]_vars => DeliveryInv' /\ [D!Next]_(D!dvars)
  BY NextDelivers
<1>3. QED
  BY <1>1, <1>2, PTL DEF Spec, ImplementsDelivery, D!Spec

-----------------------------------------------------------------------------
(* The switches that the following theorems need.                          *)

Unfolded == ~CompactOnWrite /\ ~ManualCompact       \* nothing is folded
Steady   == MaxCrashes = 0                          \* the process does not die
Lossless == Steady /\ "transport" \notin Faults     \* and every reply arrives
InTurn   == Steady /\ Faults \subseteq {"reject"}   \* and nothing is sent twice

-----------------------------------------------------------------------------
(* What the steps write.                                                   *)

(* Where the process does not die, no step is a crash.                     *)
LEMMA NoCrash ==
  ASSUME Steady, TypeOK
  PROVE  ~Crashes
<1>1. ~Restart
  BY DEF Restart, Steady, TypeOK
<1>2. QED
  BY <1>1 DEF Crashes, Crash, CrashInPlan, CrashInMutate, CrashInCompact, CrashInApply

(* An edit leaves reserved and synced rows alone; what else it writes has  *)
(* a fresh id or that of a row it folds.                                   *)
LEMMA MutateWrites ==
  ASSUME DeliveryInv, Inv', NEW ks \in SUBSET Keys, NEW type \in MutationTypes,
         Mutate(ks, type)
  PROVE  /\ nextId \in Nat /\ nextId <= nextId'
         /\ \A e \in DOMAIN outbox' :
              \/ e \in DOMAIN outbox /\ outbox'[e] = outbox[e]
              \/ e \in Unsynced \ reserved /\ outbox'[e].status = "pending"
              \/ e >= nextId /\ outbox'[e].status = "pending"
         /\ \A e \in DOMAIN outbox : e \in reserved \/ e \notin Unsynced =>
              e \in DOMAIN outbox' /\ outbox'[e] = outbox[e]
<1>1. Inv /\ TypeOK /\ TypeOK' /\ IdsDrawn /\ CanMutate(ks, type)
  BY DEF DeliveryInv, Inv, Mutate
<1>2. outbox' = HookWrites(ks, type) /\ nextId' = nextId + Cardinality(ks)
  BY DEF Mutate
<1>3. nextId \in Nat /\ nextId <= nextId'
  <2>1. IsFiniteSet(Keys)
    BY FS_Interval, BoundsAssumption DEF Keys
  <2>2. Cardinality(ks) \in Nat /\ nextId \in Nat
    BY <1>1, <2>1, FS_Subset, FS_CardinalityType DEF TypeOK
  <2>3. QED
    BY <1>2, <2>2
<1> DEFINE ob == HookWrites(ks, type)
           written == {EidFor(ks, type, k) : k \in ks}
<1>4. /\ \A e \in DOMAIN ob :
           IF \E k \in ks : EidFor(ks, type, k) = e
           THEN /\ ob[e].status = "pending"
                /\ IdsDrawn => ob[e].seq = e
           ELSE /\ e \in DOMAIN outbox /\ ob[e] = outbox[e]
                /\ \A k \in ks : e \notin Folded(type, k)
      /\ \A e \in DOMAIN outbox : (\A k \in ks : e \notin Folded(type, k)) => e \in DOMAIN ob
  BY <1>1, HookWritesType
<1>5. outbox' = ob
  BY <1>2
<1>6. \A e \in written : e \in Unsynced \ reserved \/ e >= nextId
  BY <1>1, <1>2, EidForIs
<1>7. \A e \in DOMAIN outbox : e < nextId /\ e \in Nat
  BY <1>1, BoundsAssumption DEF TypeOK, IdsDrawn, PartialFunction, Ids
<1> HIDE DEF ob
<1>8. ASSUME NEW e \in DOMAIN outbox'
      PROVE  \/ e \in DOMAIN outbox /\ outbox'[e] = outbox[e]
             \/ e \in Unsynced \ reserved /\ outbox'[e].status = "pending"
             \/ e >= nextId /\ outbox'[e].status = "pending"
  BY <1>4, <1>5, <1>6
<1>9. ASSUME NEW e \in DOMAIN outbox, e \in reserved \/ e \notin Unsynced
      PROVE  e \in DOMAIN outbox' /\ outbox'[e] = outbox[e]
  <2>1. e \notin written
    BY <1>3, <1>6, <1>7, <1>9
  <2>2. \A k \in ks : e \notin Folded(type, k)
    BY <1>1, <1>9, FoldedUnsynced DEF TypeOK
  <2>3. QED
    BY <1>4, <1>5, <2>1, <2>2
<1>10. QED
  BY <1>3, <1>8, <1>9

(* So does the compaction of a row, which draws no id.                     *)
LEMMA CompactKeyWrites ==
  ASSUME DeliveryInv, NEW k \in Keys, CompactKey(k)
  PROVE  /\ DOMAIN outbox' \subseteq DOMAIN outbox
         /\ \A e \in DOMAIN outbox' : outbox'[e].status = "pending" \/ outbox'[e] = outbox[e]
         /\ \A e \in DOMAIN outbox : e \in reserved \/ e \notin Unsynced =>
              e \in DOMAIN outbox' /\ outbox'[e] = outbox[e]
<1>1. PartialFunction(outbox, Ids, Row)
  BY DEF DeliveryInv, Inv, TypeOK
<1>2. QED
  BY <1>1, CompactedType DEF CompactKey

(* The plan reserves what is due and leaves every event as it is.          *)
LEMMA PlanPushWrites ==
  ASSUME DeliveryInv, PlanPush
  PROVE  /\ DOMAIN outbox' = DOMAIN outbox /\ Unsynced' = Unsynced
         /\ \A e \in DOMAIN outbox : SameEvent(outbox[e], outbox'[e])
         /\ reserved' = Due /\ Due \subseteq Unsynced
<1>1. Inv /\ PartialFunction(outbox, Ids, Row)
  BY DEF DeliveryInv, Inv, TypeOK
<1>2. outbox' = Marked(ToMark) /\ reserved' = Due
  BY DEF PlanPush
<1>3. ToMark \subseteq Unsynced /\ Due \subseteq Unsynced
  BY <1>1, PlannedIsDue DEF ToMark
<1>4. DOMAIN outbox' = DOMAIN outbox /\ Unsynced' = Unsynced
  BY <1>1, <1>2, <1>3, MarkedIsQueued
<1>5. \A e \in DOMAIN outbox : SameEvent(outbox[e], outbox'[e])
  BY <1>1, <1>2, MarkedType DEF SameEvent
<1>6. QED
  BY <1>2, <1>3, <1>4, <1>5

(* The rows parked for their size leave the outbox for the dead letters.   *)
LEMMA ParkOversizedWrites ==
  ASSUME DeliveryInv, ParkOversized
  PROVE  /\ push.oversized \subseteq Unsynced
         /\ DOMAIN outbox' = DOMAIN outbox \ push.oversized
         /\ \A e \in DOMAIN outbox' : outbox'[e] = outbox[e]
         /\ deadletter' = Parked(push.oversized)
<1>1. push.oversized \subseteq Unsynced
  BY DEF DeliveryInv, DecidedAreHeld
<1>2. outbox' = Rewrite(outbox, push.oversized, NoOutcome) /\ deadletter' = Parked(push.oversized)
  BY DEF ParkOversized
<1>3. QED
  BY <1>1, <1>2, NothingYet DEF Rewrite

(* The answered rows a batch parks leave too, the others stay as events.   *)
LEMMA ApplyBatchWrites ==
  ASSUME DeliveryInv, ApplyBatch
  PROVE  LET P == DOMAIN push.acc
             yes == {e \in P : push.acc[e] = "confirmed"}
         IN  /\ P \subseteq Unsynced \cap reserved
             /\ Gone(P) \subseteq P \ yes
             /\ Unsynced' = (Unsynced \ yes) \ Gone(P)
             /\ DOMAIN outbox' = DOMAIN outbox \ Gone(P)
             /\ \A e \in DOMAIN outbox' : SameEvent(outbox[e], outbox'[e])
             /\ \A e \in DOMAIN outbox' :
                  outbox'[e] = IF e \in P THEN AppliedRow(e) ELSE outbox[e]
             /\ deadletter' = Parked(Gone(P))
<1> DEFINE P == DOMAIN push.acc
           yes == {e \in P : push.acc[e] = "confirmed"}
<1>1. Inv /\ P \subseteq Unsynced \cap reserved /\ P \subseteq DOMAIN outbox
  BY DEF DeliveryInv, DecidedAreHeld, Unsynced
<1>2. P \cap DOMAIN outbox = P /\ P \subseteq DOMAIN push.acc \cap Unsynced
  BY <1>1
<1>3. outbox' = Applied(P) /\ deadletter' = Parked(Gone(P))
  BY <1>2 DEF ApplyBatch
<1>4. Gone(P) \subseteq P \ yes /\ Unsynced' = (Unsynced \ yes) \ Gone(P)
  BY <1>1, <1>2, <1>3, AppliedRows
<1>5. /\ DOMAIN outbox' = DOMAIN outbox \ Gone(P)
      /\ \A e \in DOMAIN outbox' : outbox'[e] = IF e \in P THEN AppliedRow(e) ELSE outbox[e]
  BY <1>3 DEF Applied
<1>6. \A e \in DOMAIN outbox : outbox[e] \in Row
  BY <1>1 DEF Inv, TypeOK, PartialFunction
<1>7. ASSUME NEW e \in DOMAIN outbox' PROVE SameEvent(outbox[e], outbox'[e])
  <2>1. outbox[e] \in Row
    BY <1>5, <1>6
  <2>2. SameEvent(outbox[e], AppliedRow(e))
    BY <2>1 DEF AppliedRow, SameEvent, Row
  <2>3. QED
    BY <1>5, <2>2 DEF SameEvent
<1>8. QED
  BY <1>1, <1>3, <1>4, <1>5, <1>7

(* Time leaves every event as it is.                                       *)
LEMMA BackoffTickWrites ==
  ASSUME DeliveryInv, BackoffTick
  PROVE  /\ DOMAIN outbox' = DOMAIN outbox /\ Unsynced' = Unsynced
         /\ \A e \in DOMAIN outbox : SameEvent(outbox[e], outbox'[e])
         /\ UNCHANGED <<log, deadletter, local, heads, nextId, reserved, compacting, push,
                        late, crashes>>
<1>1. \A e \in DOMAIN outbox : outbox[e] \in Row
  BY DEF DeliveryInv, Inv, TypeOK, PartialFunction
<1>2. /\ DOMAIN outbox' = DOMAIN outbox
      /\ \A e \in DOMAIN outbox :
           outbox'[e] = [outbox[e] EXCEPT !.wait = IF outbox[e].wait > 0 THEN outbox[e].wait - 1 ELSE 0]
      /\ UNCHANGED <<log, deadletter, local, heads, nextId, reserved, compacting, push,
                     late, crashes>>
  BY DEF BackoffTick
<1>3. ASSUME NEW e \in DOMAIN outbox
      PROVE  SameEvent(outbox[e], outbox'[e]) /\ outbox'[e].status = outbox[e].status
  <2>1. outbox[e] \in Row
    BY <1>1
  <2>2. QED
    BY <1>2, <2>1 DEF SameEvent, Row
<1>4. Unsynced' = Unsynced
  BY <1>2, <1>3 DEF Unsynced
<1>5. QED
  BY <1>2, <1>3, <1>4

(* The events themselves are the business of few steps.                    *)
LEMMA OtherSteps ==
  ASSUME [Next]_vars, ~Edit, ~PlanPush, ~ParkOversized, ~ApplyBatch, ~BackoffTick, ~Crashes,
         ~\E k \in Keys : CompactKey(k)
  PROVE  UNCHANGED <<outbox, deadletter, local, heads, nextId>>
BY DEF Next, Compact, StartCompact, Pushing, ReleaseReserved, ServePush, ReceiveReply,
       RefuseTooLarge, TransportError, ServeLate, vars

-----------------------------------------------------------------------------
(* Without crashes an event is queued or parked, not both, and once parked *)
(* it is not sent again.                                                   *)

DeadDrawn == DOMAIN deadletter \subseteq DrawnIds
DeadApart == DOMAIN deadletter \cap DOMAIN outbox = {}
DeadInv   == DeliveryInv /\ DeadDrawn /\ DeadApart

(* Events move from the outbox to the dead letters, and only fresh ones    *)
(* come into the outbox.                                                   *)
Moves ==
  /\ DOMAIN deadletter' \subseteq DOMAIN deadletter \cup (DOMAIN outbox \ DOMAIN outbox')
  /\ \A e \in DOMAIN outbox' : e \in DOMAIN outbox \/ e >= nextId
  /\ nextId <= nextId'

(* That is what every step without a crash does.                           *)
LEMMA StepMoves ==
  ASSUME DeliveryInv, Inv', [Next]_vars, ~Crashes
  PROVE  Moves
<1>1. nextId \in Nat
  BY DEF DeliveryInv, Inv, TypeOK
<1>2. CASE Edit
  <2>1. PICK ks \in SUBSET Keys, type \in MutationTypes : Mutate(ks, type)
    BY <1>2 DEF Edit
  <2>2. deadletter' = deadletter
    BY <2>1 DEF Mutate
  <2>3. nextId <= nextId' /\ \A e \in DOMAIN outbox' : e \in DOMAIN outbox \/ e >= nextId
    <3>1. /\ nextId \in Nat /\ nextId <= nextId'
          /\ \A e \in DOMAIN outbox' :
               \/ e \in DOMAIN outbox /\ outbox'[e] = outbox[e]
               \/ e \in Unsynced \ reserved /\ outbox'[e].status = "pending"
               \/ e >= nextId /\ outbox'[e].status = "pending"
      BY <2>1, MutateWrites
    <3>2. QED
      BY <3>1 DEF Unsynced
  <2>4. QED
    BY <2>2, <2>3 DEF Moves
<1>3. CASE \E k \in Keys : CompactKey(k)
  BY <1>1, <1>3, CompactKeyWrites DEF Moves, CompactKey
<1>4. CASE PlanPush
  BY <1>1, <1>4, PlanPushWrites DEF Moves, PlanPush
<1>5. CASE ParkOversized
  <2>1. nextId' = nextId
    BY <1>5 DEF ParkOversized
  <2>2. /\ push.oversized \subseteq Unsynced /\ DOMAIN outbox' = DOMAIN outbox \ push.oversized
        /\ deadletter' = Parked(push.oversized)
    BY <1>5, ParkOversizedWrites
  <2>3. QED
    BY <1>1, <2>1, <2>2 DEF Moves, Parked, Unsynced
<1>6. CASE ApplyBatch
  <2>1. nextId' = nextId
    BY <1>6 DEF ApplyBatch
  <2> DEFINE gone == Gone(DOMAIN push.acc)
  <2>2. /\ gone \subseteq DOMAIN push.acc /\ DOMAIN push.acc \subseteq Unsynced
        /\ DOMAIN outbox' = DOMAIN outbox \ gone
        /\ deadletter' = Parked(gone)
    BY <1>6, ApplyBatchWrites
  <2> HIDE DEF gone
  <2>3. QED
    BY <1>1, <2>1, <2>2 DEF Moves, Parked, Unsynced
<1>7. CASE BackoffTick
  BY <1>1, <1>7, BackoffTickWrites DEF Moves
<1>8. CASE UNCHANGED <<outbox, deadletter, nextId>>
  BY <1>1, <1>8 DEF Moves
<1>9. QED
  BY <1>2, <1>3, <1>4, <1>5, <1>6, <1>7, <1>8, OtherSteps

(* So the two stay apart.                                                  *)
LEMMA NextDeadInv ==
  ASSUME Steady, DeadInv, [Next]_vars
  PROVE  DeadInv'
<1>1. DeliveryInv /\ DeliveryInv' /\ Inv /\ Inv' /\ TypeOK /\ TypeOK'
  BY NextDelivers DEF DeadInv, DeliveryInv, Inv
<1>2. Moves
  BY <1>1, NoCrash, StepMoves
<1>3. nextId \in Nat /\ DrawnIds \subseteq DrawnIds' /\ \A e \in DrawnIds : e < nextId
  <2>1. nextId \in Nat
    BY <1>1 DEF TypeOK
  <2>2. QED
    BY <1>1, <1>2, <2>1, DrawnGrows DEF Moves, DrawnIds
<1>4. DOMAIN outbox \subseteq DrawnIds
  <2>1. \A e \in DOMAIN outbox : e < nextId /\ e \in Nat /\ e >= 1
    BY <1>1, BoundsAssumption DEF Inv, TypeOK, IdsDrawn, PartialFunction, Ids
  <2>2. QED
    BY <1>3, <2>1 DEF DrawnIds
<1>5. DeadDrawn'
  BY <1>2, <1>3, <1>4 DEF DeadInv, DeadDrawn, Moves
<1>6. DeadApart'
  <2>1. ASSUME NEW e \in DOMAIN deadletter', e \in DOMAIN outbox' PROVE FALSE
    <3>1. e \in DOMAIN deadletter
      BY <1>2, <2>1 DEF Moves
    <3>2. e < nextId /\ e \notin DOMAIN outbox
      BY <1>3, <3>1 DEF DeadInv, DeadDrawn, DeadApart
    <3>3. e \in DrawnIds
      BY <3>1 DEF DeadInv, DeadDrawn
    <3>4. e \in Nat
      BY <1>3, <3>3 DEF DrawnIds
    <3>5. QED
      BY <1>2, <1>3, <2>1, <3>2, <3>4 DEF Moves
  <2>2. QED
    BY <2>1 DEF DeadApart
<1>7. QED
  BY <1>1, <1>5, <1>6 DEF DeadInv

(* While the process does not die, no event is both queued and parked.     *)
LEMMA DeadInvariance ==
  ASSUME Steady
  PROVE  Spec => []DeadInv
<1>1. Init => DeadInv
  <2>1. Init => DeliveryInv /\ DOMAIN deadletter = {} /\ DOMAIN outbox = {}
    BY InitDelivers DEF Init
  <2>2. QED
    BY <2>1 DEF DeadInv, DeadDrawn, DeadApart
<1>2. DeadInv /\ [Next]_vars => DeadInv'
  BY NextDeadInv
<1>3. QED
  BY <1>1, <1>2, PTL DEF Spec

(* In a process that does not die a parked event has left the queue for    *)
(* good: whatever folds, retries, lost and late replies do, no request     *)
(* carries it again.                                                       *)
THEOREM ParkedLeavesTheQueue ==
  ASSUME Steady
  PROVE  Spec => []ParkedIsNotSent
<1>1. DeadInv => ParkedIsNotSent
  BY DEF DeadInv, DeliveryInv, Inv, InFlightStable, Unsynced, DeadApart, ParkedIsNotSent
<1>2. QED
  BY <1>1, DeadInvariance, PTL

-----------------------------------------------------------------------------
(* Without folds an event stays as it was written: its outbox row, its     *)
(* dead letter, the server's copy and what may arrive late say the same.   *)

Kept == DOMAIN outbox \cup DOMAIN deadletter

Agrees(e, r) ==
  /\ e \in Kept /\ r.val = e
  /\ e \in DOMAIN outbox => outbox[e].tx = r.tx /\ outbox[e].type = r.type
  /\ e \in DOMAIN deadletter => deadletter[e].tx = r.tx /\ deadletter[e].type = r.type

AsWritten ==
  /\ compacting = {}
  /\ \A e \in DOMAIN outbox : Agrees(e, outbox[e])
  /\ \A e \in DOMAIN deadletter : Agrees(e, deadletter[e])
  /\ \A e \in DOMAIN log : Agrees(e, log[e])
  /\ \A r \in late : \A b \in Events(r) : Agrees(b.eid, b)
  /\ \A k \in Keys : local[k].live => local[k].val \in Kept

WordsInv == DeliveryInv /\ DeadDrawn /\ AsWritten

(* A transaction that folds nothing adds its rows to the outbox, each      *)
(* under an id of its own.                                                 *)
LEMMA UnfoldedWrites ==
  ASSUME Unfolded, DeliveryInv, NEW ks \in SUBSET Keys, NEW type \in MutationTypes,
         Mutate(ks, type)
  PROVE  LET new == {IdOf(ks, k) : k \in ks}
         IN  /\ DOMAIN outbox' = DOMAIN outbox \cup new
             /\ \A e \in DOMAIN outbox : outbox'[e] = outbox[e]
             /\ \A e \in new :
                  /\ e \in Ids /\ e >= nextId /\ e < nextId'
                  /\ \E k \in ks : outbox'[e] = UnsyncedRow(nextId, e, k, type, e,
                                     IF ConflictDetection THEN heads[k] ELSE NoEvent)
<1> DEFINE new == {IdOf(ks, k) : k \in ks}
           keyOf(e) == CHOOSE k \in ks : EidFor(ks, type, k) = e
           base(k) == IF ConflictDetection THEN heads[k] ELSE NoEvent
<1>1. TypeOK /\ IdsDrawn /\ CanMutate(ks, type) /\ nextId' = nextId + Cardinality(ks)
  BY DEF DeliveryInv, Inv, Mutate
<1>2. \A k \in ks : Folded(type, k) = {}
  BY DEF Folded, Unfolded
<1>3. \A k \in ks : /\ EidFor(ks, type, k) = IdOf(ks, k)
                    /\ RowFor(ks, type, k) = UnsyncedRow(nextId, IdOf(ks, k), k, type,
                                                         IdOf(ks, k), base(k))
  BY <1>2 DEF EidFor, RowFor
<1>4. UNION {Folded(type, k) : k \in ks} = {}
  BY <1>2
<1>5. {EidFor(ks, type, k) : k \in ks} = new
  BY <1>3
<1>6. outbox' = Rewrite(outbox, {}, [e \in new |-> RowFor(ks, type, keyOf(e))])
  <2>1. outbox' = Rewrite(outbox, UNION {Folded(type, k) : k \in ks},
                    [e \in {EidFor(ks, type, k) : k \in ks} |-> RowFor(ks, type, keyOf(e))])
    BY DEF Mutate, HookWrites
  <2>2. QED
    BY <2>1, <1>4, <1>5
<1>7. ASSUME NEW e \in new
      PROVE  keyOf(e) \in ks /\ IdOf(ks, keyOf(e)) = e
  BY <1>3, <1>7
<1>8. \A e \in new : e \in Ids /\ e >= nextId /\ e < nextId'
  BY <1>1, IdOfType
<1>9. ASSUME NEW e \in DOMAIN outbox PROVE e \notin new
  <2>1. e < nextId /\ e \in Nat /\ nextId \in Nat
    BY <1>1, BoundsAssumption DEF TypeOK, IdsDrawn, PartialFunction, Ids
  <2>2. QED
    BY <1>8, <2>1, BoundsAssumption DEF Ids
<1> HIDE DEF new, keyOf
<1>10. /\ DOMAIN outbox' = DOMAIN outbox \cup new
       /\ \A e \in new : outbox'[e] = RowFor(ks, type, keyOf(e))
       /\ \A e \in DOMAIN outbox \ new : outbox'[e] = outbox[e]
  BY <1>6 DEF Rewrite
<1>11. ASSUME NEW e \in new
       PROVE  \E k \in ks : outbox'[e] = UnsyncedRow(nextId, e, k, type, e, base(k))
  BY <1>3, <1>7, <1>10
<1>12. \A e \in DOMAIN outbox : outbox'[e] = outbox[e]
  BY <1>9, <1>10
<1>13. QED
  BY <1>8, <1>10, <1>11, <1>12 DEF new

(* No event is lost from the device, and none is changed; a row with a     *)
(* fresh id holds the payload of that id, and its transaction is new.      *)
WordsKept ==
  /\ Kept \subseteq Kept' /\ DOMAIN deadletter' \subseteq Kept /\ nextId <= nextId'
  /\ \A e \in DOMAIN outbox' : \/ e \in DOMAIN outbox /\ SameEvent(outbox[e], outbox'[e])
                               \/ /\ e \in DrawnIds' \ DrawnIds
                                  /\ outbox'[e].val = e /\ outbox'[e].tx = nextId
  /\ \A e \in DOMAIN deadletter' :
       \/ e \in DOMAIN deadletter /\ deadletter'[e] = deadletter[e]
       \/ e \in DOMAIN outbox /\ deadletter'[e] = outbox[e]

(* Rows move to the dead letters, or are recorded there on their way.      *)
LEMMA ParkingKeepsWords ==
  ASSUME DeliveryInv, nextId' = nextId, NEW S, S \subseteq DOMAIN outbox,
         deadletter' = Parked(S), DOMAIN outbox' \subseteq DOMAIN outbox,
         DOMAIN outbox \ DOMAIN outbox' \subseteq S,
         \A e \in DOMAIN outbox' : SameEvent(outbox[e], outbox'[e])
  PROVE  WordsKept
<1>1. nextId \in Nat
  BY DEF DeliveryInv, Inv, TypeOK
<1>2. QED
  BY <1>1 DEF WordsKept, Kept, Parked

(* Steps that leave the ids and the dead letters alone.                    *)
LEMMA OutboxKeepsWords ==
  ASSUME DeliveryInv, nextId' = nextId, deadletter' = deadletter,
         DOMAIN outbox' = DOMAIN outbox,
         \A e \in DOMAIN outbox' : SameEvent(outbox[e], outbox'[e])
  PROVE  WordsKept
<1>1. nextId \in Nat
  BY DEF DeliveryInv, Inv, TypeOK
<1>2. QED
  BY <1>1 DEF WordsKept, Kept

(* An edit that folds nothing writes words of its own.                     *)
LEMMA MutateKeepsWords ==
  ASSUME Unfolded, DeliveryInv, Inv', NEW ks \in SUBSET Keys, NEW type \in MutationTypes,
         Mutate(ks, type)
  PROVE  WordsKept
<1> DEFINE new == {IdOf(ks, k) : k \in ks}
<1>1. /\ DOMAIN outbox' = DOMAIN outbox \cup new
      /\ \A e \in DOMAIN outbox : outbox'[e] = outbox[e]
      /\ \A e \in new :
           /\ e \in Ids /\ e >= nextId /\ e < nextId'
           /\ \E k \in ks : outbox'[e] = UnsyncedRow(nextId, e, k, type, e,
                              IF ConflictDetection THEN heads[k] ELSE NoEvent)
  BY UnfoldedWrites
<1>2. nextId <= nextId' /\ deadletter' = deadletter
  BY MutateWrites DEF Mutate
<1>3. TypeOK /\ TypeOK'
  BY DEF DeliveryInv, Inv
<1> HIDE DEF new
<1>4. ASSUME NEW e \in new
      PROVE  e \in DrawnIds' \ DrawnIds /\ outbox'[e].val = e /\ outbox'[e].tx = nextId
  BY <1>1, <1>2, <1>3, DrawnGrows DEF UnsyncedRow
<1>5. QED
  BY <1>1, <1>2, <1>4 DEF WordsKept, Kept, SameEvent

(* A crash between the writes of a transaction that folds nothing.         *)
LEMMA CrashInMutateKeepsWords ==
  ASSUME Unfolded, DeliveryInv, Inv', CrashInMutate
  PROVE  WordsKept
<1>1. Inv /\ TypeOK /\ TypeOK' /\ nextId \in Nat
  BY DEF DeliveryInv, Inv, TypeOK
<1>2. PICK ks \in SUBSET Keys, type \in MutationTypes : HalfMutated(ks, type)
  BY <1>1, CrashInMutateIs
<1>3. \A k \in ks : Folded(type, k) = {}
  BY DEF Folded, Unfolded
<1>4. /\ DOMAIN outbox \subseteq DOMAIN outbox' /\ deadletter' = deadletter
      /\ nextId' = nextId + Cardinality(ks)
  BY <1>2, <1>3 DEF HalfMutated, CrashInMutate
<1>5. nextId <= nextId'
  <2>1. IsFiniteSet(Keys)
    BY FS_Interval, BoundsAssumption DEF Keys
  <2>2. Cardinality(ks) \in Nat
    BY <2>1, FS_Subset, FS_CardinalityType
  <2>3. QED
    BY <1>1, <1>4, <2>2
<1>6. ASSUME NEW e \in {EidFor(ks, type, k) : k \in ks}
      PROVE  /\ e \in DrawnIds' \ DrawnIds
             /\ HookWrites(ks, type)[e].val = e /\ HookWrites(ks, type)[e].tx = nextId
  <2> DEFINE keyOf == CHOOSE k \in ks : EidFor(ks, type, k) = e
  <2>1. keyOf \in ks /\ EidFor(ks, type, keyOf) = e
    BY <1>6
  <2>2. HookWrites(ks, type)[e] = RowFor(ks, type, keyOf)
    BY <1>6 DEF HookWrites, Rewrite
  <2> HIDE DEF keyOf
  <2>3. IdOf(ks, keyOf) = e
    BY <1>3, <2>1 DEF EidFor
  <2>4. RowFor(ks, type, keyOf).val = e /\ RowFor(ks, type, keyOf).tx = nextId
    BY <1>3, <2>1, <2>3 DEF RowFor, UnsyncedRow
  <2>5. e \in Ids /\ e >= nextId /\ e < nextId'
    BY <1>1, <1>2, <2>1, <2>3, IdOfType DEF HalfMutated
  <2>6. QED
    BY <1>1, <1>5, <2>2, <2>4, <2>5, DrawnGrows
<1>7. ASSUME NEW e \in DOMAIN outbox'
      PROVE  \/ e \in DOMAIN outbox /\ SameEvent(outbox[e], outbox'[e])
             \/ /\ e \in DrawnIds' \ DrawnIds
                /\ outbox'[e].val = e /\ outbox'[e].tx = nextId
  BY <1>2, <1>6 DEF HalfMutated, SameEvent
<1>8. QED
  BY <1>4, <1>5, <1>7 DEF WordsKept, Kept

(* Crashes lose no event when nothing is folded.                           *)
LEMMA CrashKeepsWords ==
  ASSUME Unfolded, WordsInv, Inv', Crashes
  PROVE  WordsKept
<1>1. DeliveryInv /\ Inv /\ PartialFunction(outbox, Ids, Row) /\ compacting = {}
  BY DEF WordsInv, AsWritten, DeliveryInv, Inv, TypeOK
<1>2. Crash \/ CrashInPlan \/ CrashInApply => nextId' = nextId
  BY DEF Crash, CrashInPlan, CrashInApply
<1>3. CASE Crash
  BY <1>1, <1>2, <1>3, OutboxKeepsWords DEF Crash, SameEvent
<1>4. CASE CrashInPlan
  <2>1. PICK S : outbox' = Marked(S) /\ deadletter' = deadletter
    BY <1>4 DEF CrashInPlan
  <2>2. DOMAIN outbox' = DOMAIN outbox /\ \A e \in DOMAIN outbox' : SameEvent(outbox[e], outbox'[e])
    BY <1>1, <2>1, MarkedType DEF SameEvent
  <2>3. QED
    BY <1>1, <1>2, <1>4, <2>1, <2>2, OutboxKeepsWords
<1>5. CASE CrashInMutate \/ CrashInCompact
  BY <1>1, <1>5, CrashInMutateKeepsWords DEF CrashInCompact
<1>6. CASE CrashInApply
  <2>1. PICK e \in DOMAIN push.acc \cap DOMAIN outbox :
          LET ready == {f \in DOMAIN push.acc \cap DOMAIN outbox : Before(f, e)}
          IN  \E gone \in {ready, ready \cup {e}} :
                /\ outbox' = Applied(ready) \/ outbox' = Applied(gone)
                /\ deadletter' = Parked(Gone(gone))
    BY <1>6 DEF CrashInApply
  <2>2. PICK S \in SUBSET DOMAIN outbox : /\ \E P \in SUBSET S : outbox' = Applied(P)
                                         /\ deadletter' = Parked(Gone(S))
    BY <2>1
  <2>3. PICK done \in SUBSET S : outbox' = Applied(done)
    BY <2>2
  <2>4. /\ DOMAIN outbox' = DOMAIN outbox \ Gone(done)
        /\ \A f \in DOMAIN outbox' : outbox'[f] = IF f \in done THEN AppliedRow(f) ELSE outbox[f]
    BY <2>3 DEF Applied
  <2>5. ASSUME NEW f \in DOMAIN outbox' PROVE SameEvent(outbox[f], outbox'[f])
    <3>1. outbox[f] \in Row
      BY <1>1, <2>4 DEF PartialFunction
    <3>2. SameEvent(outbox[f], AppliedRow(f))
      BY <3>1 DEF AppliedRow, SameEvent, Row
    <3>3. QED
      BY <2>4, <3>2 DEF SameEvent
  <2>6. Gone(done) \subseteq Gone(S) /\ Gone(S) \subseteq DOMAIN outbox
    BY <2>3 DEF Gone
  <2>7. QED
    BY <1>1, <1>2, <1>6, <2>2, <2>4, <2>5, <2>6, ParkingKeepsWords
<1>7. QED
  BY <1>3, <1>4, <1>5, <1>6 DEF Crashes

(* Every step keeps the words.                                             *)
LEMMA StepKeepsWords ==
  ASSUME Unfolded, WordsInv, Inv', [Next]_vars
  PROVE  WordsKept
<1>1. DeliveryInv /\ compacting = {}
  BY DEF WordsInv, AsWritten
<1>2. CASE Edit
  BY <1>1, <1>2, MutateKeepsWords DEF Edit
<1>3. CASE PlanPush
  BY <1>1, <1>3, PlanPushWrites, OutboxKeepsWords DEF PlanPush
<1>4. CASE ParkOversized
  <2>1. nextId' = nextId
    BY <1>4 DEF ParkOversized
  <2>2. /\ push.oversized \subseteq DOMAIN outbox
        /\ DOMAIN outbox' = DOMAIN outbox \ push.oversized
        /\ \A e \in DOMAIN outbox' : outbox'[e] = outbox[e]
        /\ deadletter' = Parked(push.oversized)
    BY <1>1, <1>4, ParkOversizedWrites DEF Unsynced
  <2>3. QED
    BY <1>1, <2>1, <2>2, ParkingKeepsWords DEF SameEvent
<1>5. CASE ApplyBatch
  <2>1. nextId' = nextId
    BY <1>5 DEF ApplyBatch
  <2> DEFINE gone == Gone(DOMAIN push.acc)
  <2>2. /\ gone \subseteq DOMAIN push.acc /\ DOMAIN push.acc \subseteq Unsynced
        /\ DOMAIN outbox' = DOMAIN outbox \ gone
        /\ \A e \in DOMAIN outbox' : SameEvent(outbox[e], outbox'[e])
        /\ deadletter' = Parked(gone)
    BY <1>1, <1>5, ApplyBatchWrites
  <2> HIDE DEF gone
  <2>3. gone \subseteq DOMAIN outbox
    BY <2>2 DEF Unsynced
  <2>4. QED
    BY <1>1, <2>1, <2>2, <2>3, ParkingKeepsWords
<1>6. CASE BackoffTick
  BY <1>1, <1>6, BackoffTickWrites, OutboxKeepsWords
<1>7. CASE Crashes
  BY <1>7, CrashKeepsWords
<1>8. CASE UNCHANGED <<outbox, deadletter, nextId>>
  BY <1>1, <1>8, OutboxKeepsWords DEF SameEvent
<1>9. CASE \E k \in Keys : CompactKey(k)
  BY <1>1, <1>9 DEF CompactKey
<1>10. QED
  BY <1>2, <1>3, <1>4, <1>5, <1>6, <1>7, <1>8, <1>9, OtherSteps

(* Agrees in the state after the step.                                     *)
AgreesAfter(e, r) ==
  /\ e \in Kept' /\ r.val = e
  /\ e \in DOMAIN outbox' => outbox'[e].tx = r.tx /\ outbox'[e].type = r.type
  /\ e \in DOMAIN deadletter' => deadletter'[e].tx = r.tx /\ deadletter'[e].type = r.type

(* A record that agreed with the device still does.                        *)
LEMMA AgreesKept ==
  ASSUME WordsInv, WordsKept, NEW e, NEW r, Agrees(e, r)
  PROVE  AgreesAfter(e, r)
<1>1. e \in Kept /\ r.val = e /\ e \in Kept'
  BY DEF Agrees, WordsKept
<1>2. e \in DrawnIds
  <2>1. \A f \in DOMAIN outbox : f < nextId /\ f \in Nat /\ f >= 1 /\ nextId \in Nat
    BY BoundsAssumption DEF WordsInv, DeliveryInv, Inv, TypeOK, IdsDrawn, PartialFunction, Ids
  <2>2. QED
    BY <1>1, <2>1 DEF Kept, DrawnIds, WordsInv, DeadDrawn
<1>3. ASSUME e \in DOMAIN outbox' PROVE outbox'[e].tx = r.tx /\ outbox'[e].type = r.type
  BY <1>2, <1>3 DEF WordsKept, SameEvent, Agrees
<1>4. ASSUME e \in DOMAIN deadletter'
      PROVE  deadletter'[e].tx = r.tx /\ deadletter'[e].type = r.type
  BY <1>4 DEF WordsKept, Agrees
<1>5. QED
  BY <1>1, <1>3, <1>4 DEF AgreesAfter

(* What is in flight agrees with the outbox row it was made from.          *)
LEMMA FlightAgrees ==
  ASSUME WordsInv, NEW b \in InFlight
  PROVE  Agrees(b.eid, b) /\ b.eid \in DOMAIN outbox
<1>1. b.eid \in DOMAIN outbox /\ b = Body(b.eid)
  BY DEF WordsInv, DeliveryInv, Inv, InFlightStable, Unsynced
<1>2. b.val = outbox[b.eid].val /\ b.tx = outbox[b.eid].tx /\ b.type = outbox[b.eid].type
  BY <1>1 DEF Body
<1>3. Agrees(b.eid, outbox[b.eid])
  BY <1>1 DEF WordsInv, AsWritten
<1>4. QED
  BY <1>1, <1>2, <1>3 DEF Agrees

(* A stored event is the event that was sent.                              *)
LEMMA StoredIsSent ==
  ASSUME NEW g, NEW result \in ServerResults(g, Faults), NEW e \in DOMAIN result.log
  PROVE  \/ e \in DOMAIN log /\ result.log[e] = log[e]
         \/ \E b \in g : /\ b.eid = e /\ result.log[e].tx = b.tx /\ result.log[e].key = b.key
                         /\ result.log[e].type = b.type /\ result.log[e].val = b.val
<1>1. \/ result = Result(Appended(g), AllConfirmed(g))
      \/ result = Result(log, Aborted(g, Conflicting(g), "conflict"))
      \/ \E b \in Fresh(g) : result = Result(log, Aborted(g, {b}, "rejected"))
      \/ result = Result(log, AllTransient(g))
  BY DEF ServerResults
<1>2. result.log = Appended(g) \/ result.log = log
  <2>1. CASE result = Result(Appended(g), AllConfirmed(g))
    BY <2>1 DEF Result
  <2>2. ASSUME NEW answer, result = Result(log, answer) PROVE result.log = log
    BY <2>2 DEF Result
  <2>3. QED
    BY <1>1, <2>1, <2>2
<1>3. CASE e \in DOMAIN log
  BY <1>3, <1>2, ServerKeepsEvents
<1>4. CASE e \notin DOMAIN log
  <2> DEFINE b == CHOOSE c \in g : c.eid = e
             place == Cardinality(DOMAIN log)
                        + Cardinality(Eids({c \in Fresh(g) : c.seq <= b.seq}))
  <2>1. result.log = Appended(g) /\ e \in Eids(g)
    BY <1>2, <1>4 DEF Appended
  <2>2. b \in g /\ b.eid = e
    BY <2>1 DEF Eids
  <2>3. result.log[e] = StoredEvent(b, place)
    BY <1>4, <2>1 DEF Appended
  <2> HIDE DEF b, place
  <2>4. QED
    BY <2>2, <2>3 DEF StoredEvent
<1>5. QED
  BY <1>3, <1>4

(* A group on the wire, or in a late request, agrees with the device.      *)
LEMMA ServedAgrees ==
  ASSUME WordsInv, ServePush \/ ServeLate
  PROVE  /\ \A e \in DOMAIN log' : Agrees(e, log'[e])
         /\ \A r \in late' : \A b \in Events(r) : Agrees(b.eid, b)
<1>1. Inv /\ AsWritten
  BY DEF WordsInv, DeliveryInv
<1>2. \E g : /\ \A b \in g : Agrees(b.eid, b)
             /\ \E result \in ServerResults(g, Faults) : log' = result.log
             /\ \A r \in late' : \A b \in Events(r) : Agrees(b.eid, b)
  <2>1. CASE ServePush
    <3>1. PICK result \in ServerResults(Head1(push.open), Faults) : log' = result.log
      BY <2>1 DEF ServePush
    <3>2. push.open \in Requests /\ {} \notin push.open /\ push.open # {} /\ late' = late
      BY <1>1, <2>1, PostedType DEF Inv, TypeOK, AnswersSent, WholeGroups, Posted, ServePush
    <3>3. Head1(push.open) \in push.open
      BY <3>2, Head1In
    <3>4. Head1(push.open) \subseteq InFlight
      BY <1>1, <3>3 DEF Inv, AnswersSent, InFlight, Posted, Events
    <3>5. QED
      BY <1>1, <3>1, <3>2, <3>4, FlightAgrees DEF AsWritten
  <2>2. CASE ServeLate
    <3>1. PICK r \in late :
            LET g == Head1(r)
                rest == IF r = {g} THEN {} ELSE {r \ {g}}
            IN  /\ late' = (late \ {r}) \cup rest
                /\ \E result \in ServerResults(g, Faults) : log' = result.log
      BY <2>2 DEF ServeLate
    <3>2. PICK result \in ServerResults(Head1(r), Faults) : log' = result.log
      BY <3>1
    <3>3. r \in Requests /\ r # {} /\ {} \notin r
      BY <1>1 DEF Inv, TypeOK, WholeGroups
    <3>4. Head1(r) \in r
      BY <3>3, Head1In
    <3>5. \A q \in late' : q \in late \/ q = r \ {Head1(r)}
      BY <3>1
    <3>6. \A q \in late' : Events(q) \subseteq Events(r) \/ q \in late
      BY <3>5 DEF Events
    <3>7. Head1(r) \subseteq Events(r)
      BY <3>4 DEF Events
    <3>8. QED
      BY <1>1, <3>2, <3>6, <3>7 DEF AsWritten
  <2>3. QED
    BY <2>1, <2>2
<1>0. PICK g : /\ \A b \in g : Agrees(b.eid, b)
               /\ \E result \in ServerResults(g, Faults) : log' = result.log
               /\ \A r \in late' : \A b \in Events(r) : Agrees(b.eid, b)
  BY <1>2
<1>3. ASSUME NEW e \in DOMAIN log' PROVE Agrees(e, log'[e])
  <2>0. PICK result \in ServerResults(g, Faults) : log' = result.log
    BY <1>0
  <2>1. CASE e \in DOMAIN log /\ log'[e] = log[e]
    BY <1>1, <2>1 DEF AsWritten
  <2>2. CASE \E b \in g : /\ b.eid = e /\ log'[e].tx = b.tx
                          /\ log'[e].type = b.type /\ log'[e].val = b.val
    BY <1>0, <2>2 DEF Agrees
  <2>3. QED
    BY <2>0, <2>1, <2>2, StoredIsSent
<1>4. QED
  BY <1>0, <1>3

(* What a step leaves on the server, and of late requests, agrees with     *)
(* the device before it.                                                   *)
LEMMA ServerAgrees ==
  ASSUME WordsInv, [Next]_vars
  PROVE  /\ \A e \in DOMAIN log' : Agrees(e, log'[e])
         /\ \A r \in late' : \A b \in Events(r) : Agrees(b.eid, b)
<1>1. CASE ServePush \/ ServeLate
  BY <1>1, ServedAgrees
<1>2. CASE ~(ServePush \/ ServeLate)
  <2>1. log' = log /\ (late' = late \/ late' \in Abandoned)
    BY <1>2 DEF Next, Edit, Mutate, Compact, StartCompact, CompactKey, Pushing, PlanPush,
                ParkOversized, ApplyBatch, ReleaseReserved, ReceiveReply, RefuseTooLarge,
                TransportError, BackoffTick, Crashes, Crash, CrashInPlan, CrashInMutate,
                CrashInCompact, CrashInApply, Restart, vars
  <2>2. \A r \in late' : r \in late \/ r = push.open
    BY <2>1 DEF Abandoned
  <2>3. \A b \in Events(push.open) : Agrees(b.eid, b)
    <3>1. Events(push.open) \subseteq InFlight
      BY DEF WordsInv, DeliveryInv, Inv, AnswersSent, InFlight, Posted, Events
    <3>2. QED
      BY <3>1, FlightAgrees
  <2>4. QED
    BY <2>1, <2>2, <2>3 DEF WordsInv, AsWritten
<1>3. QED
  BY <1>1, <1>2

(* The user sees an edit that is kept.                                     *)
LEMMA LocalAgrees ==
  ASSUME Unfolded, WordsInv, Inv', [Next]_vars, WordsKept,
         NEW k \in Keys, local'[k].live
  PROVE  local'[k].val \in Kept'
<1>1. CASE Edit
  <2>1. PICK ks \in SUBSET Keys, type \in MutationTypes : Mutate(ks, type)
    BY <1>1 DEF Edit
  <2>2. local'[k] = IF k \in ks THEN [val |-> IdOf(ks, k), live |-> type # "delete"] ELSE local[k]
    BY <2>1 DEF Mutate
  <2>3. CASE k \in ks
    <3>1. IdOf(ks, k) \in DOMAIN outbox'
      BY <2>1, <2>3, UnfoldedWrites DEF WordsInv
    <3>2. QED
      BY <2>2, <2>3, <3>1 DEF Kept
  <2>4. CASE k \notin ks
    BY <2>2, <2>4 DEF WordsInv, AsWritten, WordsKept
  <2>5. QED
    BY <2>3, <2>4
<1>2. CASE local' = local
  BY <1>2 DEF WordsInv, AsWritten, WordsKept
<1>3. QED
  BY <1>1, <1>2 DEF Next, Compact, StartCompact, CompactKey, Pushing, PlanPush,
                    ParkOversized, ApplyBatch, ReleaseReserved, ServePush, ReceiveReply,
                    RefuseTooLarge, TransportError, ServeLate, BackoffTick, Crashes, Crash,
                    CrashInPlan, CrashInMutate, CrashInCompact, CrashInApply, Restart, vars

(* The events stay as they were written.                                   *)
LEMMA NextWordsInv ==
  ASSUME Unfolded, WordsInv, [Next]_vars
  PROVE  WordsInv'
<1>1. DeliveryInv /\ DeliveryInv' /\ Inv' /\ TypeOK /\ TypeOK' /\ AsWritten
  BY NextDelivers DEF WordsInv, DeliveryInv, Inv
<1>2. WordsKept
  BY <1>1, StepKeepsWords
<1>3. \A e, r : Agrees(e, r) => AgreesAfter(e, r)
  BY <1>2, AgreesKept
<1>4. Kept \subseteq DrawnIds /\ DrawnIds \subseteq DrawnIds'
  <2>1. \A f \in DOMAIN outbox : f < nextId /\ f \in Nat /\ f >= 1 /\ nextId \in Nat
    BY <1>1, BoundsAssumption DEF DeliveryInv, Inv, TypeOK, IdsDrawn, PartialFunction, Ids
  <2>2. DrawnIds \subseteq DrawnIds'
    BY <1>1, <1>2, DrawnGrows DEF WordsKept
  <2>3. QED
    BY <2>1, <2>2 DEF Kept, DrawnIds, WordsInv, DeadDrawn
<1>5. DeadDrawn'
  BY <1>2, <1>4 DEF WordsKept, DeadDrawn
<1>6. compacting' = {}
  BY <1>1 DEF AsWritten, Unfolded, Next, Edit, Mutate, Compact, StartCompact, CompactKey,
              Pushing, PlanPush, ParkOversized, ApplyBatch, ReleaseReserved, ServePush,
              ReceiveReply, RefuseTooLarge, TransportError, ServeLate, BackoffTick, Crashes,
              Crash, CrashInPlan, CrashInMutate, CrashInCompact, CrashInApply, Restart, vars
<1>7. ASSUME NEW e \in DOMAIN outbox' PROVE AgreesAfter(e, outbox'[e])
  <2>1. CASE e \in DOMAIN outbox /\ SameEvent(outbox[e], outbox'[e])
    <3>1. AgreesAfter(e, outbox[e])
      BY <1>1, <1>3, <2>1 DEF AsWritten
    <3>2. QED
      BY <2>1, <3>1 DEF AgreesAfter, SameEvent
  <2>2. CASE e \in DrawnIds' \ DrawnIds /\ outbox'[e].val = e
    <3>1. e \notin DOMAIN deadletter'
      BY <1>2, <1>4, <2>2 DEF WordsKept
    <3>2. QED
      BY <1>7, <2>2, <3>1 DEF AgreesAfter, Kept
  <2>3. QED
    BY <1>2, <2>1, <2>2 DEF WordsKept
<1>8. ASSUME NEW e \in DOMAIN deadletter' PROVE AgreesAfter(e, deadletter'[e])
  <2>1. Agrees(e, deadletter'[e])
    BY <1>1, <1>2 DEF AsWritten, WordsKept
  <2>2. QED
    BY <1>3, <2>1
<1>9. /\ \A e \in DOMAIN log' : AgreesAfter(e, log'[e])
      /\ \A r \in late' : \A b \in Events(r) : AgreesAfter(b.eid, b)
  BY <1>3, ServerAgrees
<1>10. \A k \in Keys : local'[k].live => local'[k].val \in Kept'
  BY <1>1, <1>2, LocalAgrees
<1>11. AsWritten'
  BY <1>6, <1>7, <1>8, <1>9, <1>10 DEF AsWritten, Agrees, AgreesAfter
<1>12. QED
  BY <1>1, <1>5, <1>11 DEF WordsInv

(* Nothing has been written at the start.                                  *)
LEMMA InitWordsInv == Init => WordsInv
<1> SUFFICES ASSUME Init PROVE WordsInv
  OBVIOUS
<1>1. /\ DOMAIN outbox = {} /\ DOMAIN deadletter = {} /\ DOMAIN log = {} /\ late = {}
      /\ compacting = {} /\ \A k \in Keys : ~local[k].live
  BY DEF Init, LogInit
<1>2. QED
  BY <1>1, InitDelivers DEF WordsInv, DeadDrawn, AsWritten

(* In every behaviour without folds, what was written stays.               *)
LEMMA WordsInvariance ==
  ASSUME Unfolded
  PROVE  Spec => []WordsInv
<1>1. WordsInv /\ [Next]_vars => WordsInv'
  BY NextWordsInv
<1>2. QED
  BY <1>1, InitWordsInv, PTL DEF Spec

(* A client that folds nothing never forgets an edit the user still sees,  *)
(* whatever crashes, late replies and refusals do: its event is queued,    *)
(* parked or stored.                                                       *)
THEOREM EditsAreKept ==
  ASSUME Unfolded
  PROVE  Spec => []NoEditForgotten
<1>1. WordsInv => NoEditForgotten
  <2> SUFFICES ASSUME WordsInv, NEW k \in Keys, local[k].live
               PROVE  \/ \E e \in DOMAIN outbox     : outbox[e].val = local[k].val
                      \/ \E e \in DOMAIN deadletter : deadletter[e].val = local[k].val
    BY DEF NoEditForgotten
  <2>1. local[k].val \in Kept /\ AsWritten
    BY DEF WordsInv, AsWritten
  <2>2. QED
    BY <2>1 DEF Kept, AsWritten, Agrees
<1>2. QED
  BY <1>1, WordsInvariance, PTL

-----------------------------------------------------------------------------
(* How a push moves on.                                                    *)

(* It has nothing in hand when it rests.                                   *)
LEMMA RestingIs ==
  ASSUME NEW rest, push' = Resting(rest)
  PROVE  /\ push'.phase = rest /\ push'.queue = {} /\ push'.oversized = {}
         /\ push'.todo = <<>> /\ push'.sent = {} /\ push'.open = {}
         /\ DOMAIN push'.answer = {} /\ DOMAIN push'.acc = {} /\ Posted' = {}
<1>1. /\ push'.phase = rest /\ push'.queue = {} /\ push'.oversized = {} /\ push'.todo = <<>>
      /\ push'.sent = {} /\ push'.open = {} /\ push'.answer = NoOutcome /\ push'.acc = NoOutcome
  BY DEF Resting
<1>2. QED
  BY <1>1, NothingYet DEF Posted

(* A new plan has sent nothing.                                            *)
LEMMA PlanIs ==
  ASSUME PlanPush
  PROVE  /\ push'.phase = "planned" /\ push'.queue = Planned \ Oversized(Planned)
         /\ push'.oversized = Eids(Events(Oversized(Planned)))
         /\ push'.todo = <<>> /\ push'.sent = {} /\ push'.open = {}
         /\ DOMAIN push'.answer = {} /\ DOMAIN push'.acc = {} /\ Posted' = {}
<1>1. push' = [phase |-> "planned", queue |-> Planned \ Oversized(Planned),
               oversized |-> Eids(Events(Oversized(Planned))), todo |-> <<>>,
               sent |-> {}, open |-> {}, answer |-> NoOutcome, acc |-> NoOutcome]
  BY DEF PlanPush, IdlePush, Resting
<1>2. QED
  BY <1>1, NothingYet DEF Posted

(* It sends the next batch whole, or ends.                                 *)
LEMMA PostingIs ==
  ASSUME push' = Posting(push)
  PROVE  /\ push'.oversized = {} /\ push'.todo = <<>>
         /\ push'.open = push'.sent /\ Posted' = push'.sent
         /\ DOMAIN push'.answer = {} /\ DOMAIN push'.acc = {}
         /\ \/ push.queue = {} /\ push'.phase = "release" /\ push'.queue = {} /\ push'.sent = {}
            \/ /\ push.queue # {} /\ push'.phase = "waiting"
               /\ push'.sent = NextBatch(push.queue) /\ push'.sent \subseteq push.queue
               /\ push'.queue = push.queue \ NextBatch(push.queue)
<1>1. CASE push.queue = {}
  BY <1>1, RestingIs DEF Posting
<1>2. CASE push.queue # {}
  <2> DEFINE batch == NextBatch(push.queue)
  <2>1. push' = [phase |-> "waiting", queue |-> push.queue \ batch, oversized |-> {},
                 todo |-> <<>>, sent |-> batch, open |-> batch,
                 answer |-> NoOutcome, acc |-> NoOutcome]
    BY <1>2 DEF Posting, IdlePush, Resting
  <2>2. batch \subseteq push.queue
    BY DEF NextBatch
  <2> HIDE DEF batch
  <2>3. QED
    BY <1>2, <2>1, <2>2, NothingYet DEF Posted, batch
<1>3. QED
  BY <1>1, <1>2

(* The rest of a list, and a list with one more in front.                  *)
LEMMA TailIs ==
  ASSUME NEW T, NEW s \in Seq(T), s # <<>>
  PROVE  /\ 1 \in DOMAIN s /\ Head(s) = s[1] /\ Tail(s) \in Seq(T)
         /\ \A i \in DOMAIN Tail(s) : /\ i \in Int /\ i + 1 \in DOMAIN s /\ i + 1 # 1
                                      /\ Tail(s)[i] = s[i + 1]
OBVIOUS

LEMMA FrontIs ==
  ASSUME NEW T, NEW x \in T, NEW s \in Seq(T)
  PROVE  /\ <<x>> \o s \in Seq(T) /\ 1 \in DOMAIN (<<x>> \o s) /\ (<<x>> \o s)[1] = x
         /\ \A i \in DOMAIN (<<x>> \o s) :
              /\ i \in Int
              /\ i # 1 => i - 1 \in DOMAIN s /\ i > 1 /\ (<<x>> \o s)[i] = s[i - 1]
<1> DEFINE t == <<x>> \o s
<1>1. <<x>> \in Seq(T) /\ Len(<<x>>) = 1
  OBVIOUS
<1>2. t \in Seq(T) /\ Len(t) = 1 + Len(s) /\ Len(s) \in Nat
  BY <1>1
<1>3. ASSUME NEW i \in DOMAIN t, i # 1
      PROVE  i > 1 /\ i - 1 \in DOMAIN s /\ t[i] = s[i - 1]
  <2>1. i \in 1..(1 + Len(s))
    BY <1>2
  <2>2. i - 1 \in 1..Len(s) /\ i > 1
    BY <1>2, <1>3, <2>1
  <2>3. QED
    BY <1>1, <1>2, <1>3, <2>1, <2>2
<1>4. t[1] = x /\ 1 \in DOMAIN t
  BY <1>1, <1>2
<1>5. \A i \in DOMAIN t : i \in Int
  BY <1>2
<1> HIDE DEF t
<1>6. /\ t \in Seq(T) /\ 1 \in DOMAIN t /\ t[1] = x
      /\ \A i \in DOMAIN t : /\ i \in Int
                             /\ i # 1 => i - 1 \in DOMAIN s /\ i > 1 /\ t[i] = s[i - 1]
  BY <1>2, <1>3, <1>4, <1>5
<1>7. QED
  BY <1>6 DEF t

(* A settled request gives way to the next half, or to the results.        *)
LEMMA SettledIs ==
  ASSUME PushType(push), NEW acc, push' = Settled(push, acc)
  PROVE  /\ push'.queue = push.queue /\ push'.oversized = {}
         /\ DOMAIN push'.answer = {} /\ push'.acc = acc /\ push'.open = push'.sent
         /\ \/ /\ push.todo = <<>> /\ push'.phase = "apply" /\ push'.todo = <<>>
               /\ push'.sent = {}
            \/ /\ push.todo # <<>> /\ push'.phase = "waiting"
               /\ 1 \in DOMAIN push.todo /\ push'.sent = push.todo[1]
               /\ push'.todo \in Seq(Requests)
               /\ \A i \in DOMAIN push'.todo :
                    /\ i \in Int /\ i + 1 \in DOMAIN push.todo /\ i + 1 # 1
                    /\ push'.todo[i] = push.todo[i + 1]
<1>1. CASE push.todo = <<>>
  <2>1. push' = [phase |-> "apply", queue |-> push.queue, oversized |-> {}, todo |-> <<>>,
                 sent |-> {}, open |-> {}, answer |-> NoOutcome, acc |-> acc]
    BY <1>1 DEF Settled, IdlePush, Resting
  <2>2. QED
    BY <1>1, <2>1, NothingYet
<1>2. CASE push.todo # <<>>
  <2> DEFINE next == Head(push.todo)
             rest == Tail(push.todo)
  <2>1. push' = [phase |-> "waiting", queue |-> push.queue, oversized |-> {}, todo |-> rest,
                 sent |-> next, open |-> next, answer |-> NoOutcome, acc |-> acc]
    BY <1>2 DEF Settled, IdlePush, Resting
  <2>2. /\ 1 \in DOMAIN push.todo /\ next = push.todo[1] /\ rest \in Seq(Requests)
        /\ \A i \in DOMAIN rest : /\ i \in Int /\ i + 1 \in DOMAIN push.todo /\ i + 1 # 1
                                  /\ rest[i] = push.todo[i + 1]
    BY <1>2, TailIs, PostedType
  <2> HIDE DEF next, rest
  <2>3. QED
    BY <1>2, <2>1, <2>2, NothingYet
<1>3. QED
  BY <1>1, <1>2

(* So what is posted after it was posted and not sent before.              *)
LEMMA SettledPosted ==
  ASSUME PushType(push), NEW acc, push' = Settled(push, acc)
  PROVE  Posted' \subseteq UNION {push.todo[i] : i \in DOMAIN push.todo}
<1>1. Posted' = push'.sent \cup UNION {push'.todo[i] : i \in DOMAIN push'.todo}
  BY DEF Posted
<1>2. QED
  BY <1>1, SettledIs

(* A request refused for its size gives way to its halves, or its only     *)
(* group to the next request.                                              *)
LEMMA RefuseIs ==
  ASSUME PushType(push), RefuseTooLarge
  PROVE  LET half == FirstHalf(push.sent)
         IN  \/ /\ Cardinality(push.sent) = 1
                /\ push' = Settled(push, Override(push.acc, Same(Eids(Events(push.sent)), "tooLarge")))
             \/ /\ push'.phase = "waiting" /\ push'.queue = push.queue /\ push'.acc = push.acc
                /\ push'.oversized = push.oversized /\ push'.answer = push.answer
                /\ push'.sent = half /\ push'.open = half /\ half \subseteq push.sent
                /\ push'.todo \in Seq(Requests)
                /\ 1 \in DOMAIN push'.todo /\ push'.todo[1] = push.sent \ half
                /\ \A i \in DOMAIN push'.todo :
                     /\ i \in Int
                     /\ i # 1 => i - 1 \in DOMAIN push.todo /\ i > 1 /\ push'.todo[i] = push.todo[i - 1]
                /\ Posted' = Posted
<1> DEFINE half == FirstHalf(push.sent)
<1>1. CASE Cardinality(push.sent) = 1
  BY <1>1 DEF RefuseTooLarge
<1>2. CASE Cardinality(push.sent) # 1
  <2> DEFINE s == <<push.sent \ half>> \o push.todo
  <2>1. push' = [push EXCEPT !.sent = half, !.open = half, !.todo = s] /\ push.phase = "waiting"
    BY <1>2 DEF RefuseTooLarge
  <2>2. push.sent \ half \in Requests /\ push.todo \in Seq(Requests)
    BY PostedType DEF Requests
  <2>3. /\ s \in Seq(Requests) /\ 1 \in DOMAIN s /\ s[1] = push.sent \ half
        /\ \A i \in DOMAIN s : /\ i \in Int
                               /\ i # 1 => i - 1 \in DOMAIN push.todo /\ i > 1 /\ s[i] = push.todo[i - 1]
    BY <2>2, FrontIs
  <2>4. half \subseteq push.sent
    BY DEF FirstHalf
  <2>5. \A j \in DOMAIN push.todo : \E i \in DOMAIN s : s[i] = push.todo[j]
    <3>1. Len(s) = 1 + Len(push.todo) /\ Len(push.todo) \in Nat
      BY <2>2
    <3>2. DOMAIN s = 1..(1 + Len(push.todo)) /\ DOMAIN push.todo = 1..Len(push.todo)
      BY <2>2, <2>3, <3>1
    <3>3. ASSUME NEW j \in DOMAIN push.todo PROVE j + 1 \in DOMAIN s /\ s[j + 1] = push.todo[j]
      <4> HIDE DEF s
      <4>1. j \in Int /\ j >= 1 /\ j + 1 \in DOMAIN s
        BY <3>1, <3>2
      <4>2. QED
        BY <2>3, <4>1
    <3>4. QED
      BY <3>3
  <2> HIDE DEF s, half
  <2>6. /\ push'.sent = half /\ push'.open = half /\ push'.todo = s /\ push'.phase = "waiting"
        /\ push'.queue = push.queue /\ push'.acc = push.acc
        /\ push'.oversized = push.oversized /\ push'.answer = push.answer
    BY <2>1 DEF PushType
  <2>7. Posted' = Posted
    <3>1. Posted' = half \cup UNION {s[i] : i \in DOMAIN s}
      BY <2>6 DEF Posted
    <3>2. \A i \in DOMAIN s : s[i] = push.sent \ half \/ \E j \in DOMAIN push.todo : s[i] = push.todo[j]
      BY <2>3
    <3>3. Posted' \subseteq Posted
      BY <2>4, <3>1, <3>2 DEF Posted
    <3>4. Posted \subseteq Posted'
      <4>1. push.sent \subseteq Posted'
        BY <2>3, <3>1
      <4>2. \A j \in DOMAIN push.todo : push.todo[j] \subseteq Posted'
        BY <2>5, <3>1
      <4>3. QED
        BY <4>1, <4>2 DEF Posted
    <3>5. QED
      BY <3>3, <3>4
  <2>8. QED
    BY <2>3, <2>4, <2>6, <2>7 DEF half
<1>3. QED
  BY <1>1, <1>2

(* The group the server takes is one of those it has not answered.         *)
LEMMA ServeIs ==
  ASSUME Inv, ServePush
  PROVE  \E g \in push.open :
           /\ g = Head1(push.open) /\ g # {} /\ g \in push.sent /\ g \subseteq InFlight
           /\ \E result \in ServerResults(g, Faults) :
                /\ log' = result.log
                /\ push' = [push EXCEPT !.open = push.open \ {g},
                                        !.answer = Override(push.answer, result.answer)]
                /\ DOMAIN result.answer = Eids(g)
                /\ push'.open = push.open \ {g}
                /\ push'.answer = Override(push.answer, result.answer)
                /\ DOMAIN push'.answer = DOMAIN push.answer \cup Eids(g)
                /\ push'.phase = push.phase /\ push'.queue = push.queue /\ push'.sent = push.sent
                /\ push'.todo = push.todo /\ push'.acc = push.acc
                /\ push'.oversized = push.oversized /\ Posted' = Posted
<1> DEFINE g == Head1(push.open)
<1>1. PICK result \in ServerResults(g, Faults) :
        /\ log' = result.log
        /\ push' = [push EXCEPT !.open = push.open \ {g},
                                !.answer = Override(push.answer, result.answer)]
  BY DEF ServePush
<1>2. push.open \in Requests /\ {} \notin push.open /\ push.open # {} /\ push.open \subseteq push.sent
  BY PostedType DEF Inv, TypeOK, AnswersSent, WholeGroups, Posted, ServePush
<1>3. g \in push.open
  BY <1>2, Head1In
<1>4. g # {} /\ g \in push.sent /\ g \subseteq InFlight
  BY <1>2, <1>3 DEF InFlight, Posted, Events
<1>5. DOMAIN result.answer = Eids(g)
  BY ServerKeepsEvents
<1> HIDE DEF g
<1>6. /\ push'.open = push.open \ {g} /\ push'.answer = Override(push.answer, result.answer)
      /\ push'.phase = push.phase /\ push'.queue = push.queue /\ push'.sent = push.sent
      /\ push'.todo = push.todo /\ push'.acc = push.acc /\ push'.oversized = push.oversized
  BY <1>1 DEF Inv, TypeOK, PushType
<1>7. DOMAIN push'.answer = DOMAIN push.answer \cup Eids(g)
  BY <1>5, <1>6 DEF Override
<1>8. Posted' = Posted
  BY <1>6 DEF Posted
<1>9. QED
  BY <1>1, <1>3, <1>4, <1>5, <1>6, <1>7, <1>8 DEF g

-----------------------------------------------------------------------------
(* When every reply arrives, a stored event is one whose confirmation the  *)
(* push has in hand or has applied, and it is what the row says.           *)

PhasesRest ==
  /\ push.phase # "waiting" => /\ push.sent = {} /\ push.open = {} /\ push.todo = <<>>
                               /\ DOMAIN push.answer = {}
  /\ push.phase \notin {"waiting", "apply"} => DOMAIN push.acc = {}

(* No event is in two requests, or in two groups of one.                   *)
PostedApart ==
  /\ \A g, h \in Posted : g # h => Eids(g) \cap Eids(h) = {}
  /\ \A i \in DOMAIN push.todo :
       /\ push.sent \cap push.todo[i] = {}
       /\ \A j \in DOMAIN push.todo : i # j => push.todo[i] \cap push.todo[j] = {}
  /\ Eids(Events(Posted)) \cap DOMAIN push.acc = {}

InHandConfirmed(e) ==
  \/ e \in DOMAIN push.answer /\ push.answer[e] = "confirmed"
  \/ e \in DOMAIN push.acc /\ push.acc[e] = "confirmed"

StoredAnswered == \A e \in DOMAIN log \cap Unsynced : InHandConfirmed(e)
StoredMatches ==
  \A e \in DOMAIN log : /\ e \in DOMAIN outbox
                        /\ log[e].key = outbox[e].key /\ log[e].val = outbox[e].val
                        /\ log[e].type = outbox[e].type

Answered == late = {} /\ PhasesRest /\ PostedApart /\ StoredAnswered /\ StoredMatches

AnswerInv == DeadInv /\ Answered

(* A stored event's row is synced or reserved.                             *)
LEMMA StoredIsHeld ==
  ASSUME AnswerInv, NEW e \in DOMAIN log
  PROVE  e \in DOMAIN outbox /\ (e \in reserved \/ e \notin Unsynced)
<1>1. e \in DOMAIN outbox
  BY DEF AnswerInv, Answered, StoredMatches
<1>2. ASSUME e \in Unsynced PROVE e \in reserved
  <2>1. e \in DOMAIN push.answer \cup DOMAIN push.acc
    BY <1>2 DEF AnswerInv, Answered, StoredAnswered, InHandConfirmed
  <2>2. DOMAIN push.acc \subseteq reserved /\ DOMAIN push.answer \subseteq reserved
    BY FlightIsHeld, SentIsInFlight DEF AnswerInv, DeadInv, DeliveryInv, DecidedAreHeld
  <2>3. QED
    BY <2>1, <2>2
<1>3. QED
  BY <1>1, <1>2

(* A push with nothing in hand has confirmed all it stored.                *)
LEMMA NothingUnanswered ==
  ASSUME AnswerInv, push.phase \in {"idle", "planned"}
  PROVE  DOMAIN log \cap Unsynced = {}
BY DEF AnswerInv, Answered, PhasesRest, StoredAnswered, InHandConfirmed

(* Steps of the user, of compact() and of time leave it so.                *)
LEMMA AnsweredLeftAlone ==
  ASSUME AnswerInv, log' = log, push' = push, late' = late,
         \A e \in DOMAIN outbox : e \in reserved \/ e \notin Unsynced =>
           /\ e \in DOMAIN outbox' /\ SameEvent(outbox[e], outbox'[e])
           /\ e \in Unsynced' => e \in Unsynced
  PROVE  Answered'
<1>1. late' = {} /\ PhasesRest' /\ PostedApart'
  BY DEF AnswerInv, Answered, PhasesRest, PostedApart, Posted
<1>2. ASSUME NEW e \in DOMAIN log' PROVE e \in DOMAIN outbox /\ (e \in reserved \/ e \notin Unsynced)
  BY <1>2, StoredIsHeld
<1>3. StoredAnswered'
  BY <1>2 DEF AnswerInv, Answered, StoredAnswered, InHandConfirmed
<1>4. StoredMatches'
  BY <1>2 DEF AnswerInv, Answered, StoredMatches, SameEvent
<1>5. QED
  BY <1>1, <1>3, <1>4 DEF Answered

(* Steps after which everything stored is confirmed.                       *)
LEMMA AllAnswered ==
  ASSUME AnswerInv, log' = log, late' = late, DOMAIN log \cap Unsynced' = {},
         \A e \in DOMAIN log : e \in DOMAIN outbox' /\ SameEvent(outbox[e], outbox'[e]),
         PhasesRest', PostedApart'
  PROVE  Answered'
BY DEF AnswerInv, Answered, StoredAnswered, StoredMatches, SameEvent

(* Groups of the queue are apart when they are posted.                     *)
LEMMA PostingIsApart ==
  ASSUME Inv, push' = Posting(push)
  PROVE  PhasesRest' /\ PostedApart'
<1>1. \A g, h \in push.queue : g # h => Eids(g) \cap Eids(h) = {}
  BY DEF Inv, GroupsApart
<1>2. /\ push'.todo = <<>> /\ Posted' \subseteq push.queue
      /\ DOMAIN push'.answer = {} /\ DOMAIN push'.acc = {} /\ push'.open = push'.sent
      /\ push'.phase # "waiting" => push'.sent = {}
  BY PostingIs
<1>3. DOMAIN push'.todo = {}
  BY <1>2
<1>4. QED
  BY <1>1, <1>2, <1>3 DEF PhasesRest, PostedApart

(* A push at rest has posted nothing.                                      *)
LEMMA RestIsApart ==
  ASSUME push'.phase # "waiting", push'.sent = {}, push'.open = {}, push'.todo = <<>>,
         DOMAIN push'.answer = {}, push'.phase = "apply" \/ DOMAIN push'.acc = {}
  PROVE  PhasesRest' /\ PostedApart' /\ Posted' = {}
<1>1. DOMAIN push'.todo = {}
  OBVIOUS
<1>2. Posted' = {}
  BY <1>1 DEF Posted
<1>3. QED
  BY <1>1, <1>2 DEF PhasesRest, PostedApart, Events, Eids

(* Gate jobs of the push.                                                  *)
LEMMA GateAnswered ==
  ASSUME AnswerInv, PlanPush \/ ParkOversized \/ ApplyBatch \/ ReleaseReserved
  PROVE  Answered'
<1>1. DeliveryInv /\ Inv
  BY DEF AnswerInv, DeadInv, DeliveryInv
<1>2. \A e \in DOMAIN log : e \in DOMAIN outbox
  BY DEF AnswerInv, Answered, StoredMatches
<1>3. CASE PlanPush
  <2>1. log' = log /\ late' = late /\ push.phase = "idle"
    BY <1>3 DEF PlanPush
  <2>2. DOMAIN outbox' = DOMAIN outbox /\ Unsynced' = Unsynced
        /\ \A e \in DOMAIN outbox : SameEvent(outbox[e], outbox'[e])
    BY <1>1, <1>3, PlanPushWrites
  <2>3. PhasesRest' /\ PostedApart'
    BY <1>3, PlanIs, RestIsApart
  <2>4. QED
    BY <1>2, <2>1, <2>2, <2>3, NothingUnanswered, AllAnswered
<1>4. CASE ParkOversized
  <2>1. log' = log /\ late' = late /\ push.phase = "planned" /\ push' = Posting(push)
    BY <1>4 DEF ParkOversized
  <2>2. /\ push.oversized \subseteq Unsynced
        /\ DOMAIN outbox' = DOMAIN outbox \ push.oversized
        /\ \A e \in DOMAIN outbox' : outbox'[e] = outbox[e]
    BY <1>1, <1>4, ParkOversizedWrites
  <2>3. DOMAIN log \cap Unsynced = {}
    BY <2>1, NothingUnanswered
  <2>4. Unsynced' \subseteq Unsynced
    BY <2>2 DEF Unsynced
  <2>5. \A e \in DOMAIN log : e \in DOMAIN outbox' /\ SameEvent(outbox[e], outbox'[e])
    BY <1>2, <2>2, <2>3 DEF SameEvent
  <2>6. PhasesRest' /\ PostedApart'
    BY <1>1, <2>1, PostingIsApart
  <2>7. QED
    BY <2>1, <2>3, <2>4, <2>5, <2>6, AllAnswered
<1>5. CASE ApplyBatch
  <2> DEFINE P == DOMAIN push.acc
             yes == {e \in P : push.acc[e] = "confirmed"}
  <2>1. /\ log' = log /\ late' = late /\ push.phase = "apply"
        /\ push' = Resting("release") \/ push' = Posting(push)
    BY <1>5 DEF ApplyBatch
  <2>2. /\ Gone(P) \subseteq P \ yes
        /\ Unsynced' = (Unsynced \ yes) \ Gone(P)
        /\ DOMAIN outbox' = DOMAIN outbox \ Gone(P)
        /\ \A e \in DOMAIN outbox' : SameEvent(outbox[e], outbox'[e])
        /\ P \subseteq Unsynced
    BY <1>1, <1>5, ApplyBatchWrites
  <2>3. DOMAIN log \cap Unsynced \subseteq yes
    BY <2>1 DEF AnswerInv, Answered, PhasesRest, StoredAnswered, InHandConfirmed
  <2>4. PhasesRest' /\ PostedApart'
    <3>1. CASE push' = Resting("release")
      BY <3>1, RestingIs, RestIsApart
    <3>2. CASE push' = Posting(push)
      BY <1>1, <3>2, PostingIsApart
    <3>3. QED
      BY <2>1, <3>1, <3>2
  <2> HIDE DEF P, yes
  <2>5. \A e \in DOMAIN log : e \in DOMAIN outbox' /\ SameEvent(outbox[e], outbox'[e])
    BY <1>2, <2>2, <2>3
  <2>6. QED
    BY <2>1, <2>2, <2>3, <2>4, <2>5, AllAnswered
<1>6. CASE ReleaseReserved
  <2>1. /\ log' = log /\ late' = late /\ outbox' = outbox /\ push' = IdlePush
        /\ push.phase = "release"
    BY <1>6 DEF ReleaseReserved
  <2>2. DOMAIN log \cap Unsynced = {}
    BY <2>1 DEF AnswerInv, Answered, PhasesRest, StoredAnswered, InHandConfirmed
  <2>3. PhasesRest' /\ PostedApart'
    BY <2>1, RestingIs, RestIsApart DEF IdlePush
  <2>4. QED
    BY <1>2, <2>1, <2>2, <2>3, AllAnswered DEF Unsynced, SameEvent
<1>7. QED
  BY <1>3, <1>4, <1>5, <1>6

(* A group on the wire was never stored before.                            *)
LEMMA OpenIsFresh ==
  ASSUME AnswerInv, NEW g \in push.open
  PROVE  /\ Eids(g) \cap DOMAIN log = {} /\ Eids(g) \cap DOMAIN push.answer = {}
         /\ Eids(g) \cap DOMAIN push.acc = {} /\ Eids(g) \subseteq Unsynced
<1>1. Inv /\ PostedApart
  BY DEF AnswerInv, DeadInv, DeliveryInv, Answered
<1>2. g \in push.sent /\ push.sent \subseteq Posted
  BY <1>1 DEF Inv, AnswersSent, Posted
<1>3. Eids(g) \subseteq Unsynced
  <2>1. Eids(Events(push.open)) \subseteq Unsynced
    BY <1>1, FlightIsHeld, SentIsInFlight
  <2>2. QED
    BY <2>1 DEF Eids, Events
<1>4. Eids(g) \cap DOMAIN push.acc = {}
  BY <1>1, <1>2 DEF PostedApart, Eids, Events
<1>5. Eids(g) \cap DOMAIN push.answer = {}
  <2>1. ASSUME NEW e \in Eids(g), e \in DOMAIN push.answer PROVE FALSE
    <3>1. PICK h \in push.sent \ push.open : e \in Eids(h)
      BY <1>1, <2>1 DEF Inv, AnswersSent, Eids, Events
    <3>2. QED
      BY <1>1, <1>2, <2>1, <3>1 DEF PostedApart
  <2>2. QED
    BY <2>1
<1>6. Eids(g) \cap DOMAIN log = {}
  BY <1>3, <1>4, <1>5 DEF AnswerInv, Answered, StoredAnswered, InHandConfirmed
<1>7. QED
  BY <1>3, <1>4, <1>5, <1>6

(* A group that is stored is confirmed.                                    *)
LEMMA StoredIsConfirmed ==
  ASSUME NEW g, NEW result \in ServerResults(g, Faults), NEW e \in DOMAIN result.log \ DOMAIN log
  PROVE  e \in Eids(g) /\ result.answer = AllConfirmed(g) /\ result.log = Appended(g)
<1>1. \/ result = Result(Appended(g), AllConfirmed(g))
      \/ result = Result(log, Aborted(g, Conflicting(g), "conflict"))
      \/ \E b \in Fresh(g) : result = Result(log, Aborted(g, {b}, "rejected"))
      \/ result = Result(log, AllTransient(g))
  BY DEF ServerResults
<1>2. ASSUME NEW answer, result = Result(log, answer) PROVE FALSE
  BY <1>2 DEF Result
<1>3. result = Result(Appended(g), AllConfirmed(g))
  BY <1>1, <1>2
<1>4. QED
  BY <1>3 DEF Result, Appended

(* The server takes a group: if it stores it, it confirms it.              *)
LEMMA ServePushAnswered ==
  ASSUME AnswerInv, ServePush
  PROVE  Answered'
<1>1. Inv
  BY DEF AnswerInv, DeadInv, DeliveryInv
<1>2. PICK g \in push.open :
        /\ g = Head1(push.open) /\ g # {} /\ g \in push.sent /\ g \subseteq InFlight
        /\ \E result \in ServerResults(g, Faults) :
             /\ log' = result.log
             /\ push' = [push EXCEPT !.open = push.open \ {g},
                                     !.answer = Override(push.answer, result.answer)]
             /\ DOMAIN result.answer = Eids(g)
             /\ push'.open = push.open \ {g}
             /\ push'.answer = Override(push.answer, result.answer)
             /\ DOMAIN push'.answer = DOMAIN push.answer \cup Eids(g)
             /\ push'.phase = push.phase /\ push'.queue = push.queue /\ push'.sent = push.sent
             /\ push'.todo = push.todo /\ push'.acc = push.acc
             /\ push'.oversized = push.oversized /\ Posted' = Posted
  BY <1>1, ServeIs
<1>3. PICK result \in ServerResults(g, Faults) :
        /\ log' = result.log /\ DOMAIN result.answer = Eids(g)
        /\ push'.answer = Override(push.answer, result.answer)
        /\ push'.phase = push.phase /\ push'.sent = push.sent
        /\ push'.todo = push.todo /\ push'.acc = push.acc /\ Posted' = Posted
  BY <1>2
<1>4. outbox' = outbox /\ late' = late /\ push.phase = "waiting" /\ Unsynced' = Unsynced
  BY DEF ServePush, Unsynced
<1>5. /\ Eids(g) \cap DOMAIN log = {} /\ Eids(g) \cap DOMAIN push.answer = {}
      /\ Eids(g) \subseteq Unsynced
  BY OpenIsFresh
<1>6. PhasesRest' /\ PostedApart'
  BY <1>3, <1>4 DEF AnswerInv, Answered, PhasesRest, PostedApart
<1>7. ASSUME NEW e \in DOMAIN log', e \in Unsynced' PROVE InHandConfirmed(e)'
  <2>1. CASE e \in DOMAIN log
    <3>1. InHandConfirmed(e) /\ e \notin Eids(g)
      BY <1>4, <1>5, <1>7, <2>1 DEF AnswerInv, Answered, StoredAnswered
    <3>2. QED
      BY <1>3, <3>1 DEF InHandConfirmed, Override
  <2>2. CASE e \notin DOMAIN log
    <3>1. e \in Eids(g) /\ result.answer = AllConfirmed(g)
      BY <1>3, <1>7, <2>2, StoredIsConfirmed
    <3>2. QED
      BY <1>3, <3>1 DEF InHandConfirmed, Override, AllConfirmed
  <2>3. QED
    BY <2>1, <2>2
<1>8. ASSUME NEW e \in DOMAIN log'
      PROVE  /\ e \in DOMAIN outbox'
             /\ log'[e].key = outbox'[e].key /\ log'[e].val = outbox'[e].val
             /\ log'[e].type = outbox'[e].type
  <2>1. CASE e \in DOMAIN log /\ log'[e] = log[e]
    BY <1>4, <2>1 DEF AnswerInv, Answered, StoredMatches
  <2>2. CASE \E b \in g : /\ b.eid = e /\ log'[e].tx = b.tx /\ log'[e].key = b.key
                          /\ log'[e].type = b.type /\ log'[e].val = b.val
    <3>1. PICK b \in g : /\ b.eid = e /\ log'[e].key = b.key
                         /\ log'[e].type = b.type /\ log'[e].val = b.val
      BY <2>2
    <3>2. b \in InFlight
      BY <1>2
    <3>3. b = Body(e) /\ e \in DOMAIN outbox
      BY <1>1, <3>1, <3>2 DEF Inv, InFlightStable, Unsynced
    <3>4. b.key = outbox[e].key /\ b.val = outbox[e].val /\ b.type = outbox[e].type
      BY <3>3 DEF Body
    <3>5. QED
      BY <1>4, <3>1, <3>3, <3>4
  <2>3. QED
    BY <1>3, <2>1, <2>2, StoredIsSent
<1>9. StoredAnswered' /\ StoredMatches'
  BY <1>7, <1>8 DEF StoredAnswered, StoredMatches
<1>10. QED
  BY <1>4, <1>6, <1>9 DEF AnswerInv, Answered

(* A settled request leaves the events of the other halves.                *)
LEMMA SettledIsApart ==
  ASSUME AnswerInv, NEW S, S \subseteq Eids(Events(push.sent)), NEW acc,
         DOMAIN acc = DOMAIN push.acc \cup S, push' = Settled(push, acc)
  PROVE  PhasesRest' /\ PostedApart'
<1>1. PushType(push) /\ PostedApart
  BY DEF AnswerInv, DeadInv, DeliveryInv, Inv, TypeOK, Answered
<1>2. /\ DOMAIN push'.answer = {} /\ push'.acc = acc /\ push'.open = push'.sent
      /\ \/ push'.phase = "apply" /\ push'.todo = <<>> /\ push'.sent = {}
         \/ /\ push'.phase = "waiting"
            /\ 1 \in DOMAIN push.todo /\ push'.sent = push.todo[1]
            /\ push'.todo \in Seq(Requests)
            /\ \A i \in DOMAIN push'.todo :
                 /\ i \in Int /\ i + 1 \in DOMAIN push.todo /\ i + 1 # 1
                 /\ push'.todo[i] = push.todo[i + 1]
  BY <1>1, SettledIs
<1>3. CASE push'.phase = "apply" /\ push'.todo = <<>> /\ push'.sent = {}
  BY <1>2, <1>3, RestIsApart
<1>4. CASE /\ push'.phase = "waiting"
           /\ 1 \in DOMAIN push.todo /\ push'.sent = push.todo[1]
           /\ \A i \in DOMAIN push'.todo :
                /\ i \in Int /\ i + 1 \in DOMAIN push.todo /\ i + 1 # 1
                /\ push'.todo[i] = push.todo[i + 1]
  <2>1. PhasesRest'
    BY <1>4 DEF PhasesRest
  <2>2. Posted' \subseteq UNION {push.todo[i] : i \in DOMAIN push.todo}
    BY <1>1, SettledPosted
  <2>3. Posted' \subseteq Posted
    BY <2>2 DEF Posted
  <2>4. \A g, h \in Posted' : g # h => Eids(g) \cap Eids(h) = {}
    BY <1>1, <2>3 DEF PostedApart
  <2>5. ASSUME NEW i \in DOMAIN push'.todo
        PROVE  /\ push'.sent \cap push'.todo[i] = {}
               /\ \A j \in DOMAIN push'.todo : i # j => push'.todo[i] \cap push'.todo[j] = {}
    <3>1. push'.sent \cap push'.todo[i] = {}
      BY <1>1, <1>4, <2>5 DEF PostedApart
    <3>2. ASSUME NEW j \in DOMAIN push'.todo, i # j PROVE push'.todo[i] \cap push'.todo[j] = {}
      <4>1. i \in Int /\ j \in Int /\ i + 1 # j + 1
        BY <1>4, <2>5, <3>2
      <4>2. QED
        BY <1>1, <1>4, <2>5, <3>2, <4>1 DEF PostedApart
    <3>3. QED
      BY <3>1, <3>2
  <2>6. ASSUME NEW e \in Eids(Events(Posted')), e \in DOMAIN acc PROVE FALSE
    <3>1. PICK g \in Posted' : e \in Eids(g)
      BY <2>6 DEF Eids, Events
    <3>2. PICK i \in DOMAIN push.todo : g \in push.todo[i]
      BY <2>2, <3>1
    <3>3. g \in Posted /\ g \notin push.sent
      BY <1>1, <2>3, <3>1, <3>2 DEF PostedApart
    <3>4. e \in Eids(Events(Posted))
      BY <3>1, <3>3 DEF Eids, Events
    <3>5. e \in S
      BY <1>1, <2>6, <3>4 DEF PostedApart
    <3>6. PICK h \in push.sent : e \in Eids(h)
      BY <3>5 DEF Eids, Events
    <3>7. h \in Posted /\ h # g
      BY <3>3, <3>6 DEF Posted
    <3>8. QED
      BY <1>1, <3>1, <3>3, <3>6, <3>7 DEF PostedApart
  <2>7. QED
    BY <1>2, <2>1, <2>4, <2>5, <2>6 DEF PostedApart
<1>5. QED
  BY <1>2, <1>3, <1>4

(* What was in hand stays in hand.                                         *)
LEMMA ReplyAnswered ==
  ASSUME AnswerInv, ReceiveReply \/ RefuseTooLarge
  PROVE  Answered'
<1>1. Inv /\ PushType(push) /\ PostedApart
  BY DEF AnswerInv, DeadInv, DeliveryInv, Inv, TypeOK, Answered
<1>2. /\ log' = log /\ outbox' = outbox /\ late' = late /\ push.phase = "waiting"
      /\ Unsynced' = Unsynced
  BY DEF ReceiveReply, RefuseTooLarge, Unsynced
<1>3. StoredMatches' /\ late' = {}
  BY <1>2 DEF AnswerInv, Answered, StoredMatches
<1>4. push.sent \subseteq Posted
  BY DEF Posted
<1>5. CASE ReceiveReply
  <2> DEFINE acc == Override(push.acc, push.answer)
  <2>1. push' = Settled(push, acc)
    BY <1>5 DEF ReceiveReply
  <2>2. /\ DOMAIN acc = DOMAIN push.acc \cup DOMAIN push.answer
        /\ \A e \in DOMAIN acc : acc[e] = IF e \in DOMAIN push.answer THEN push.answer[e]
                                          ELSE push.acc[e]
    BY DEF Override
  <2>3. DOMAIN push.answer \subseteq Eids(Events(push.sent))
    BY <1>1 DEF Inv, AnswersSent, Events, Eids
  <2> HIDE DEF acc
  <2>4. PhasesRest' /\ PostedApart' /\ push'.acc = acc
    BY <1>1, <2>1, <2>2, <2>3, SettledIsApart, SettledIs
  <2>5. \A e : InHandConfirmed(e) => InHandConfirmed(e)'
    <3>1. \A e \in DOMAIN push.acc : e \notin DOMAIN push.answer
      BY <1>1, <1>4, <2>3 DEF PostedApart, Eids, Events
    <3>2. QED
      BY <2>2, <2>4, <3>1 DEF InHandConfirmed
  <2>6. StoredAnswered'
    BY <1>2, <2>5 DEF AnswerInv, Answered, StoredAnswered
  <2>7. QED
    BY <1>3, <2>4, <2>6 DEF Answered
<1>6. CASE RefuseTooLarge
  <2> DEFINE acc == Override(push.acc, Same(Eids(Events(push.sent)), "tooLarge"))
             half == FirstHalf(push.sent)
  <2>0. push.open = push.sent
    BY <1>6 DEF RefuseTooLarge
  <2>1. DOMAIN push.answer = {}
    BY <1>1, <2>0 DEF Inv, AnswersSent, Eids, Events
  <2>2. \/ push' = Settled(push, acc)
        \/ /\ push'.phase = "waiting" /\ push'.acc = push.acc /\ push'.answer = push.answer
           /\ push'.sent = half /\ half \subseteq push.sent
           /\ push'.todo[1] = push.sent \ half
           /\ \A i \in DOMAIN push'.todo :
                /\ i \in Int
                /\ i # 1 => i - 1 \in DOMAIN push.todo /\ i > 1 /\ push'.todo[i] = push.todo[i - 1]
           /\ Posted' = Posted
    BY <1>1, <1>6, RefuseIs
  <2>3. CASE push' = Settled(push, acc)
    <3>1. /\ DOMAIN acc = DOMAIN push.acc \cup Eids(Events(push.sent))
          /\ \A e \in DOMAIN acc : e \notin Eids(Events(push.sent)) => acc[e] = push.acc[e]
      BY DEF Override, Same
    <3> HIDE DEF acc
    <3>2. PhasesRest' /\ PostedApart' /\ push'.acc = acc
      BY <1>1, <2>3, <3>1, SettledIsApart, SettledIs
    <3>3. \A e : InHandConfirmed(e) => InHandConfirmed(e)'
      <4>1. \A e \in DOMAIN push.acc : e \notin Eids(Events(push.sent))
        BY <1>1, <1>4 DEF PostedApart, Eids, Events
      <4>2. QED
        BY <2>1, <3>1, <3>2, <4>1 DEF InHandConfirmed
    <3>4. StoredAnswered'
      BY <1>2, <3>3 DEF AnswerInv, Answered, StoredAnswered
    <3>5. QED
      BY <1>3, <3>2, <3>4 DEF Answered
  <2>4. CASE /\ push'.phase = "waiting" /\ push'.acc = push.acc /\ push'.answer = push.answer
             /\ push'.sent = half /\ half \subseteq push.sent
             /\ push'.todo[1] = push.sent \ half
             /\ \A i \in DOMAIN push'.todo :
                  /\ i \in Int
                  /\ i # 1 => i - 1 \in DOMAIN push.todo /\ i > 1 /\ push'.todo[i] = push.todo[i - 1]
             /\ Posted' = Posted
    <3> HIDE DEF half
    <3>1. PhasesRest' /\ StoredAnswered'
      BY <1>2, <2>4 DEF AnswerInv, Answered, PhasesRest, StoredAnswered, InHandConfirmed
    <3>2. ASSUME NEW i \in DOMAIN push'.todo
          PROVE  /\ push'.sent \cap push'.todo[i] = {}
                 /\ \A j \in DOMAIN push'.todo : i # j => push'.todo[i] \cap push'.todo[j] = {}
      <4>1. push'.sent \cap push'.todo[i] = {}
        BY <1>1, <2>4, <3>2 DEF PostedApart
      <4>2. ASSUME NEW j \in DOMAIN push'.todo, i # j PROVE push'.todo[i] \cap push'.todo[j] = {}
        <5>1. CASE i = 1
          BY <1>1, <2>4, <4>2, <5>1 DEF PostedApart
        <5>2. CASE j = 1
          BY <1>1, <2>4, <3>2, <4>2, <5>2 DEF PostedApart
        <5>3. CASE i # 1 /\ j # 1
          <6>1. i - 1 # j - 1
            BY <2>4, <3>2, <4>2
          <6>2. QED
            BY <1>1, <2>4, <3>2, <4>2, <5>3, <6>1 DEF PostedApart
        <5>4. QED
          BY <5>1, <5>2, <5>3
      <4>3. QED
        BY <4>1, <4>2
    <3>3. PostedApart'
      BY <1>1, <2>4, <3>2 DEF PostedApart
    <3>4. QED
      BY <1>3, <3>1, <3>3 DEF Answered
  <2>5. QED
    BY <2>2, <2>3, <2>4
<1>7. QED
  BY <1>5, <1>6

(* Every step answers what it stores.                                      *)
LEMMA NextAnswered ==
  ASSUME Lossless, AnswerInv, [Next]_vars
  PROVE  AnswerInv'
<1>1. DeadInv' /\ DeliveryInv /\ Inv /\ Inv' /\ TypeOK
  BY NextDeadInv DEF Lossless, AnswerInv, DeadInv, DeliveryInv, Inv
<1>2. \A e \in DOMAIN outbox : outbox[e] \in Row
  BY <1>1 DEF TypeOK, PartialFunction
<1>3. CASE Edit
  <2>1. PICK ks \in SUBSET Keys, type \in MutationTypes : Mutate(ks, type)
    BY <1>3 DEF Edit
  <2>2. log' = log /\ push' = push /\ late' = late
    BY <2>1 DEF Mutate
  <2>3. \A e \in DOMAIN outbox : e \in reserved \/ e \notin Unsynced =>
          e \in DOMAIN outbox' /\ outbox'[e] = outbox[e]
    BY <1>1, <2>1, MutateWrites
  <2>4. QED
    BY <1>1, <2>2, <2>3, AnsweredLeftAlone DEF SameEvent, Unsynced, AnswerInv
<1>4. CASE \E k \in Keys : CompactKey(k)
  <2>1. PICK k \in Keys : CompactKey(k)
    BY <1>4
  <2>2. log' = log /\ push' = push /\ late' = late
    BY <2>1 DEF CompactKey
  <2>3. \A e \in DOMAIN outbox : e \in reserved \/ e \notin Unsynced =>
          e \in DOMAIN outbox' /\ outbox'[e] = outbox[e]
    BY <1>1, <2>1, CompactKeyWrites
  <2>4. QED
    BY <1>1, <2>2, <2>3, AnsweredLeftAlone DEF SameEvent, Unsynced, AnswerInv
<1>5. CASE BackoffTick
  BY <1>1, <1>5, BackoffTickWrites, AnsweredLeftAlone DEF AnswerInv
<1>6. CASE PlanPush \/ ParkOversized \/ ApplyBatch \/ ReleaseReserved
  BY <1>1, <1>6, GateAnswered DEF AnswerInv
<1>7. CASE ServePush
  BY <1>1, <1>7, ServePushAnswered DEF AnswerInv
<1>8. CASE ReceiveReply \/ RefuseTooLarge
  BY <1>1, <1>8, ReplyAnswered DEF AnswerInv
<1>9. CASE StartCompact \/ UNCHANGED vars
  <2>1. log' = log /\ push' = push /\ late' = late /\ outbox' = outbox
    BY <1>9 DEF StartCompact, vars
  <2>2. QED
    BY <1>1, <2>1, AnsweredLeftAlone DEF SameEvent, Unsynced, AnswerInv
<1>10. ~TransportError /\ ~ServeLate /\ ~Crashes
  BY <1>1, NoCrash DEF Lossless, TransportError, ServeLate, AnswerInv, Answered
<1>11. QED
  BY <1>3, <1>4, <1>5, <1>6, <1>7, <1>8, <1>9, <1>10 DEF Next, Compact, Pushing

(* With every reply, what is stored is in hand or synced.                  *)
LEMMA AnswerInvariance ==
  ASSUME Lossless
  PROVE  Spec => []AnswerInv
<1>1. Init => AnswerInv
  <2> SUFFICES ASSUME Init PROVE AnswerInv
    OBVIOUS
  <2>1. /\ DOMAIN outbox = {} /\ DOMAIN deadletter = {} /\ DOMAIN log = {} /\ late = {}
        /\ push = IdlePush
    BY DEF Init, LogInit
  <2>2. /\ push.phase = "idle" /\ push.todo = <<>> /\ push.sent = {} /\ push.open = {}
        /\ DOMAIN push.answer = {} /\ DOMAIN push.acc = {}
    BY <2>1, NothingYet DEF IdlePush, Resting
  <2>3. DOMAIN push.todo = {} /\ Posted = {}
    BY <2>2 DEF Posted
  <2>4. PhasesRest /\ PostedApart
    BY <2>2, <2>3 DEF PhasesRest, PostedApart, Events, Eids
  <2>5. QED
    BY <2>1, <2>4, InitDelivers
       DEF AnswerInv, Answered, StoredAnswered, StoredMatches, DeadInv, DeadDrawn, DeadApart
<1>2. AnswerInv /\ [Next]_vars => AnswerInv'
  BY NextAnswered
<1>3. QED
  BY <1>1, <1>2, PTL DEF Spec

(* A synced row says what the server holds: without folds in every         *)
(* behaviour, and with them as long as no reply is lost.                   *)
THEOREM SyncedPayloadIsSafe ==
  ASSUME Unfolded \/ Lossless
  PROVE  Spec => []SyncedPayloadIsStored
<1>1. CASE Unfolded
  <2>1. WordsInv => SyncedPayloadIsStored
    <3> SUFFICES ASSUME WordsInv, NEW e \in DOMAIN outbox \ Unsynced
                 PROVE  /\ e \in DOMAIN log /\ log[e].val = outbox[e].val
                        /\ log[e].type = outbox[e].type
      BY DEF SyncedPayloadIsStored
    <3>1. e \in DOMAIN log
      BY DEF WordsInv, DeliveryInv, Inv, SyncedIsStored
    <3>2. QED
      BY <3>1 DEF WordsInv, AsWritten, Agrees
  <2>2. QED
    BY <1>1, <2>1, WordsInvariance, PTL
<1>2. CASE Lossless
  <2>1. AnswerInv => SyncedPayloadIsStored
    <3> SUFFICES ASSUME AnswerInv, NEW e \in DOMAIN outbox \ Unsynced
                 PROVE  /\ e \in DOMAIN log /\ log[e].val = outbox[e].val
                        /\ log[e].type = outbox[e].type
      BY DEF SyncedPayloadIsStored
    <3>1. e \in DOMAIN log
      BY DEF AnswerInv, DeadInv, DeliveryInv, Inv, SyncedIsStored
    <3>2. QED
      BY <3>1 DEF AnswerInv, Answered, StoredMatches
  <2>2. QED
    BY <1>2, <2>1, AnswerInvariance, PTL
<1>3. QED
  BY <1>1, <1>2

(* As long as no reply is lost, an event that was parked is one the server *)
(* does not have: the user may discard it or edit it safely.               *)
THEOREM ParkedIsUnknown ==
  ASSUME Lossless
  PROVE  Spec => []ParkedIsNotStored
<1>1. AnswerInv => ParkedIsNotStored
  BY DEF AnswerInv, Answered, StoredMatches, DeadInv, DeadApart, ParkedIsNotStored
<1>2. QED
  BY <1>1, AnswerInvariance, PTL

-----------------------------------------------------------------------------
(* Without folds and crashes the events of a transaction share their fate. *)

TxOf(e)     == IF e \in DOMAIN outbox THEN outbox[e].tx ELSE deadletter[e].tx
Siblings(e) == {f \in Kept : TxOf(f) = TxOf(e)}

(* Transactions are runs of ids.                                           *)
TxsInOrder ==
  \A e \in Kept : /\ TxOf(e) < nextId
                  /\ \A f \in Kept : e <= f => TxOf(e) <= TxOf(f)

(* A set of kept ids with whole transactions only.                         *)
Whole(S)   == \A e \in S : e \in Kept /\ Siblings(e) \subseteq S
WholeTx(g) == \A e \in Eids(g) : e \in Kept /\ Siblings(e) = Eids(g)

Alike(r, s) == /\ r.wait = s.wait /\ r.attempts = s.attempts
               /\ (r.status = "synced" <=> s.status = "synced")
RowsAlike == /\ Whole(DOMAIN outbox)
             /\ \A e \in DOMAIN outbox : \A f \in Siblings(e) : Alike(outbox[e], outbox[f])

Fate(o) == IF o \in {"rejected", "conflict", "tooLarge"} THEN "gone" ELSE o
OneFate(f) == /\ Whole(DOMAIN f)
              /\ \A e \in DOMAIN f : \A s \in Siblings(e) : Fate(f[s]) = Fate(f[e])

Atomic ==
  /\ TxsInOrder /\ RowsAlike /\ Whole(DOMAIN log) /\ Whole(push.oversized)
  /\ \A g \in push.queue \cup Posted : WholeTx(g)
  /\ \A r \in late : \A g \in r : WholeTx(g)
  /\ OneFate(push.answer) /\ OneFate(push.acc)

AtomInv == WordsInv /\ DeadInv /\ Atomic

(* Kept events and their transactions are numbered.                        *)
LEMMA KeptIds ==
  ASSUME WordsInv, NEW e \in Kept
  PROVE  /\ e \in Nat /\ TxOf(e) \in Nat /\ e \in DrawnIds /\ nextId \in Nat /\ e < nextId
         /\ e \in Siblings(e)
<1>1. /\ PartialFunction(outbox, Ids, Row) /\ PartialFunction(deadletter, Ids, Row)
      /\ nextId \in Nat
  BY DEF WordsInv, DeliveryInv, Inv, TypeOK
<1>2. /\ \A f \in DOMAIN outbox : f \in Ids /\ outbox[f] \in Row /\ f < nextId
      /\ \A f \in DOMAIN deadletter : f \in Ids /\ deadletter[f] \in Row
      /\ DOMAIN deadletter \subseteq DrawnIds
  BY <1>1 DEF PartialFunction, WordsInv, DeadDrawn, DeliveryInv, Inv, IdsDrawn
<1>3. e \in Ids /\ TxOf(e) \in Ids
  BY <1>2 DEF Kept, TxOf, Row
<1>4. e \in Nat /\ TxOf(e) \in Nat /\ e >= 1
  BY <1>3, BoundsAssumption DEF Ids
<1>5. e \in DrawnIds /\ e < nextId
  <2>1. CASE e \in DOMAIN outbox
    BY <1>1, <1>2, <1>4, <2>1 DEF DrawnIds
  <2>2. CASE e \in DOMAIN deadletter
    BY <1>1, <1>2, <1>4, <2>2 DEF DrawnIds
  <2>3. QED
    BY <2>1, <2>2 DEF Kept
<1>6. QED
  BY <1>1, <1>4, <1>5 DEF Siblings

(* Siblings are siblings of each other.                                    *)
LEMMA SiblingsAgree ==
  ASSUME NEW e \in Kept, NEW f \in Siblings(e)
  PROVE  f \in Kept /\ e \in Siblings(f) /\ Siblings(f) = Siblings(e)
BY DEF Siblings

(* No step joins or parts transactions that were written.                  *)
LEMMA SiblingsStay ==
  ASSUME AtomInv, WordsKept
  PROVE  /\ \A e \in Kept : e \in Kept' /\ Siblings(e)' = Siblings(e) /\ TxOf(e)' = TxOf(e)
         /\ \A e \in Kept' \ Kept : /\ e \in DOMAIN outbox' /\ e \in DrawnIds' \ DrawnIds
                                    /\ TxOf(e)' = nextId
<1>1. ASSUME NEW e \in Kept PROVE e \in Kept' /\ TxOf(e)' = TxOf(e)
  <2>1. e \in DrawnIds /\ e \in Kept'
    BY KeptIds DEF AtomInv, WordsKept
  <2>2. CASE e \in DOMAIN outbox'
    <3>1. e \in DOMAIN outbox /\ SameEvent(outbox[e], outbox'[e])
      BY <2>1, <2>2 DEF WordsKept
    <3>2. QED
      BY <2>1, <2>2, <3>1 DEF TxOf, SameEvent
  <2>3. CASE e \notin DOMAIN outbox'
    <3>1. e \in DOMAIN deadletter'
      BY <2>1, <2>3 DEF Kept
    <3>2. \/ e \in DOMAIN deadletter /\ deadletter'[e] = deadletter[e]
          \/ e \in DOMAIN outbox /\ deadletter'[e] = outbox[e]
      BY <3>1 DEF WordsKept
    <3>3. e \in DOMAIN deadletter => e \notin DOMAIN outbox
      BY DEF AtomInv, DeadInv, DeadApart
    <3>4. QED
      BY <2>1, <2>3, <3>2, <3>3 DEF TxOf
  <2>4. QED
    BY <2>2, <2>3
<1>2. ASSUME NEW e \in Kept' \ Kept
      PROVE  e \in DOMAIN outbox' /\ e \in DrawnIds' \ DrawnIds /\ TxOf(e)' = nextId
  <2>1. e \in DOMAIN outbox'
    BY <1>2 DEF Kept, WordsKept
  <2>2. e \in DrawnIds' \ DrawnIds /\ outbox'[e].tx = nextId
    BY <1>2, <2>1 DEF Kept, WordsKept
  <2>3. QED
    BY <2>1, <2>2 DEF TxOf
<1>3. ASSUME NEW e \in Kept PROVE Siblings(e)' = Siblings(e)
  <2>1. TxOf(e) < nextId /\ TxOf(e) \in Nat /\ nextId \in Nat
    BY KeptIds DEF AtomInv, Atomic, TxsInOrder
  <2>2. \A f \in Kept' : TxOf(f)' = TxOf(e)' => f \in Kept
    BY <1>1, <1>2, <2>1
  <2>3. QED
    BY <1>1, <2>2 DEF Siblings
<1>4. QED
  BY <1>1, <1>2, <1>3

(* An id that is drawn by a step is not below the next one.                *)
LEMMA JustDrawn ==
  ASSUME NEW a \in Nat, NEW b \in Nat, NEW e \in 1..(b - 1), e \notin 1..(a - 1)
  PROVE  e \in Nat /\ e >= a /\ e < b
OBVIOUS

(* Transactions stay runs of ids.                                          *)
LEMMA TxsStayInOrder ==
  ASSUME AtomInv, WordsInv', WordsKept
  PROVE  TxsInOrder'
<1>1. nextId \in Nat /\ nextId' \in Nat /\ nextId <= nextId'
  BY DEF AtomInv, WordsInv, DeliveryInv, Inv, TypeOK, WordsKept
<1>2. ASSUME NEW e \in Kept'
      PROVE  /\ e \in Nat
             /\ \/ e \in Kept /\ TxOf(e)' = TxOf(e) /\ TxOf(e) \in Nat /\ TxOf(e) < nextId /\ e < nextId
                \/ e \notin Kept /\ TxOf(e)' = nextId /\ e >= nextId /\ e < nextId'
  <2>1. CASE e \in Kept
    BY <2>1, KeptIds, SiblingsStay DEF AtomInv, Atomic, TxsInOrder
  <2>2. CASE e \notin Kept
    <3>1. TxOf(e)' = nextId /\ e \in DrawnIds' \ DrawnIds
      BY <1>2, <2>2, SiblingsStay
    <3>2. e \in 1..(nextId' - 1) /\ e \notin 1..(nextId - 1)
      BY <3>1 DEF DrawnIds
    <3>3. e \in Nat /\ e >= nextId /\ e < nextId'
      BY ONLY <1>1, <3>2, JustDrawn
    <3>4. QED
      BY <2>2, <3>1, <3>3
  <2>3. QED
    BY <2>1, <2>2
<1>3. ASSUME NEW e \in Kept', NEW f \in Kept', e <= f PROVE TxOf(e)' <= TxOf(f)'
  <2>1. CASE e \in Kept /\ f \in Kept
    <3>1. TxOf(e) <= TxOf(f)
      BY <1>3, <2>1 DEF AtomInv, Atomic, TxsInOrder
    <3>2. QED
      BY <1>2, <2>1, <3>1
  <2>2. CASE ~(e \in Kept /\ f \in Kept)
    BY <1>1, <1>2, <1>3, <2>2
  <2>3. QED
    BY <2>1, <2>2
<1>4. ASSUME NEW e \in Kept' PROVE TxOf(e)' < nextId'
  BY <1>1, <1>2
<1>5. QED
  BY <1>3, <1>4 DEF TxsInOrder

(* So whole transactions stay whole, and a step keeps Atomic if what it    *)
(* leaves is whole in the old state.                                       *)
LEMMA AtomicStep ==
  ASSUME AtomInv, WordsInv', WordsKept, RowsAlike',
         Whole(DOMAIN log'), Whole(push'.oversized),
         \A g \in push'.queue \cup Posted' : WholeTx(g),
         \A r \in late' : \A g \in r : WholeTx(g),
         OneFate(push'.answer), OneFate(push'.acc)
  PROVE  Atomic'
<1>1. \A e \in Kept : e \in Kept' /\ Siblings(e)' = Siblings(e)
  BY SiblingsStay
<1>2. Whole(DOMAIN log)' /\ Whole(push.oversized)'
  BY <1>1 DEF Whole
<1>3. /\ \A g \in push'.queue \cup Posted' : WholeTx(g)'
      /\ \A r \in late' : \A g \in r : WholeTx(g)'
  BY <1>1 DEF WholeTx
<1>4. OneFate(push.answer)' /\ OneFate(push.acc)'
  BY <1>1 DEF OneFate, Whole
<1>5. TxsInOrder'
  BY TxsStayInOrder
<1>6. QED
  BY <1>2, <1>3, <1>4, <1>5 DEF Atomic

(* The rows that stay alike when nothing is written that tells siblings    *)
(* apart.                                                                  *)
LEMMA RowsStayAlike ==
  ASSUME AtomInv, WordsKept, DOMAIN outbox' \subseteq DOMAIN outbox,
         Whole(DOMAIN outbox \ DOMAIN outbox'),
         \A e \in DOMAIN outbox' : \A f \in Siblings(e) :
           Alike(outbox[e], outbox[f]) => Alike(outbox'[e], outbox'[f])
  PROVE  RowsAlike'
<1>1. \A e \in Kept : e \in Kept' /\ Siblings(e)' = Siblings(e)
  BY SiblingsStay
<1>2. RowsAlike
  BY DEF AtomInv, Atomic
<1>3. ASSUME NEW e \in DOMAIN outbox'
      PROVE  /\ e \in Kept' /\ Siblings(e)' = Siblings(e) /\ Siblings(e) \subseteq DOMAIN outbox'
             /\ \A f \in Siblings(e) : Alike(outbox'[e], outbox'[f])
  <2>1. e \in Kept /\ Siblings(e) \subseteq DOMAIN outbox
    BY <1>2 DEF RowsAlike, Whole, Kept
  <2>2. ASSUME NEW f \in Siblings(e) PROVE f \in DOMAIN outbox'
    <3>1. CASE f \in DOMAIN outbox \ DOMAIN outbox'
      <4>1. e \in Siblings(f) /\ Siblings(f) \subseteq DOMAIN outbox \ DOMAIN outbox'
        BY <2>1, <3>1, SiblingsAgree DEF Whole
      <4>2. QED
        BY <4>1
    <3>2. QED
      BY <2>1, <3>1
  <2>3. QED
    BY <1>1, <1>2, <2>1, <2>2 DEF RowsAlike
<1>4. QED
  BY <1>3 DEF RowsAlike, Whole

-----------------------------------------------------------------------------
(* Whole sets and uniform answers.                                         *)

LEMMA NothingIsWhole ==
  ASSUME NEW f, DOMAIN f = {}
  PROVE  OneFate(f) /\ Whole({}) /\ Whole(DOMAIN f)
BY DEF OneFate, Whole

(* The events of whole groups.                                             *)
LEMMA GroupsAreWhole ==
  ASSUME NEW groups, \A g \in groups : WholeTx(g)
  PROVE  Whole(Eids(Events(groups)))
BY DEF WholeTx, Whole, Eids, Events

LEMMA WholeUnion ==
  ASSUME NEW S, NEW T, Whole(S), Whole(T)
  PROVE  Whole(S \cup T)
BY DEF Whole

(* One answer for all of whole groups.                                     *)
LEMMA SameIsOneFate ==
  ASSUME NEW S, NEW outcome, Whole(S)
  PROVE  OneFate(Same(S, outcome))
BY DEF OneFate, Whole, Same

(* Answers over answers.                                                   *)
LEMMA OverrideIsOneFate ==
  ASSUME NEW f, NEW h, OneFate(f), OneFate(h)
  PROVE  OneFate(Override(f, h))
<1> DEFINE o == Override(f, h)
<1>1. /\ DOMAIN o = DOMAIN f \cup DOMAIN h
      /\ \A e \in DOMAIN o : o[e] = IF e \in DOMAIN h THEN h[e] ELSE f[e]
  BY DEF Override
<1> HIDE DEF o
<1>2. Whole(DOMAIN o)
  BY <1>1, WholeUnion DEF OneFate
<1>3. ASSUME NEW e \in DOMAIN o, NEW s \in Siblings(e) PROVE Fate(o[s]) = Fate(o[e])
  <2>1. e \in Kept /\ s \in DOMAIN o
    BY <1>2, <1>3 DEF Whole
  <2>2. s \in Kept /\ e \in Siblings(s)
    BY <1>3, <2>1, SiblingsAgree
  <2>3. CASE e \in DOMAIN h
    <3>1. s \in DOMAIN h /\ Fate(h[s]) = Fate(h[e])
      BY <1>3, <2>3 DEF OneFate, Whole
    <3>2. QED
      BY <1>1, <2>1, <2>3, <3>1
  <2>4. CASE e \notin DOMAIN h
    <3>1. s \notin DOMAIN h
      BY <2>2, <2>4 DEF OneFate, Whole
    <3>2. e \in DOMAIN f /\ s \in DOMAIN f
      BY <1>1, <2>1, <2>4, <3>1
    <3>3. Fate(f[s]) = Fate(f[e])
      BY <1>3, <3>2 DEF OneFate
    <3>4. QED
      BY <1>1, <2>1, <2>4, <3>1, <3>3
  <2>5. QED
    BY <2>3, <2>4
<1>4. QED
  BY <1>2, <1>3 DEF OneFate, o

(* The server stores all of a whole group or nothing, and its answers are  *)
(* alike: the group is known as a whole or not at all.                     *)
LEMMA ServedWhole ==
  ASSUME Atomic, NEW g, WholeTx(g), NEW result \in ServerResults(g, Faults)
  PROVE  Whole(DOMAIN result.log) /\ OneFate(result.answer)
<1>1. \/ result = Result(Appended(g), AllConfirmed(g))
      \/ result = Result(log, Aborted(g, Conflicting(g), "conflict"))
      \/ \E b \in Fresh(g) : result = Result(log, Aborted(g, {b}, "rejected"))
      \/ result = Result(log, AllTransient(g))
  BY DEF ServerResults
<1>2. Whole(DOMAIN log) /\ Whole(Eids(g))
  BY DEF Atomic, WholeTx, Whole
<1>3. CASE result = Result(Appended(g), AllConfirmed(g))
  <2>1. DOMAIN result.log = DOMAIN log \cup Eids(g) /\ result.answer = AllConfirmed(g)
    BY <1>3 DEF Result, Appended
  <2>2. AllConfirmed(g) = Same(Eids(g), "confirmed")
    BY DEF AllConfirmed, Same
  <2>3. QED
    BY <1>2, <2>1, <2>2, WholeUnion, SameIsOneFate
<1>4. CASE result = Result(log, AllTransient(g))
  <2>1. result.log = log /\ result.answer = AllTransient(g)
    BY <1>4 DEF Result
  <2>2. AllTransient(g) = Same(Eids(g), "retry")
    BY DEF AllTransient, Same
  <2>3. QED
    BY <1>2, <2>1, <2>2, SameIsOneFate
<1>5. ASSUME NEW refused, NEW code \in {"conflict", "rejected"},
             result = Result(log, Aborted(g, refused, code))
      PROVE  Whole(DOMAIN result.log) /\ OneFate(result.answer)
  <2>1. result.log = log /\ result.answer = Aborted(g, refused, code)
    BY <1>5 DEF Result
  <2> DEFINE a == Aborted(g, refused, code)
  <2>2. DOMAIN a = Eids(g) /\ \A e \in Eids(g) :
          Fate(a[e]) = IF e \in DOMAIN log THEN "confirmed" ELSE "gone"
    BY DEF Aborted, Fate
  <2>3. \A e \in Eids(g) : \A s \in Siblings(e) : s \in DOMAIN log <=> e \in DOMAIN log
    <3>1. ASSUME NEW e \in Eids(g), NEW s \in Siblings(e)
          PROVE  s \in DOMAIN log <=> e \in DOMAIN log
      <4>1. e \in Kept /\ s \in Kept /\ e \in Siblings(s)
        BY <3>1, SiblingsAgree DEF WholeTx
      <4>2. QED
        BY <1>2, <3>1, <4>1 DEF Whole
    <3>2. QED
      BY <3>1
  <2> HIDE DEF a
  <2>4. OneFate(a)
    BY <1>2, <2>2, <2>3 DEF OneFate, Whole
  <2>5. QED
    BY <1>2, <2>1, <2>4 DEF a
<1>6. QED
  BY <1>1, <1>3, <1>4, <1>5

-----------------------------------------------------------------------------
(* What a push takes in hand.                                              *)

(* A plan cuts what is due into whole transactions.                        *)
LEMMA PlannedIsWhole ==
  ASSUME AtomInv, NEW g \in Planned
  PROVE  WholeTx(g)
<1> DEFINE bodies == {Body(e) : e \in Due}
<1>1. /\ \A e \in DOMAIN outbox : outbox[e].seq = e /\ e \in Nat /\ outbox[e].tx \in Nat
      /\ RowsAlike /\ TxsInOrder
  <2>1. PartialFunction(outbox, Ids, Row) /\ IdsDrawn /\ Ids \subseteq Nat
    BY BoundsAssumption DEF AtomInv, WordsInv, DeliveryInv, Inv, TypeOK, Ids
  <2>2. QED
    BY <2>1 DEF AtomInv, Atomic, PartialFunction, IdsDrawn, Row
<1>2. Due \subseteq DOMAIN outbox
  BY DEF Due, Unsynced
<1>3. PICK e0 \in Due : g = {c \in bodies : SameRun(bodies, Body(e0), c)}
  BY DEF Planned, Groups
<1>4. \A f \in Due : /\ Body(f).eid = f /\ Body(f).tx = TxOf(f) /\ Body(f).seq = f
                     /\ f \in Kept
  BY <1>1, <1>2 DEF Body, TxOf, Kept
<1>5. \A e \in Eids(g) : e \in Due /\ TxOf(e) = TxOf(e0)
  BY <1>3, <1>4 DEF Eids, SameRun
<1>6. ASSUME NEW s \in Siblings(e0) PROVE s \in Eids(g)
  <2>1. e0 \in DOMAIN outbox /\ s \in DOMAIN outbox /\ Alike(outbox[e0], outbox[s])
    BY <1>1, <1>2, <1>6 DEF RowsAlike, Whole
  <2>2. s \in Due
    BY <2>1 DEF Alike, Due, Unsynced
  <2>3. ASSUME NEW d \in Due, TxOf(d) # TxOf(e0)
        PROVE  (d < e0 /\ d < s) \/ (d > e0 /\ d > s)
    <3>1. d \in Nat /\ e0 \in Nat /\ s \in Nat /\ d \in Kept /\ e0 \in Kept /\ s \in Kept
      BY <1>1, <1>2, <1>4, <2>2
    <3>2. TxOf(d) \in Nat /\ TxOf(e0) \in Nat /\ TxOf(s) = TxOf(e0)
      BY <1>6, <3>1, KeptIds DEF AtomInv, Siblings
    <3>3. /\ e0 <= d => TxOf(e0) <= TxOf(d)
          /\ d <= e0 => TxOf(d) <= TxOf(e0)
          /\ s <= d => TxOf(s) <= TxOf(d)
          /\ d <= s => TxOf(d) <= TxOf(s)
      BY <1>1, <3>1 DEF TxsInOrder
    <3> HIDE DEF TxOf
    <3>4. QED
      BY <2>3, <3>1, <3>2, <3>3
  <2>4. TxOf(s) = TxOf(e0)
    BY <1>6 DEF Siblings
  <2>5. SameRun(bodies, Body(e0), Body(s))
    <3>1. ASSUME NEW d \in Due
          PROVE  \/ d < e0 /\ d < s
                 \/ d > e0 /\ d > s
                 \/ TxOf(d) = TxOf(e0)
      BY <2>3, <3>1
    <3>2. QED
      BY <1>4, <2>2, <2>4, <3>1 DEF SameRun
  <2>6. QED
    BY <1>3, <1>4, <2>2, <2>5 DEF Eids
<1>7. ASSUME NEW e \in Eids(g) PROVE e \in Kept /\ Siblings(e) = Eids(g)
  <2>1. e \in Kept /\ TxOf(e) = TxOf(e0)
    BY <1>4, <1>5, <1>7
  <2>2. Siblings(e) = Siblings(e0)
    BY <2>1 DEF Siblings
  <2>3. Eids(g) \subseteq Siblings(e0)
    BY <1>4, <1>5 DEF Siblings
  <2>4. QED
    BY <1>6, <2>1, <2>2, <2>3
<1>8. QED
  BY <1>7 DEF WholeTx

(* Steps that leave the rows alone leave them alike.                       *)
LEMMA SameRowsAlike ==
  ASSUME AtomInv, WordsKept, outbox' = outbox
  PROVE  RowsAlike'
<1>1. Whole(DOMAIN outbox \ DOMAIN outbox')
  BY DEF Whole
<1>2. QED
  BY <1>1, RowsStayAlike

(* What a push sets aside, sends and marks are whole transactions.         *)
LEMMA PlanIsAtomic ==
  ASSUME AtomInv, WordsKept, WordsInv', PlanPush
  PROVE  Atomic'
<1>1. /\ push'.queue = Planned \ Oversized(Planned)
      /\ push'.oversized = Eids(Events(Oversized(Planned)))
      /\ DOMAIN push'.answer = {} /\ DOMAIN push'.acc = {} /\ Posted' = {}
  BY PlanIs
<1>2. \A g \in Planned : WholeTx(g)
  BY PlannedIsWhole
<1>3. Oversized(Planned) \subseteq Planned
  BY DEF Oversized
<1>4. Whole(ToMark) /\ Whole(push'.oversized)
  BY <1>1, <1>2, <1>3, GroupsAreWhole DEF ToMark
<1>5. OneFate(push'.answer) /\ OneFate(push'.acc)
  BY <1>1, NothingIsWhole
<1>6. RowsAlike'
  <2> HIDE DEF ToMark
  <2>0. outbox' = Marked(ToMark) /\ PartialFunction(outbox, Ids, Row)
    BY DEF PlanPush, AtomInv, WordsInv, DeliveryInv, Inv, TypeOK
  <2>1. DOMAIN outbox' = DOMAIN outbox
    BY <2>0 DEF Marked
  <2>2. \A e \in DOMAIN outbox : /\ outbox[e] \in Row
                                 /\ outbox'[e] = IF e \in ToMark
                                      THEN [outbox[e] EXCEPT !.status = "pending",
                                              !.attempts = outbox[e].attempts + 1, !.wait = 0]
                                      ELSE outbox[e]
    BY <2>0 DEF Marked, PartialFunction
  <2>3. ASSUME NEW e \in DOMAIN outbox, NEW f \in Siblings(e), Alike(outbox[e], outbox[f])
        PROVE  Alike(outbox'[e], outbox'[f])
    <3>1. e \in Kept /\ f \in DOMAIN outbox
      BY <2>3 DEF AtomInv, Atomic, RowsAlike, Whole
    <3>2. e \in ToMark <=> f \in ToMark
      BY <1>4, <2>3, <3>1, SiblingsAgree DEF Whole
    <3>3. CASE e \in ToMark
      <4>1. /\ outbox'[e].status = "pending" /\ outbox'[f].status = "pending"
            /\ outbox'[e].wait = 0 /\ outbox'[f].wait = 0
            /\ outbox'[e].attempts = outbox[e].attempts + 1
            /\ outbox'[f].attempts = outbox[f].attempts + 1
        BY <2>2, <3>1, <3>2, <3>3 DEF Row
      <4>2. QED
        BY <2>3, <4>1 DEF Alike
    <3>4. CASE e \notin ToMark
      BY <2>2, <2>3, <3>1, <3>2, <3>4 DEF Alike
    <3>5. QED
      BY <3>3, <3>4
  <2>4. Whole(DOMAIN outbox \ DOMAIN outbox')
    BY <2>1 DEF Whole
  <2>5. QED
    BY <2>1, <2>3, <2>4, RowsStayAlike
<1>7. log' = log /\ late' = late /\ Whole(DOMAIN log) /\ \A r \in late : \A g \in r : WholeTx(g)
  BY DEF PlanPush, AtomInv, Atomic
<1>8. \A g \in push'.queue \cup Posted' : WholeTx(g)
  BY <1>1, <1>2
<1>9. QED
  BY <1>4, <1>5, <1>6, <1>7, <1>8, AtomicStep

(* Whole transactions leave the outbox for the dead letters, and the push  *)
(* goes on to the next batch or to its end.                                *)
LEMMA ParkingIsAtomic ==
  ASSUME AtomInv, WordsKept, WordsInv', NEW S, Whole(S),
         DOMAIN outbox' = DOMAIN outbox \ S, S \subseteq DOMAIN outbox,
         \A e \in DOMAIN outbox' : \A f \in Siblings(e) :
           Alike(outbox[e], outbox[f]) => Alike(outbox'[e], outbox'[f]),
         log' = log, late' = late,
         push' = Posting(push) \/ push' = Resting("release")
  PROVE  Atomic'
<1>1. Whole(DOMAIN outbox \ DOMAIN outbox')
  <2>1. DOMAIN outbox \ DOMAIN outbox' = S
    OBVIOUS
  <2>2. QED
    BY <2>1
<1>2. RowsAlike'
  BY <1>1, RowsStayAlike
<1>3. /\ push'.oversized = {} /\ DOMAIN push'.answer = {} /\ DOMAIN push'.acc = {}
      /\ push'.queue \cup Posted' \subseteq push.queue
  BY PostingIs, RestingIs
<1>4. /\ \A g \in push.queue \cup Posted : WholeTx(g)
      /\ \A r \in late : \A g \in r : WholeTx(g)
      /\ Whole(DOMAIN log)
  BY DEF AtomInv, Atomic
<1>5. OneFate(push'.answer) /\ OneFate(push'.acc) /\ Whole(push'.oversized)
  BY <1>3, NothingIsWhole
<1>6. QED
  BY <1>2, <1>3, <1>4, <1>5, AtomicStep

LEMMA ParkOversizedIsAtomic ==
  ASSUME AtomInv, WordsKept, WordsInv', ParkOversized
  PROVE  Atomic'
<1>1. /\ push.oversized \subseteq Unsynced /\ DOMAIN outbox' = DOMAIN outbox \ push.oversized
      /\ \A e \in DOMAIN outbox' : outbox'[e] = outbox[e]
  BY ParkOversizedWrites DEF AtomInv, WordsInv
<1>2. Whole(push.oversized) /\ RowsAlike
  BY DEF AtomInv, Atomic
<1>3. ASSUME NEW e \in DOMAIN outbox', NEW f \in Siblings(e) PROVE f \in DOMAIN outbox'
  <2>1. e \in Kept /\ f \in DOMAIN outbox /\ e \in Siblings(f)
    BY <1>1, <1>2, <1>3, SiblingsAgree DEF RowsAlike, Whole
  <2>2. f \notin push.oversized
    BY <1>1, <1>2, <1>3, <2>1 DEF Whole
  <2>3. QED
    BY <1>1, <2>1, <2>2
<1>4. push.oversized \subseteq DOMAIN outbox
  BY <1>1 DEF Unsynced
<1>5. log' = log /\ late' = late /\ push' = Posting(push)
  BY DEF ParkOversized
<1>6. QED
  BY <1>1, <1>2, <1>3, <1>4, <1>5, ParkingIsAtomic

(* The siblings in a batch get one fate from its results.                  *)
LEMMA ApplyBatchIsAtomic ==
  ASSUME AtomInv, WordsKept, WordsInv', ApplyBatch
  PROVE  Atomic'
<1> DEFINE P == DOMAIN push.acc
           gone == Gone(P)
<1>1. /\ P \subseteq Unsynced \cap reserved /\ gone \subseteq P
      /\ DOMAIN outbox' = DOMAIN outbox \ gone
      /\ \A e \in DOMAIN outbox' : outbox'[e] = IF e \in P THEN AppliedRow(e) ELSE outbox[e]
  BY ApplyBatchWrites DEF AtomInv, WordsInv
<1>2. OneFate(push.acc) /\ RowsAlike
  BY DEF AtomInv, Atomic
<1>3. \A e \in DOMAIN outbox : outbox[e] \in Row
  BY DEF AtomInv, WordsInv, DeliveryInv, Inv, TypeOK, PartialFunction
<1>4. \A e \in P : e \in gone <=>
        \/ Fate(push.acc[e]) = "gone"
        \/ Fate(push.acc[e]) \in {"retry", "unsent"} /\ outbox[e].attempts >= MaxAttempts
  <2>1. \A e \in P : push.acc[e] \in Outcomes
    BY DEF AtomInv, WordsInv, DeliveryInv, Inv, TypeOK, PushType, PartialFunction
  <2>2. QED
    BY <2>1 DEF Gone, Fate, Outcomes
<1>5. \A e \in P : push.acc[e] = "confirmed" <=> Fate(push.acc[e]) = "confirmed"
  BY DEF Fate
<1> HIDE DEF gone, P
<1>6. ASSUME NEW e \in P, NEW f \in Siblings(e)
      PROVE  /\ e \in Kept /\ e \in Siblings(f) /\ f \in P /\ f \in DOMAIN outbox
             /\ Fate(push.acc[e]) = Fate(push.acc[f])
             /\ Alike(outbox[e], outbox[f])
  <2>1. e \in Kept /\ f \in P /\ Fate(push.acc[e]) = Fate(push.acc[f])
    BY <1>2, <1>6 DEF OneFate, Whole, P
  <2>2. e \in DOMAIN outbox
    BY <1>1 DEF Unsynced
  <2>3. QED
    BY <1>2, <1>6, <2>1, <2>2, SiblingsAgree DEF RowsAlike, Whole
<1>7. \A e \in gone : \A f \in Siblings(e) : f \in gone
  <2>1. ASSUME NEW e \in gone, NEW f \in Siblings(e) PROVE f \in gone
    <3>1. e \in P /\ f \in P /\ Fate(push.acc[e]) = Fate(push.acc[f])
          /\ outbox[e].attempts = outbox[f].attempts
      BY <1>1, <1>6, <2>1 DEF Alike
    <3>2. QED
      BY <1>4, <2>1, <3>1
  <2>2. QED
    BY <2>1
<1>8. Whole(gone)
  <2>1. \A e \in gone : e \in P /\ e \in Kept
    BY <1>1 DEF Kept, Unsynced
  <2>2. QED
    BY <1>7, <2>1 DEF Whole
<1>9. ASSUME NEW e \in DOMAIN outbox', NEW f \in Siblings(e), Alike(outbox[e], outbox[f])
      PROVE  Alike(outbox'[e], outbox'[f])
  <2>1. e \in Kept /\ e \in DOMAIN outbox /\ f \in DOMAIN outbox /\ e \in Siblings(f) /\ f \in Kept
    BY <1>1, <1>2, <1>9, SiblingsAgree DEF RowsAlike, Whole
  <2>2. f \in DOMAIN outbox'
    <3>1. f \notin gone
      BY <1>1, <1>7, <1>9, <2>1
    <3>2. QED
      BY <1>1, <2>1, <3>1
  <2>3. CASE e \in P
    <3>1. f \in P /\ Fate(push.acc[e]) = Fate(push.acc[f])
      BY <1>6, <1>9, <2>3
    <3>2. outbox'[e] = AppliedRow(e) /\ outbox'[f] = AppliedRow(f)
      BY <1>1, <1>9, <2>2, <2>3, <3>1
    <3>3. push.acc[e] = "confirmed" <=> push.acc[f] = "confirmed"
      BY <1>5, <2>3, <3>1
    <3>4. outbox[e] \in Row /\ outbox[f] \in Row
      BY <1>3, <2>1
    <3>5. CASE push.acc[e] = "confirmed"
      <4>1. /\ AppliedRow(e) = [outbox[e] EXCEPT !.status = "synced", !.wait = 0]
            /\ AppliedRow(f) = [outbox[f] EXCEPT !.status = "synced", !.wait = 0]
        BY <3>3, <3>5 DEF AppliedRow
      <4>2. QED
        BY <1>9, <3>2, <3>4, <4>1 DEF Alike, Row
    <3>6. CASE push.acc[e] # "confirmed"
      <4>1. /\ AppliedRow(e) = [outbox[e] EXCEPT !.status = "failed",
                                                 !.wait = BackoffDelay(outbox[e].attempts)]
            /\ AppliedRow(f) = [outbox[f] EXCEPT !.status = "failed",
                                                 !.wait = BackoffDelay(outbox[f].attempts)]
        BY <3>3, <3>6 DEF AppliedRow
      <4>2. QED
        BY <1>9, <3>2, <3>4, <4>1 DEF Alike, Row
    <3>7. QED
      BY <3>5, <3>6
  <2>4. CASE e \notin P
    <3>1. f \notin P
      BY <1>6, <2>1, <2>4
    <3>2. QED
      BY <1>1, <1>9, <2>2, <2>4, <3>1
  <2>5. QED
    BY <2>3, <2>4
<1>10. log' = log /\ late' = late /\ (push' = Posting(push) \/ push' = Resting("release"))
  BY DEF ApplyBatch
<1>11. gone \subseteq DOMAIN outbox
  BY <1>1 DEF Unsynced
<1>12. QED
  BY <1>1, <1>8, <1>9, <1>10, <1>11, ParkingIsAtomic

-----------------------------------------------------------------------------
(* What an edit adds is one whole transaction.                             *)
LEMMA EditIsAtomic ==
  ASSUME Unfolded, AtomInv, WordsKept, WordsInv', NEW ks \in SUBSET Keys,
         NEW type \in MutationTypes, Mutate(ks, type)
  PROVE  Atomic'
<1> DEFINE new == {IdOf(ks, k) : k \in ks}
<1>1. /\ DOMAIN outbox' = DOMAIN outbox \cup new
      /\ \A e \in DOMAIN outbox : outbox'[e] = outbox[e]
      /\ \A e \in new : \E k \in ks :
           outbox'[e] = UnsyncedRow(nextId, e, k, type, e,
                          IF ConflictDetection THEN heads[k] ELSE NoEvent)
  BY UnfoldedWrites DEF AtomInv, WordsInv
<1> HIDE DEF new
<1>2. \A e \in new : /\ outbox'[e].status = "pending" /\ outbox'[e].wait = 0
                     /\ outbox'[e].attempts = 0 /\ outbox'[e].tx = nextId
  BY <1>1 DEF UnsyncedRow
<1>3. /\ \A e \in Kept : e \in Kept' /\ Siblings(e)' = Siblings(e) /\ TxOf(e)' = TxOf(e)
      /\ \A e \in Kept' \ Kept : e \in DOMAIN outbox'
  BY SiblingsStay
<1>4. \A e \in Kept : TxOf(e) \in Nat /\ nextId \in Nat /\ TxOf(e) < nextId
  BY KeptIds DEF AtomInv, Atomic, TxsInOrder
<1>5. ASSUME NEW e \in DOMAIN outbox'
      PROVE  /\ e \in Kept' /\ Siblings(e)' \subseteq DOMAIN outbox'
             /\ \A f \in Siblings(e)' : Alike(outbox'[e], outbox'[f])
  <2>1. e \in Kept'
    BY DEF Kept
  <2>2. CASE e \in DOMAIN outbox
    <3>1. e \in Kept /\ Siblings(e) \subseteq DOMAIN outbox
          /\ \A f \in Siblings(e) : Alike(outbox[e], outbox[f])
      BY <2>2 DEF AtomInv, Atomic, RowsAlike, Whole
    <3>2. Siblings(e)' = Siblings(e)
      BY <1>3, <3>1
    <3>3. QED
      BY <1>1, <2>1, <2>2, <3>1, <3>2
  <2>3. CASE e \notin DOMAIN outbox
    <3>1. e \in new /\ TxOf(e)' = nextId
      BY <1>1, <1>2, <2>3 DEF TxOf
    <3>2. ASSUME NEW f \in Siblings(e)' PROVE f \in new
      <4>1. f \in Kept' /\ TxOf(f)' = nextId
        BY <3>1, <3>2 DEF Siblings
      <4>2. f \notin Kept
        BY <1>3, <1>4, <4>1
      <4>3. QED
        BY <1>1, <1>3, <4>1, <4>2 DEF Kept
    <3>3. \A f \in new : Alike(outbox'[e], outbox'[f])
      BY <1>2, <3>1 DEF Alike
    <3>4. QED
      BY <1>1, <2>1, <3>2, <3>3
  <2>4. QED
    BY <2>2, <2>3
<1>6. RowsAlike'
  BY <1>5 DEF RowsAlike, Whole
<1>7. /\ log' = log /\ late' = late /\ push' = push /\ Posted' = Posted
  BY DEF Mutate, Posted
<1>8. QED
  BY <1>6, <1>7, AtomicStep DEF AtomInv, Atomic

(* Siblings wait alike.                                                    *)
LEMMA TickIsAtomic ==
  ASSUME AtomInv, WordsKept, WordsInv', BackoffTick
  PROVE  Atomic'
<1>1. /\ DOMAIN outbox' = DOMAIN outbox
      /\ \A e \in DOMAIN outbox :
           /\ outbox[e] \in Row
           /\ outbox'[e] = [outbox[e] EXCEPT !.wait = IF outbox[e].wait > 0 THEN outbox[e].wait - 1 ELSE 0]
  BY DEF BackoffTick, AtomInv, WordsInv, DeliveryInv, Inv, TypeOK, PartialFunction
<1>2. ASSUME NEW e \in DOMAIN outbox, NEW f \in Siblings(e), Alike(outbox[e], outbox[f])
      PROVE  Alike(outbox'[e], outbox'[f])
  <2>1. f \in DOMAIN outbox
    BY <1>2 DEF AtomInv, Atomic, RowsAlike, Whole
  <2>2. /\ outbox'[e].status = outbox[e].status /\ outbox'[e].attempts = outbox[e].attempts
        /\ outbox'[e].wait = IF outbox[e].wait > 0 THEN outbox[e].wait - 1 ELSE 0
        /\ outbox'[f].status = outbox[f].status /\ outbox'[f].attempts = outbox[f].attempts
        /\ outbox'[f].wait = IF outbox[f].wait > 0 THEN outbox[f].wait - 1 ELSE 0
    BY <1>1, <2>1 DEF Row
  <2>3. QED
    BY <1>2, <2>2 DEF Alike
<1>3. Whole(DOMAIN outbox \ DOMAIN outbox')
  BY <1>1 DEF Whole
<1>4. RowsAlike'
  BY <1>1, <1>2, <1>3, RowsStayAlike
<1>5. log' = log /\ late' = late /\ push' = push /\ Posted' = Posted
  BY DEF BackoffTick, Posted
<1>6. QED
  BY <1>4, <1>5, AtomicStep DEF AtomInv, Atomic

(* The server answers a whole transaction at a time.                       *)
LEMMA ServingIsAtomic ==
  ASSUME AtomInv, WordsKept, WordsInv', ServePush
  PROVE  Atomic'
<1>1. Inv /\ Atomic
  BY DEF AtomInv, WordsInv, DeliveryInv
<1>2. PICK g \in push.open :
        /\ g \in push.sent
        /\ \E result \in ServerResults(g, Faults) :
             /\ log' = result.log
             /\ push'.answer = Override(push.answer, result.answer)
             /\ push'.queue = push.queue /\ push'.acc = push.acc
             /\ push'.oversized = push.oversized /\ Posted' = Posted
  BY <1>1, ServeIs
<1>3. WholeTx(g)
  BY <1>1, <1>2 DEF Atomic, Posted
<1>4. PICK result \in ServerResults(g, Faults) :
        /\ log' = result.log
        /\ push'.answer = Override(push.answer, result.answer)
        /\ push'.queue = push.queue /\ push'.acc = push.acc
        /\ push'.oversized = push.oversized /\ Posted' = Posted
  BY <1>2
<1>5. Whole(DOMAIN result.log) /\ OneFate(result.answer)
  BY <1>1, <1>3, ServedWhole
<1>6. OneFate(push.answer) /\ OneFate(push.acc) /\ Whole(push.oversized)
      /\ (\A h \in push.queue \cup Posted : WholeTx(h))
      /\ \A r \in late : \A h \in r : WholeTx(h)
  BY <1>1 DEF Atomic
<1>7. OneFate(push'.answer)
  BY <1>4, <1>5, <1>6, OverrideIsOneFate
<1>8. RowsAlike' /\ late' = late
  BY SameRowsAlike DEF ServePush
<1>9. QED
  BY <1>4, <1>5, <1>6, <1>7, <1>8, AtomicStep

LEMMA ServingLateIsAtomic ==
  ASSUME AtomInv, WordsKept, WordsInv', ServeLate
  PROVE  Atomic'
<1>1. Inv /\ Atomic
  BY DEF AtomInv, WordsInv, DeliveryInv
<1>2. PICK r \in late :
        LET g == Head1(r)
            rest == IF r = {g} THEN {} ELSE {r \ {g}}
        IN  /\ late' = (late \ {r}) \cup rest
            /\ \E result \in ServerResults(g, Faults) : log' = result.log
  BY DEF ServeLate
<1> DEFINE g == Head1(r)
<1>3. r \in Requests /\ r # {} /\ {} \notin r
  BY <1>1 DEF Inv, TypeOK, WholeGroups
<1>4. g \in r
  BY <1>3, Head1In
<1>5. WholeTx(g)
  BY <1>1, <1>4 DEF Atomic
<1>6. PICK result \in ServerResults(g, Faults) : log' = result.log
  BY <1>2
<1>7. \A q \in late' : q \in late \/ q = r \ {g}
  BY <1>2
<1> HIDE DEF g
<1>8. \A q \in late' : \A h \in q : WholeTx(h)
  BY <1>1, <1>7 DEF Atomic
<1>9. Whole(DOMAIN log')
  BY <1>1, <1>5, <1>6, ServedWhole
<1>10. push' = push /\ RowsAlike' /\ Posted' = Posted
  BY SameRowsAlike DEF ServeLate, Posted
<1>11. QED
  BY <1>1, <1>8, <1>9, <1>10, AtomicStep DEF Atomic

(* A request that is settled answers whole transactions, and so does one   *)
(* that failed.                                                            *)
LEMMA SettlingIsAtomic ==
  ASSUME AtomInv, WordsKept, WordsInv', outbox' = outbox, log' = log, late' = late,
         NEW h, OneFate(h), push' = Settled(push, Override(push.acc, h))
  PROVE  Atomic'
<1>1. PushType(push) /\ Atomic
  BY DEF AtomInv, WordsInv, DeliveryInv, Inv, TypeOK
<1> DEFINE acc == Override(push.acc, h)
<1>2. OneFate(acc)
  BY <1>1, OverrideIsOneFate DEF Atomic
<1> HIDE DEF acc
<1>3. push' = Settled(push, acc)
  BY DEF acc
<1>4. /\ push'.queue = push.queue /\ push'.oversized = {}
      /\ DOMAIN push'.answer = {} /\ push'.acc = acc
  BY <1>1, <1>3, SettledIs
<1>5. Posted' \subseteq Posted
  BY <1>1, <1>3, SettledPosted DEF Posted
<1>6. OneFate(push'.answer) /\ Whole(push'.oversized)
  BY <1>4, NothingIsWhole
<1>7. RowsAlike'
  BY SameRowsAlike
<1>8. QED
  BY <1>1, <1>2, <1>4, <1>5, <1>6, <1>7, AtomicStep DEF Atomic

LEMMA ReplyIsAtomic ==
  ASSUME AtomInv, WordsKept, WordsInv', ReceiveReply \/ RefuseTooLarge
  PROVE  Atomic'
<1>1. PushType(push) /\ Atomic
  BY DEF AtomInv, WordsInv, DeliveryInv, Inv, TypeOK
<1>2. outbox' = outbox /\ log' = log /\ late' = late
  BY DEF ReceiveReply, RefuseTooLarge
<1>3. CASE ReceiveReply
  BY <1>1, <1>2, <1>3, SettlingIsAtomic DEF ReceiveReply, Atomic
<1>4. CASE RefuseTooLarge
  <2> DEFINE same == Same(Eids(Events(push.sent)), "tooLarge")
  <2>1. OneFate(same)
    <3>1. \A g \in push.sent : WholeTx(g)
      BY <1>1 DEF Atomic, Posted
    <3>2. QED
      BY <3>1, GroupsAreWhole, SameIsOneFate
  <2>2. CASE push' = Settled(push, Override(push.acc, same))
    BY <1>2, <2>1, <2>2, SettlingIsAtomic
  <2>3. CASE /\ push'.queue = push.queue /\ push'.acc = push.acc
             /\ push'.oversized = push.oversized /\ push'.answer = push.answer
             /\ Posted' = Posted
    BY <1>1, <1>2, <2>3, SameRowsAlike, AtomicStep DEF Atomic
  <2>4. QED
    BY <1>1, <1>4, <2>2, <2>3, RefuseIs
<1>5. QED
  BY <1>3, <1>4

LEMMA FailureIsAtomic ==
  ASSUME AtomInv, WordsKept, WordsInv', TransportError
  PROVE  Atomic'
<1>1. PushType(push) /\ Atomic /\ Inv
  BY DEF AtomInv, WordsInv, DeliveryInv, Inv, TypeOK
<1> DEFINE todo   == UNION {push.todo[i] : i \in DOMAIN push.todo}
           unsent == Eids(Events(push.sent))
                       \cup UNION {Eids(Events(push.todo[i])) : i \in DOMAIN push.todo}
           acc    == Override(push.acc, Same(unsent, "unsent"))
<1>2. push' = [phase |-> "apply", queue |-> push.queue, oversized |-> {}, todo |-> <<>>,
               sent |-> {}, open |-> {}, answer |-> NoOutcome, acc |-> acc]
  BY DEF TransportError, IdlePush, Resting
<1>3. Whole(unsent)
  <2>1. unsent = Eids(Events(Posted))
    BY DEF Posted, Eids, Events
  <2>2. \A g \in Posted : WholeTx(g)
    BY <1>1 DEF Atomic
  <2>3. QED
    BY <2>1, <2>2, GroupsAreWhole
<1> HIDE DEF unsent
<1>4. OneFate(acc)
  BY <1>1, <1>3, SameIsOneFate, OverrideIsOneFate DEF Atomic
<1> HIDE DEF acc
<1>5. /\ push'.queue = push.queue /\ push'.oversized = {} /\ push'.acc = acc
      /\ push'.answer = NoOutcome /\ push'.sent = {} /\ push'.todo = <<>>
  BY <1>2
<1>6. Posted' = {}
  BY <1>5 DEF Posted
<1>7. OneFate(push'.answer) /\ Whole(push'.oversized)
  BY <1>5, NothingYet, NothingIsWhole
<1>8. \A r \in late' : \A g \in r : WholeTx(g)
  <2>1. late' = late \/ late' = late \cup {push.open}
    BY DEF TransportError, Abandoned
  <2>2. push.open \subseteq Posted
    BY <1>1 DEF Inv, AnswersSent, Posted
  <2>3. QED
    BY <1>1, <2>1, <2>2 DEF Atomic
<1>9. log' = log /\ RowsAlike'
  BY SameRowsAlike DEF TransportError
<1>10. QED
  BY <1>1, <1>4, <1>5, <1>6, <1>7, <1>8, <1>9, AtomicStep DEF Atomic

(* So every step keeps transactions whole.                                 *)
LEMMA NextAtomInv ==
  ASSUME Unfolded, Steady, AtomInv, [Next]_vars
  PROVE  AtomInv'
<1>1. WordsInv' /\ DeadInv'
  BY NextWordsInv, NextDeadInv DEF AtomInv
<1>2. WordsKept
  BY <1>1, StepKeepsWords DEF AtomInv, WordsInv, DeliveryInv
<1>3. ~Crashes
  BY NoCrash DEF AtomInv, WordsInv, DeliveryInv, Inv
<1>4. ASSUME log' = log, late' = late, outbox' = outbox, push' = push \/ push' = Resting("idle")
      PROVE  Atomic'
  <2>1. RowsAlike'
    BY <1>2, <1>4, SameRowsAlike
  <2>2. CASE push' = push
    <3>1. Posted' = Posted
      BY <2>2 DEF Posted
    <3>2. QED
      BY <1>1, <1>2, <1>4, <2>1, <2>2, <3>1, AtomicStep DEF AtomInv, Atomic
  <2>3. CASE push' = Resting("idle")
    <3>1. /\ push'.queue = {} /\ push'.oversized = {} /\ Posted' = {}
          /\ DOMAIN push'.answer = {} /\ DOMAIN push'.acc = {}
      BY <2>3, RestingIs
    <3>2. OneFate(push'.answer) /\ OneFate(push'.acc) /\ Whole(push'.oversized)
      BY <3>1, NothingIsWhole
    <3>3. QED
      BY <1>1, <1>2, <1>4, <2>1, <3>1, <3>2, AtomicStep DEF AtomInv, Atomic
  <2>4. QED
    BY <1>4, <2>2, <2>3
<1>5. CASE Edit
  <2>1. PICK ks \in SUBSET Keys, type \in MutationTypes : Mutate(ks, type)
    BY <1>5 DEF Edit
  <2>2. Atomic'
    BY <1>1, <1>2, <2>1, EditIsAtomic
  <2>3. QED
    BY <1>1, <2>2 DEF AtomInv
<1>6. CASE PlanPush \/ ParkOversized \/ ApplyBatch \/ BackoffTick
  <2>1. Atomic'
    BY <1>1, <1>2, <1>6, PlanIsAtomic, ParkOversizedIsAtomic, ApplyBatchIsAtomic, TickIsAtomic
  <2>2. QED
    BY <1>1, <2>1 DEF AtomInv
<1>7. CASE ServePush \/ ServeLate \/ ReceiveReply \/ RefuseTooLarge \/ TransportError
  <2>1. Atomic'
    BY <1>1, <1>2, <1>7, ServingIsAtomic, ServingLateIsAtomic, ReplyIsAtomic, FailureIsAtomic
  <2>2. QED
    BY <1>1, <2>1 DEF AtomInv
<1>8. CASE ReleaseReserved \/ Compact \/ UNCHANGED vars
  <2>1. ~Compact
    BY DEF Compact, StartCompact, CompactKey, Unfolded, AtomInv, WordsInv, AsWritten
  <2>2. /\ log' = log /\ late' = late /\ outbox' = outbox
        /\ (push' = push \/ push' = Resting("idle"))
    BY <1>8, <2>1 DEF ReleaseReserved, vars, IdlePush
  <2>3. QED
    BY <1>1, <1>4, <2>2 DEF AtomInv
<1>9. QED
  BY <1>3, <1>5, <1>6, <1>7, <1>8 DEF Next, Pushing

LEMMA InitAtomInv == Init => AtomInv
<1> SUFFICES ASSUME Init PROVE AtomInv
  OBVIOUS
<1>1. WordsInv /\ DeliveryInv /\ DOMAIN outbox = {} /\ DOMAIN deadletter = {} /\ DOMAIN log = {}
  BY InitWordsInv, InitDelivers DEF Init, LogInit
<1>2. DeadInv
  BY <1>1 DEF DeadInv, DeadDrawn, DeadApart
<1>3. /\ push.oversized = {} /\ push.queue = {} /\ push.sent = {} /\ push.todo = <<>>
      /\ push.answer = NoOutcome /\ push.acc = NoOutcome /\ late = {}
  BY DEF Init, IdlePush, Resting
<1>4. Posted = {} /\ DOMAIN push.answer = {} /\ DOMAIN push.acc = {} /\ Kept = {}
  BY <1>1, <1>3, NothingYet DEF Posted, Kept
<1>5. Atomic
  BY <1>1, <1>3, <1>4, NothingIsWhole DEF Atomic, TxsInOrder, RowsAlike
<1>6. QED
  BY <1>1, <1>2, <1>5 DEF AtomInv

LEMMA AtomInvariance ==
  ASSUME Unfolded, Steady
  PROVE  Spec => []AtomInv
<1>1. AtomInv /\ [Next]_vars => AtomInv'
  BY NextAtomInv
<1>2. QED
  BY <1>1, InitAtomInv, PTL DEF Spec

(* Where nothing is folded and the process does not die, the server never  *)
(* holds one half of a transaction whose other half waits on the device or *)
(* was given up: not when batches are cut, halved or refused, nor when     *)
(* requests fail, are retried or arrive late.                              *)
THEOREM TransactionsStayWhole ==
  ASSUME Unfolded, Steady
  PROVE  Spec => []TransactionsAtomic
<1>1. AtomInv => TransactionsAtomic
  <2> SUFFICES ASSUME AtomInv PROVE TransactionsAtomic
    OBVIOUS
  <2>1. Whole(DOMAIN log) /\ DeadApart /\ \A f \in DOMAIN log : Agrees(f, log[f])
    BY DEF AtomInv, Atomic, DeadInv, WordsInv, AsWritten
  <2>2. ASSUME NEW f \in DOMAIN log PROVE f \in Kept /\ TxOf(f) = log[f].tx
    BY <2>1, <2>2 DEF Agrees, TxOf, Kept
  <2>3. ASSUME NEW f \in DOMAIN log, NEW e \in Kept \ DOMAIN log PROVE TxOf(e) # log[f].tx
    BY <2>1, <2>2, <2>3 DEF Whole, Siblings
  <2>4. ASSUME NEW f \in DOMAIN log, NEW e \in DOMAIN outbox \ DOMAIN log
        PROVE  outbox[e].tx # log[f].tx
    BY <2>3, <2>4 DEF Kept, TxOf
  <2>5. ASSUME NEW f \in DOMAIN log, NEW e \in DOMAIN deadletter \ DOMAIN log
        PROVE  deadletter[e].tx # log[f].tx
    <3>1. e \in Kept /\ TxOf(e) = deadletter[e].tx
      BY <2>1, <2>5 DEF Kept, TxOf, DeadApart
    <3>2. QED
      BY <2>3, <2>5, <3>1
  <2>6. QED
    BY <2>4, <2>5 DEF TransactionsAtomic
<1>2. QED
  BY <1>1, AtomInvariance, PTL

-----------------------------------------------------------------------------
(* Where nothing is sent twice the edits of a row reach the server in the  *)
(* order they were made, folds included.                                   *)

Below(S, T) == \A e \in S, f \in T : e < f
QueueIds    == Eids(Events(push.queue))
OpenIds     == Eids(Events(push.open))
TodoIds(i)  == Eids(Events(push.todo[i]))
Decided     == DOMAIN push.answer \cup DOMAIN push.acc
Undecided   == Unsynced \ Decided
Free        == Unsynced \ reserved

(* Nothing waits for a retry, and nothing is too large any more once the   *)
(* first batch is sent.                                                    *)
Rested ==
  /\ \A e \in DOMAIN outbox : outbox[e].wait = 0
  /\ \A e \in DOMAIN push.answer : push.answer[e] \notin {"retry", "unsent"}
  /\ \A e \in DOMAIN push.acc : push.acc[e] \notin {"retry", "unsent"}
  /\ push.phase # "planned" => push.oversized = {}

(* The groups in hand are apart as runs of ids, and what is sent next lies *)
(* below what is sent later; the rows that came since lie above.           *)
GroupsInOrder ==
  \A g, h \in push.queue \cup Posted :
    g # h => Below(Eids(g), Eids(h)) \/ Below(Eids(h), Eids(g))

TodoInOrder ==
  \A i \in DOMAIN push.todo :
    /\ Below(OpenIds, TodoIds(i)) /\ Below(TodoIds(i), QueueIds)
    /\ \A j \in DOMAIN push.todo : i < j => Below(TodoIds(i), TodoIds(j))

SentInOrder == GroupsInOrder /\ TodoInOrder /\ Below(OpenIds, QueueIds)

(* Every reserved row without an answer is one the push still has in hand. *)
InHand == push.oversized \cup OpenIds \cup QueueIds
            \cup UNION {TodoIds(i) : i \in DOMAIN push.todo}
ReservedInHand == reserved \cap Undecided \subseteq InHand

(* The server's order is that of the ids.                                  *)
LogInOrder ==
  /\ Below(DOMAIN log, Undecided)
  /\ \A e \in DOMAIN log : /\ log[e].pos <= Cardinality(DOMAIN log)
                           /\ \A f \in DOMAIN log : e < f => log[e].pos < log[f].pos

(* So is the order of the edits, row by row.                               *)
ValsInOrder ==
  \A e \in DOMAIN outbox :
    /\ outbox[e].val < nextId
    /\ \A f \in DOMAIN outbox : outbox[e].key = outbox[f].key /\ e < f
                                  => outbox[e].val < outbox[f].val

Ordered == /\ Rested /\ SentInOrder /\ Below(reserved, Free) /\ ReservedInHand
           /\ LogInOrder /\ ValsInOrder

(* Until something is parked the newest row of a key is its last edit.     *)
NewestOf(k) == {e \in RowsOf(k) : \A f \in RowsOf(k) : f <= e}
LastEdit ==
  DOMAIN deadletter = {} => \A k \in Keys :
    IF local[k].live
    THEN \E e \in NewestOf(k) : outbox[e].type # "delete" /\ outbox[e].val = local[k].val
    ELSE \A e \in NewestOf(k) : outbox[e].type = "delete"

OrderInv == AnswerInv /\ Ordered /\ LastEdit

-----------------------------------------------------------------------------
(* Rows and their ids.                                                     *)

LEMMA RowsTyped ==
  ASSUME Inv
  PROVE  /\ nextId \in Nat /\ reserved \subseteq Nat /\ PushType(push)
         /\ \A e \in DOMAIN outbox :
              /\ e \in Nat /\ e \in Ids /\ e < nextId /\ outbox[e].seq = e /\ outbox[e] \in Row
              /\ outbox[e].val \in Nat
         /\ \A e \in DOMAIN log : e \in Nat /\ log[e].pos \in Nat
<1>1. /\ PartialFunction(outbox, Ids, Row) /\ PartialFunction(log, Ids, Stored)
      /\ IdsDrawn /\ Ids \subseteq Nat /\ nextId \in Nat /\ reserved \subseteq Ids
      /\ PushType(push)
  BY BoundsAssumption DEF Inv, TypeOK, Ids
<1>2. \A e \in DOMAIN outbox : outbox[e] \in Row
  BY <1>1 DEF PartialFunction
<1>3. \A e \in DOMAIN log : log[e] \in Stored
  BY <1>1 DEF PartialFunction
<1>4. QED
  BY <1>1, <1>2, <1>3 DEF PartialFunction, IdsDrawn, Row, Stored

(* What the push has in hand is reserved, and what is decided is too.      *)
LEMMA InHandIs ==
  ASSUME DeliveryInv
  PROVE  /\ QueueIds \subseteq reserved /\ OpenIds \subseteq reserved /\ Decided \subseteq reserved
         /\ \A i \in DOMAIN push.todo : TodoIds(i) \subseteq reserved
         /\ Free \subseteq Undecided
         /\ \A b \in InFlight : b.seq = b.eid /\ b.eid \in Nat
<1>1. Inv /\ Eids(InFlight) \subseteq reserved
  BY FlightIsHeld DEF DeliveryInv
<1>2. /\ QueueIds \subseteq Eids(InFlight) /\ OpenIds \subseteq Eids(InFlight)
      /\ \A i \in DOMAIN push.todo : TodoIds(i) \subseteq Eids(InFlight)
  BY <1>1 DEF QueueIds, OpenIds, TodoIds, InFlight, Posted, Events, Eids, Inv, AnswersSent
<1>3. Decided \subseteq reserved
  BY <1>1, SentIsInFlight DEF DeliveryInv, DecidedAreHeld, Decided
<1>4. \A b \in InFlight : b.seq = b.eid /\ b.eid \in Nat
  BY <1>1, RowsTyped DEF Inv, InFlightStable, Unsynced, Body
<1>5. QED
  BY <1>1, <1>2, <1>3, <1>4 DEF Free, Undecided

LEMMA BelowParts ==
  ASSUME NEW S, NEW T, NEW U, NEW V, Below(S, T), U \subseteq S, V \subseteq T
  PROVE  Below(U, V)
BY DEF Below

(* Members of groups, by their ids.                                        *)
LEMMA IdsOfParts ==
  ASSUME NEW groups, NEW more
  PROVE  /\ \A g \in groups : Eids(g) \subseteq Eids(Events(groups))
         /\ \A e \in Eids(Events(groups)) : \E g \in groups : e \in Eids(g)
         /\ groups \subseteq more => Eids(Events(groups)) \subseteq Eids(Events(more))
BY DEF Eids, Events

-----------------------------------------------------------------------------
(* What an edit writes.                                                    *)

(* The rows of a transaction draw different ids.                           *)
LEMMA IdOfApart ==
  ASSUME TypeOK, NEW ks \in SUBSET Keys, NEW j \in ks, NEW k \in ks, IdOf(ks, j) = IdOf(ks, k)
  PROVE  j = k
<1>1. IsFiniteSet(ks) /\ \A i \in ks : i \in Int
  <2>1. IsFiniteSet(Keys) /\ Keys \subseteq Int
    BY FS_Interval, BoundsAssumption DEF Keys
  <2>2. QED
    BY <2>1, FS_Subset
<1>2. ASSUME NEW i \in ks, NEW l \in ks, i < l PROVE IdOf(ks, i) # IdOf(ks, l)
  <2> DEFINE S == {n \in ks : n < i}
             T == {n \in ks : n < l}
  <2>1. S \in SUBSET T /\ i \in T /\ i \notin S /\ T \in SUBSET ks
    BY <1>1, <1>2
  <2>2. IsFiniteSet(T) /\ IsFiniteSet(S)
    BY <1>1, <2>1, FS_Subset
  <2>3. Cardinality(T) \in Nat /\ Cardinality(S) \in Nat /\ Cardinality(S) # Cardinality(T)
    BY <2>1, <2>2, FS_Subset, FS_CardinalityType
  <2>4. IdOf(ks, i) = nextId + Cardinality(S) /\ IdOf(ks, l) = nextId + Cardinality(T)
    BY DEF IdOf
  <2>5. nextId \in Nat
    BY DEF TypeOK
  <2> HIDE DEF S, T
  <2>6. QED
    BY <2>3, <2>4, <2>5
<1>3. QED
  BY <1>1, <1>2

LEMMA EidForApart ==
  ASSUME TypeOK, NEW ks \in SUBSET Keys, NEW type, NEW j \in ks, NEW k \in ks,
         EidFor(ks, type, j) = EidFor(ks, type, k)
  PROVE  j = k
<1>1. CASE Cardinality(ks) = 1
  <2>0. IsFiniteSet(Keys)
    BY FS_Interval, BoundsAssumption DEF Keys
  <2>1. IsFiniteSet(ks)
    BY <2>0, FS_Subset
  <2>2. PICK x : ks = {x}
    BY <1>1, <2>1, FS_Singleton
  <2>3. QED
    BY <2>2
<1>2. CASE Cardinality(ks) # 1
  BY <1>2, IdOfApart DEF EidFor
<1>3. QED
  BY <1>1, <1>2

(* The row of a change: a fresh one, or the anchor of the rows it folds.   *)
LEMMA RowForIs ==
  ASSUME TypeOK, NEW ks \in SUBSET Keys, NEW type \in MutationTypes,
         CanMutate(ks, type), NEW k \in ks
  PROVE  LET e == EidFor(ks, type, k)
             r == RowFor(ks, type, k)
         IN  /\ e \in Folded(type, k) \/ e = IdOf(ks, k)
             /\ r.key = k /\ r.val = IdOf(ks, k) /\ r.wait = 0 /\ r.status = "pending"
             /\ r.type = "delete" <=> type = "delete"
<1> DEFINE chain == Folded(type, k)
           e == EidFor(ks, type, k)
           r == RowFor(ks, type, k)
<1>1. e \in chain \/ e = IdOf(ks, k)
  <2>1. \A f \in chain : f \in DOMAIN outbox /\ outbox[f].seq \in Ids
    BY FoldedUnsynced DEF TypeOK, PartialFunction, Row
  <2>2. QED
    BY <2>1, AnchorIn DEF EidFor
<1>2. chain # {} => type = "update"
  BY DEF Folded
<1>3. FoldedType(outbox, chain) \in {"insert", "update"}
  BY DEF FoldedType
<1>4. ASSUME NEW tx, NEW seq, NEW t, NEW base, r = UnsyncedRow(tx, seq, k, t, IdOf(ks, k), base),
             t = "delete" <=> type = "delete"
      PROVE  /\ r.key = k /\ r.val = IdOf(ks, k) /\ r.wait = 0 /\ r.status = "pending"
             /\ r.type = "delete" <=> type = "delete"
  BY <1>4 DEF UnsyncedRow
<1>5. CASE chain = {}
  <2>1. r = UnsyncedRow(nextId, IdOf(ks, k), k, type, IdOf(ks, k),
                        IF ConflictDetection THEN heads[k] ELSE NoEvent)
    BY <1>5 DEF RowFor
  <2> HIDE DEF chain, e, r
  <2>2. QED
    BY <1>1, <1>4, <2>1 DEF chain, e, r
<1>6. CASE chain # {}
  <2>1. type # "delete" /\ FoldedType(outbox, chain) # "delete"
    BY <1>2, <1>3, <1>6
  <2>2. \E tx, seq : r = UnsyncedRow(tx, seq, k, FoldedType(outbox, chain), IdOf(ks, k),
                                     FoldBase(outbox, chain))
    BY <1>6 DEF RowFor
  <2> HIDE DEF chain, e, r
  <2>3. QED
    BY <1>1, <1>4, <2>1, <2>2 DEF chain, e, r
<1>7. QED
  BY <1>5, <1>6

(* The rows of a transaction are written, the folded ones go, and the      *)
(* others stay.                                                            *)
LEMMA EditWrites ==
  ASSUME TypeOK, NEW ks \in SUBSET Keys, NEW type, Mutate(ks, type)
  PROVE  /\ \A k \in ks : /\ EidFor(ks, type, k) \in DOMAIN outbox'
                          /\ outbox'[EidFor(ks, type, k)] = RowFor(ks, type, k)
         /\ \A e \in DOMAIN outbox' :
              \/ \E k \in ks : e = EidFor(ks, type, k)
              \/ /\ e \in DOMAIN outbox /\ outbox'[e] = outbox[e]
                 /\ \A k \in ks : e \notin Folded(type, k)
         /\ \A e \in DOMAIN outbox : e \in DOMAIN outbox' \/ \E k \in ks : e \in Folded(type, k)
<1> DEFINE written == {EidFor(ks, type, k) : k \in ks}
           keyOf(e) == CHOOSE k \in ks : EidFor(ks, type, k) = e
           gone == UNION {Folded(type, k) : k \in ks}
           new == [e \in written |-> RowFor(ks, type, keyOf(e))]
<1>1. outbox' = Rewrite(outbox, gone, new)
  BY DEF Mutate, HookWrites
<1>2. DOMAIN new = written
  OBVIOUS
<1>3. ASSUME NEW k \in ks
      PROVE  new[EidFor(ks, type, k)] = RowFor(ks, type, k) /\ EidFor(ks, type, k) \in written
  <2>1. EidFor(ks, type, k) \in written
    OBVIOUS
  <2>2. keyOf(EidFor(ks, type, k)) \in ks
        /\ EidFor(ks, type, keyOf(EidFor(ks, type, k))) = EidFor(ks, type, k)
    OBVIOUS
  <2>3. keyOf(EidFor(ks, type, k)) = k
    BY <2>2, EidForApart
  <2> HIDE DEF keyOf
  <2>4. QED
    BY <2>1, <2>3
<1>4. \A e \in written : \E k \in ks : e = EidFor(ks, type, k)
  OBVIOUS
<1>5. \A e : e \in gone <=> \E k \in ks : e \in Folded(type, k)
  OBVIOUS
<1> HIDE DEF new, written, gone
<1>6. /\ DOMAIN outbox' = (DOMAIN outbox \ gone) \cup written
      /\ \A e \in DOMAIN outbox' : outbox'[e] = IF e \in written THEN new[e] ELSE outbox[e]
  BY <1>1, <1>2 DEF Rewrite
<1>7. QED
  BY <1>3, <1>4, <1>5, <1>6

-----------------------------------------------------------------------------
(* Edits keep the order.                                                   *)

(* The rows a fold takes lie above all others of their key.                *)
LEMMA FoldTailIsTop ==
  ASSUME OrderInv, NEW k, NEW e \in FoldTail(k), NEW f \in RowsOf(k) \ FoldTail(k)
  PROVE  f < e
<1>1. DeliveryInv /\ Inv /\ PartialFunction(outbox, Ids, Row)
  BY DEF OrderInv, AnswerInv, DeadInv, DeliveryInv, Inv, TypeOK
<1>2. e \in Unsynced /\ e \in Free /\ e \in DOMAIN outbox /\ outbox[e].key = k
  BY <1>1, FoldTailUnsynced DEF Free
<1>3. f \in DOMAIN outbox /\ outbox[f].key = k
  BY DEF RowsOf
<1>4. /\ e \in Nat /\ f \in Nat
      /\ \A g \in DOMAIN outbox : g \in Nat /\ outbox[g].seq = g
  BY <1>1, <1>2, <1>3, RowsTyped
<1>5. CASE f \notin Unsynced
  <2>1. f \in DOMAIN log
    BY <1>1, <1>3, <1>5 DEF Inv, SyncedIsStored
  <2>2. e \in Undecided
    BY <1>1, <1>2, InHandIs
  <2>3. QED
    BY <2>1, <2>2 DEF OrderInv, Ordered, LogInOrder, Below
<1>6. CASE f \in Unsynced
  <2>1. f \in RowsOf(k) \cap Unsynced
    BY <1>6
  <2>2. PICK g \in RowsOf(k) \cap Unsynced :
          g >= f /\ (outbox[g].type = "delete" \/ g \in reserved)
    <3>1. PICK g \in RowsOf(k) \cap Unsynced :
            /\ outbox[g].seq >= outbox[f].seq
            /\ outbox[g].type = "delete" \/ g \in reserved
      BY <2>1 DEF FoldTail
    <3>2. QED
      BY <1>3, <1>4, <3>1 DEF RowsOf
  <2>3. g \in Nat /\ ~(g >= e)
    <3>1. g \in Nat /\ outbox[g].seq = g /\ outbox[e].seq = e
      BY <1>2, <1>4 DEF RowsOf
    <3>2. QED
      BY <2>2, <3>1 DEF FoldTail
  <2>4. QED
    BY <1>4, <2>2, <2>3
<1>7. QED
  BY <1>5, <1>6

LEMMA EditKeepsOrder ==
  ASSUME OrderInv, Inv', NEW ks \in SUBSET Keys, NEW type \in MutationTypes, Mutate(ks, type)
  PROVE  Ordered' /\ LastEdit'
<1>1. /\ DeliveryInv /\ Inv /\ TypeOK /\ Ordered /\ LastEdit /\ AnswerInv
      /\ CanMutate(ks, type) /\ PartialFunction(outbox, Ids, Row)
  BY DEF OrderInv, AnswerInv, DeadInv, DeliveryInv, Inv, TypeOK, Mutate
<1>2. /\ log' = log /\ deadletter' = deadletter /\ reserved' = reserved /\ push' = push
      /\ nextId' = nextId + Cardinality(ks)
      /\ \A k \in Keys : local'[k] = IF k \in ks
                           THEN [val |-> IdOf(ks, k), live |-> type # "delete"] ELSE local[k]
  BY DEF Mutate
<1>3. /\ nextId \in Nat /\ nextId <= nextId'
      /\ \A e \in DOMAIN outbox' :
           \/ e \in DOMAIN outbox /\ outbox'[e] = outbox[e]
           \/ e \in Unsynced \ reserved /\ outbox'[e].status = "pending"
           \/ e >= nextId /\ outbox'[e].status = "pending"
  BY <1>1, MutateWrites
<1>4. /\ \A e \in DOMAIN outbox : e \in Nat /\ e < nextId /\ outbox[e].val \in Nat
      /\ \A e \in DOMAIN outbox' : e \in Nat
      /\ \A e \in reserved : e \in Nat /\ e < nextId
      /\ \A e \in DOMAIN log : e \in Nat /\ e < nextId
  <2>1. \A e \in DOMAIN outbox : e \in Nat /\ e < nextId /\ outbox[e].val \in Nat
    BY <1>1, RowsTyped
  <2>2. \A e \in DOMAIN outbox' : e \in Nat
    BY BoundsAssumption DEF Inv, TypeOK, PartialFunction, Ids
  <2>3. \A e \in reserved : e \in Nat /\ e < nextId
    BY <1>1, RowsTyped DEF Inv, IdsDrawn
  <2>4. DOMAIN log \subseteq DOMAIN outbox
    BY <1>1 DEF AnswerInv, Answered, StoredMatches
  <2>5. QED
    BY <2>1, <2>2, <2>3, <2>4
<1> DEFINE new(k) == EidFor(ks, type, k)
<1>5. /\ \A k \in ks : new(k) \in DOMAIN outbox' /\ outbox'[new(k)] = RowFor(ks, type, k)
      /\ \A e \in DOMAIN outbox' :
           \/ \E k \in ks : e = new(k)
           \/ /\ e \in DOMAIN outbox /\ outbox'[e] = outbox[e]
              /\ \A k \in ks : e \notin Folded(type, k)
      /\ \A e \in DOMAIN outbox : e \in DOMAIN outbox' \/ \E k \in ks : e \in Folded(type, k)
  BY <1>1, EditWrites
<1>6. \A k \in ks : /\ new(k) \in Folded(type, k) \/ new(k) = IdOf(ks, k)
                    /\ outbox'[new(k)].key = k /\ outbox'[new(k)].val = IdOf(ks, k)
                    /\ outbox'[new(k)].wait = 0
                    /\ outbox'[new(k)].type = "delete" <=> type = "delete"
  BY <1>1, <1>5, RowForIs
<1>7. \A k \in ks : IdOf(ks, k) \in Nat /\ IdOf(ks, k) >= nextId /\ IdOf(ks, k) < nextId'
  BY <1>1, <1>2, IdOfType, BoundsAssumption DEF Ids
<1> HIDE DEF new
<1>8. ASSUME NEW k \in ks, NEW f \in DOMAIN outbox, outbox[f].key = k, f \notin Folded(type, k)
      PROVE  f < new(k)
  <2>1. CASE new(k) = IdOf(ks, k)
    BY <1>3, <1>4, <1>7, <1>8, <2>1
  <2>2. CASE new(k) \in Folded(type, k)
    <3>1. Folded(type, k) = FoldTail(k)
      BY <2>2 DEF Folded
    <3>2. QED
      BY <1>8, <2>2, <3>1, FoldTailIsTop DEF RowsOf
  <2>3. QED
    BY <1>6, <2>1, <2>2
<1>9. /\ \A e \in Free' : e \in Free \/ e >= nextId
      /\ \A e \in Undecided' : e \in Undecided \/ e >= nextId
      /\ Unsynced' \subseteq DOMAIN outbox'
  <2>1. \A e \in Unsynced' : e \in Unsynced \/ e >= nextId
    BY <1>3 DEF Unsynced
  <2>2. QED
    BY <1>2, <2>1 DEF Free, Undecided, Decided, Unsynced
<1>10. Rested'
  <2>1. \A e \in DOMAIN outbox' : outbox'[e].wait = 0
    BY <1>1, <1>5, <1>6 DEF Ordered, Rested
  <2>2. QED
    BY <1>1, <1>2, <2>1 DEF Ordered, Rested
<1>11. SentInOrder'
  BY <1>1, <1>2 DEF Ordered, SentInOrder, GroupsInOrder, TodoInOrder, Posted, OpenIds, QueueIds, TodoIds
<1>12. Below(reserved, Free)'
  <2>1. ASSUME NEW e \in reserved', NEW f \in Free' PROVE e < f
    <3>1. e \in reserved /\ f \in Nat
      BY <1>2, <1>4, <1>9, <2>1 DEF Free
    <3>2. QED
      BY <1>1, <1>3, <1>4, <1>9, <2>1, <3>1 DEF Ordered, Below
  <2>2. QED
    BY <2>1 DEF Below
<1>13. ReservedInHand'
  <2>1. reserved' \cap Undecided' \subseteq reserved \cap Undecided
    BY <1>2, <1>3, <1>4, <1>9
  <2>2. InHand' = InHand
    BY <1>2 DEF InHand, OpenIds, QueueIds, TodoIds
  <2>3. QED
    BY <1>1, <2>1, <2>2 DEF Ordered, ReservedInHand
<1>14. LogInOrder'
  <2>1. ASSUME NEW e \in DOMAIN log', NEW f \in Undecided' PROVE e < f
    <3>1. e \in DOMAIN log /\ f \in Nat
      BY <1>2, <1>4, <1>9, <2>1 DEF Undecided
    <3>2. QED
      BY <1>1, <1>3, <1>4, <1>9, <2>1, <3>1 DEF Ordered, LogInOrder, Below
  <2>2. QED
    BY <1>1, <1>2, <2>1 DEF Ordered, LogInOrder, Below
<1>15. ValsInOrder'
  <2>1. ASSUME NEW e \in DOMAIN outbox' PROVE outbox'[e].val < nextId'
    <3>1. CASE \E k \in ks : e = new(k)
      BY <1>6, <1>7, <3>1
    <3>2. CASE e \in DOMAIN outbox /\ outbox'[e] = outbox[e]
      <4>1. outbox[e].val < nextId /\ outbox[e].val \in Nat /\ nextId' \in Nat
        BY <1>1, <1>4, <3>2 DEF Ordered, ValsInOrder, Inv, TypeOK
      <4>2. QED
        BY <1>3, <3>2, <4>1
    <3>3. QED
      BY <1>5, <2>1, <3>1, <3>2
  <2>2. ASSUME NEW e \in DOMAIN outbox', NEW f \in DOMAIN outbox',
               outbox'[e].key = outbox'[f].key, e < f
        PROVE  outbox'[e].val < outbox'[f].val
    <3>1. CASE \E k \in ks : f = new(k)
      <4>1. PICK k \in ks : f = new(k)
        BY <3>1
      <4>2. CASE \E j \in ks : e = new(j)
        <5>1. e = f
          BY <1>6, <2>2, <4>1, <4>2
        <5>2. QED
          BY <1>4, <2>2, <5>1
      <4>3. CASE e \in DOMAIN outbox /\ outbox'[e] = outbox[e]
        <5>1. outbox[e].val < nextId /\ outbox[e].val \in Nat
          BY <1>1, <1>4, <4>3 DEF Ordered, ValsInOrder
        <5>2. QED
          BY <1>3, <1>6, <1>7, <4>1, <4>3, <5>1
      <4>4. QED
        BY <1>5, <2>2, <4>2, <4>3
    <3>2. CASE /\ f \in DOMAIN outbox /\ outbox'[f] = outbox[f]
               /\ \A k \in ks : f \notin Folded(type, k)
      <4>1. CASE \E k \in ks : e = new(k)
        <5>1. PICK k \in ks : e = new(k)
          BY <4>1
        <5>2. f < e
          BY <1>6, <1>8, <2>2, <3>2, <5>1
        <5>3. QED
          BY <1>4, <2>2, <5>2
      <4>2. CASE e \in DOMAIN outbox /\ outbox'[e] = outbox[e]
        BY <1>1, <2>2, <3>2, <4>2 DEF Ordered, ValsInOrder
      <4>3. QED
        BY <1>5, <2>2, <4>1, <4>2
    <3>3. QED
      BY <1>5, <2>2, <3>1, <3>2
  <2>3. QED
    BY <2>1, <2>2 DEF ValsInOrder
<1>16. LastEdit'
  <2> SUFFICES ASSUME DOMAIN deadletter' = {}, NEW k \in Keys
               PROVE  IF local'[k].live
                      THEN \E e \in NewestOf(k)' : outbox'[e].type # "delete"
                                                   /\ outbox'[e].val = local'[k].val
                      ELSE \A e \in NewestOf(k)' : outbox'[e].type = "delete"
    BY DEF LastEdit
  <2>1. RowsOf(k)' = {e \in DOMAIN outbox' : outbox'[e].key = k}
    BY DEF RowsOf
  <2>2. NewestOf(k)' = {e \in RowsOf(k)' : \A f \in RowsOf(k)' : f <= e}
    BY DEF NewestOf
  <2>3. CASE k \in ks
    <3>1. new(k) \in RowsOf(k)'
      BY <1>5, <1>6, <2>1, <2>3
    <3>2. ASSUME NEW f \in RowsOf(k)' PROVE f \in Nat /\ new(k) \in Nat /\ f <= new(k)
      <4>1. f \in Nat /\ new(k) \in Nat /\ f \in DOMAIN outbox' /\ outbox'[f].key = k
        BY <1>4, <2>1, <3>1, <3>2
      <4>2. CASE \E j \in ks : f = new(j)
        <5>1. f = new(k)
          BY <1>6, <4>1, <4>2
        <5>2. QED
          BY <4>1, <5>1
      <4>3. CASE /\ f \in DOMAIN outbox /\ outbox'[f] = outbox[f]
                 /\ \A j \in ks : f \notin Folded(type, j)
        <5>1. f < new(k)
          BY <1>8, <2>3, <4>1, <4>3
        <5>2. QED
          BY <4>1, <5>1
      <4>4. QED
        BY <1>5, <4>1, <4>2, <4>3
    <3>3. new(k) \in NewestOf(k)' /\ \A f \in NewestOf(k)' : f = new(k)
      BY <2>2, <3>1, <3>2
    <3>4. local'[k] = [val |-> IdOf(ks, k), live |-> type # "delete"]
      BY <1>2, <2>3
    <3>5. /\ outbox'[new(k)].val = local'[k].val
          /\ outbox'[new(k)].type = "delete" <=> ~local'[k].live
      <4>1. /\ outbox'[new(k)].val = IdOf(ks, k)
            /\ outbox'[new(k)].type = "delete" <=> type = "delete"
        BY <1>6, <2>3
      <4>2. local'[k].val = IdOf(ks, k) /\ (local'[k].live <=> type # "delete")
        <5>1. local'[k].val = IdOf(ks, k)
          BY <3>4
        <5> DEFINE live == type # "delete"
        <5>2. local'[k] = [val |-> IdOf(ks, k), live |-> live] /\ live \in BOOLEAN
          BY <3>4
        <5> HIDE DEF live
        <5>3. local'[k].live = live
          BY <5>2
        <5>4. local'[k].live <=> live
          BY <5>2, <5>3
        <5>5. QED
          BY <5>1, <5>4 DEF live
      <4>3. QED
        BY <4>1, <4>2
    <3>6. QED
      BY <3>3, <3>5
  <2>4. CASE k \notin ks
    <3>1. \A e \in DOMAIN outbox : \A j \in ks : e \in Folded(type, j) => outbox[e].key = j
      BY <1>1, FoldedUnsynced
    <3>2. /\ RowsOf(k)' = RowsOf(k)
          /\ \A e \in RowsOf(k) : outbox'[e] = outbox[e]
      <4>1. ASSUME NEW e \in RowsOf(k) PROVE e \in RowsOf(k)' /\ outbox'[e] = outbox[e]
        <5>1. e \in DOMAIN outbox /\ outbox[e].key = k
          BY <4>1 DEF RowsOf
        <5>2. \A j \in ks : e \notin Folded(type, j)
          BY <2>4, <3>1, <5>1
        <5>3. e \in DOMAIN outbox'
          BY <1>5, <5>1, <5>2
        <5>4. \A j \in ks : e # new(j)
          BY <1>3, <1>4, <1>6, <1>7, <5>1, <5>2
        <5>5. outbox'[e] = outbox[e]
          BY <1>5, <5>3, <5>4
        <5>6. QED
          BY <2>1, <5>1, <5>3, <5>5
      <4>2. ASSUME NEW e \in RowsOf(k)' PROVE e \in RowsOf(k)
        <5>1. e \in DOMAIN outbox' /\ outbox'[e].key = k
          BY <2>1, <4>2
        <5>2. \A j \in ks : e # new(j)
          BY <1>6, <2>4, <5>1
        <5>3. e \in DOMAIN outbox /\ outbox[e].key = k
          BY <1>5, <5>1, <5>2
        <5>4. QED
          BY <5>3 DEF RowsOf
      <4>3. RowsOf(k)' \subseteq RowsOf(k) /\ RowsOf(k) \subseteq RowsOf(k)'
        BY <4>1, <4>2
      <4>4. QED
        BY <4>1, <4>3
    <3>3. NewestOf(k)' = NewestOf(k) /\ \A e \in NewestOf(k) : outbox'[e] = outbox[e]
      BY <2>2, <3>2 DEF NewestOf
    <3>4. local'[k] = local[k]
      BY <1>2, <2>4
    <3>5. QED
      BY <1>1, <1>2, <3>3, <3>4 DEF LastEdit
  <2>5. QED
    BY <2>3, <2>4
<1>17. QED
  BY <1>10, <1>11, <1>12, <1>13, <1>14, <1>15, <1>16 DEF Ordered

-----------------------------------------------------------------------------
(* So does compact().                                                      *)

Numbered == /\ PartialFunction(outbox, Ids, Row)
            /\ \A e \in DOMAIN outbox : outbox[e].seq = e

LEMMA NumberedRows ==
  ASSUME Numbered
  PROVE  \A e \in DOMAIN outbox : e \in Ids /\ e \in Nat /\ outbox[e] \in Row /\ outbox[e].seq = e
BY BoundsAssumption DEF Numbered, PartialFunction, Ids

(* A life ends with a delete: whatever comes after belongs to a later one. *)
LEMMA LifeNoRises ==
  ASSUME Numbered, NEW k, NEW d \in RowsOf(k), IsDelete(d), NEW e \in RowsOf(k), d < e
  PROVE  LifeNo(k, d) # LifeNo(k, e)
<1> DEFINE S == {x \in RowsOf(k) : IsDelete(x) /\ outbox[x].seq < outbox[d].seq}
           T == {x \in RowsOf(k) : IsDelete(x) /\ outbox[x].seq < outbox[e].seq}
<1>1. \A x \in RowsOf(k) : x \in Nat /\ x \in Ids /\ outbox[x].seq = x
  BY NumberedRows DEF RowsOf
<1>2. S \in SUBSET T /\ d \in T /\ d \notin S
  BY <1>1
<1>3. IsFiniteSet(T)
  <2>1. T \subseteq Ids
    BY <1>1
  <2> HIDE DEF T
  <2>2. QED
    BY <2>1, IdsFinite
<1>4. LifeNo(k, d) = Cardinality(S) /\ LifeNo(k, e) = Cardinality(T)
  BY DEF LifeNo
<1> HIDE DEF S, T
<1>5. QED
  BY <1>2, <1>3, <1>4, FS_Subset

(* Two lives of a key are apart.                                           *)
LEMMA LivesApart ==
  ASSUME NEW k, NEW life \in ClosedLives(k), NEW other \in ClosedLives(k),
         NEW e \in life, e \in other
  PROVE  life = other
<1>1. /\ \E x \in RowsOf(k) : life = {f \in RowsOf(k) : LifeNo(k, f) = LifeNo(k, x)}
      /\ \E x \in RowsOf(k) : other = {f \in RowsOf(k) : LifeNo(k, f) = LifeNo(k, x)}
  BY DEF ClosedLives, Lives
<1> HIDE DEF LifeNo
<1>2. QED
  BY <1>1

(* A closed life has its delete on top.                                    *)
LEMMA LifeTop ==
  ASSUME Numbered, NEW k, NEW life \in ClosedLives(k)
  PROVE  \E d \in life : IsDelete(d) /\ \A f \in life : f <= d
<1>1. PICK x \in RowsOf(k) : life = {f \in RowsOf(k) : LifeNo(k, f) = LifeNo(k, x)}
  BY DEF ClosedLives, Lives
<1>2. PICK d \in life : IsDelete(d)
  BY DEF ClosedLives
<1>3. \A f \in life : f \in RowsOf(k) /\ f \in Nat
  BY <1>1, NumberedRows DEF RowsOf
<1>4. ASSUME NEW f \in life PROVE f <= d
  <2>1. ~(d < f)
    BY <1>1, <1>2, <1>3, <1>4, LifeNoRises
  <2>2. QED
    BY <1>2, <1>3, <1>4, <2>1
<1>5. QED
  BY <1>2, <1>4

(* The open life has no delete, and lies above the closed ones.            *)
LEMMA OpenLifeIs ==
  ASSUME Numbered, NEW k, NEW e \in OpenLife(k)
  PROVE  /\ e \in RowsOf(k) /\ ~IsDelete(e)
         /\ \A life \in ClosedLives(k) : e \notin life
         /\ \A life \in ClosedLives(k) : \A f \in life : f < e
<1>1. e \in RowsOf(k) /\ \A life \in ClosedLives(k) : e \notin life
  BY DEF OpenLife
<1>2. \A x \in RowsOf(k) : x \in Nat /\ x \in Ids /\ outbox[x].seq = x
  BY NumberedRows DEF RowsOf
<1>3. ASSUME NEW d \in RowsOf(k), IsDelete(d) PROVE d < e
  <2> SUFFICES ASSUME e <= d PROVE FALSE
    BY <1>1, <1>2, <1>3
  <2> DEFINE T == {x \in RowsOf(k) : IsDelete(x) /\ e <= x}
  <2>1. T \subseteq Nat /\ T # {}
    BY <1>2, <1>3
  <2>2. PICK t \in T : \A y \in T : t <= y
    <3> HIDE DEF T
    <3>1. QED
      BY <2>1, MinExists
  <2>3. {x \in RowsOf(k) : IsDelete(x) /\ outbox[x].seq < outbox[t].seq}
          = {x \in RowsOf(k) : IsDelete(x) /\ outbox[x].seq < outbox[e].seq}
    <3>1. ASSUME NEW x \in RowsOf(k), IsDelete(x) PROVE x < t <=> x < e
      BY <1>1, <1>2, <2>2, <3>1
    <3>2. outbox[t].seq = t /\ outbox[e].seq = e /\ \A x \in RowsOf(k) : outbox[x].seq = x
      BY <1>1, <1>2, <2>2
    <3> HIDE DEF IsDelete
    <3>3. QED
      BY <3>1, <3>2
  <2>4. LifeNo(k, t) = LifeNo(k, e)
    BY <2>3 DEF LifeNo
  <2> DEFINE life == {f \in RowsOf(k) : LifeNo(k, f) = LifeNo(k, e)}
  <2>5. life \in Lives(k) /\ t \in life /\ IsDelete(t) /\ e \in life
    BY <1>1, <2>2, <2>4 DEF Lives
  <2>6. life \in ClosedLives(k)
    BY <2>5 DEF ClosedLives
  <2>7. QED
    BY <1>1, <2>5, <2>6
<1>4. ~IsDelete(e)
  BY <1>1, <1>2, <1>3
<1>5. ASSUME NEW life \in ClosedLives(k), NEW f \in life PROVE f < e
  <2>1. PICK d \in life : IsDelete(d) /\ \A g \in life : g <= d
    BY LifeTop
  <2>2. d \in RowsOf(k) /\ f \in RowsOf(k)
    BY LifeOf
  <2>3. d < e /\ f <= d
    BY <1>3, <1>5, <2>1, <2>2
  <2>4. QED
    BY <1>1, <1>2, <2>2, <2>3
<1>6. QED
  BY <1>1, <1>4, <1>5

(* A closed life stays, goes, or keeps its delete.                         *)
LEMMA CollapsedIs ==
  ASSUME Numbered, NEW k, NEW life \in ClosedLives(k),
         NEW d \in life, \A f \in life : f <= d
  PROVE  LET c == Collapsed(life)
         IN  \/ c.gone = {} /\ DOMAIN c.new = {}
             \/ c.gone = life /\ DOMAIN c.new = {}
             \/ /\ c.gone \subseteq life /\ DOMAIN c.new = {d}
                /\ c.new[d].type = "delete" /\ c.new[d].val = outbox[d].val
                /\ c.new[d].key = outbox[d].key /\ c.new[d].wait = 0
<1> DEFINE suffix == UnsyncedSuffix(life)
           prefix == life \ suffix
           last   == Newest(outbox, suffix)
           row    == outbox[last]
<1>1. \A f \in life : f \in Ids /\ f \in Nat /\ outbox[f].seq = f
  BY LifeOf, NumberedRows
<1>2. suffix \subseteq life
  BY DEF UnsyncedSuffix
<1>3. CASE ~Collapsible(life) \/ (prefix # {} /\ Cardinality(suffix) = 1)
  BY <1>3, NothingYet DEF Collapsed
<1>4. CASE Collapsible(life) /\ prefix = {}
  BY <1>2, <1>4, NothingYet DEF Collapsed
<1>5. CASE Collapsible(life) /\ prefix # {} /\ Cardinality(suffix) # 1
  <2> DEFINE new == UnsyncedRow(row.tx, row.seq, row.key, "delete", row.val,
                                Newest(outbox, prefix))
  <2>1. Collapsed(life) = [gone |-> suffix, new |-> One(last, new)]
    BY <1>5 DEF Collapsed
  <2>2. suffix # {} /\ \A f \in suffix : outbox[f].seq \in Ids
    BY <1>1, <1>2, <1>5 DEF Collapsible
  <2>3. last \in suffix /\ \A f \in suffix : outbox[f].seq <= outbox[last].seq
    BY <2>2, NewestIn
  <2>4. d \in suffix
    <3>1. PICK f \in life \cap Unsynced : outbox[f].seq <= outbox[last].seq
      BY <2>3 DEF UnsyncedSuffix
    <3>2. outbox[f].seq <= outbox[d].seq
      BY <1>1, <3>1
    <3>3. QED
      BY <3>1, <3>2 DEF UnsyncedSuffix
  <2>5. last = d
    <3>1. last \in Nat /\ d \in Nat /\ d <= last /\ last <= d
      BY <1>1, <1>2, <2>3, <2>4
    <3> HIDE DEF last
    <3>2. QED
      BY <3>1
  <2>6. /\ new.type = "delete" /\ new.val = row.val /\ new.key = row.key /\ new.wait = 0
    BY DEF UnsyncedRow
  <2> HIDE DEF new, last, suffix
  <2>7. /\ Collapsed(life).gone = suffix /\ DOMAIN Collapsed(life).new = {d}
        /\ Collapsed(life).new[d] = new
    BY <2>1, <2>5 DEF One
  <2>8. QED
    BY <1>2, <2>5, <2>6, <2>7
<1>6. QED
  BY <1>3, <1>4, <1>5

(* What the closed lives leave of the outbox.                              *)
LEMMA AfterClosedIs ==
  ASSUME Numbered, NEW k
  PROVE  LET ob == AfterClosed(k)
         IN  /\ DOMAIN ob \subseteq DOMAIN outbox
             /\ \A e \in DOMAIN outbox : (\A life \in ClosedLives(k) : e \notin life) =>
                  e \in DOMAIN ob /\ ob[e] = outbox[e]
             /\ \A e \in DOMAIN ob :
                  \/ ob[e] = outbox[e]
                  \/ ob[e].key = outbox[e].key /\ ob[e].val = outbox[e].val /\ ob[e].wait = 0
             /\ \A life \in ClosedLives(k) : \A e \in life \cap DOMAIN ob :
                  \E d \in life \cap DOMAIN ob : ob[d].type = "delete" /\ e <= d
<1> DEFINE ob == AfterClosed(k)
           closed == ClosedLives(k)
           gone == UNION {Collapsed(life).gone : life \in closed}
           news == UNION {DOMAIN Collapsed(life).new : life \in closed}
           lifeOf(e) == CHOOSE life \in closed : e \in DOMAIN Collapsed(life).new
           new == [e \in news |-> Collapsed(lifeOf(e)).new[e]]
<1>1. ob = Rewrite(outbox, gone, new) /\ DOMAIN new = news
  BY DEF AfterClosed
<1>2. \A life \in closed : life \subseteq DOMAIN outbox
  BY LifeOf
<1>3. \A life \in closed : /\ Collapsed(life).gone \subseteq life
                           /\ DOMAIN Collapsed(life).new \subseteq life
                           /\ DOMAIN Collapsed(life).new \subseteq Collapsed(life).gone
  BY CollapsedIn DEF Numbered
<1>4. \A e \in news : /\ lifeOf(e) \in closed /\ e \in DOMAIN Collapsed(lifeOf(e)).new
                      /\ new[e] = Collapsed(lifeOf(e)).new[e]
  OBVIOUS
<1>5. \A e : e \in gone <=> \E life \in closed : e \in Collapsed(life).gone
  OBVIOUS
<1>6. \A e : e \in news <=> \E life \in closed : e \in DOMAIN Collapsed(life).new
  OBVIOUS
<1> HIDE DEF ob, gone, news, lifeOf, new
<1>7. /\ DOMAIN ob = (DOMAIN outbox \ gone) \cup news
      /\ \A e \in DOMAIN ob : ob[e] = IF e \in news THEN new[e] ELSE outbox[e]
  BY <1>1 DEF Rewrite
<1>8. \A e \in gone \cup news : \E life \in closed : e \in life
  BY <1>3, <1>5, <1>6
<1>9. DOMAIN ob \subseteq DOMAIN outbox
  BY <1>2, <1>7, <1>8
<1>10. \A e \in DOMAIN outbox : (\A life \in closed : e \notin life) =>
         e \in DOMAIN ob /\ ob[e] = outbox[e]
  BY <1>7, <1>8
<1>11. ASSUME NEW e \in news
       PROVE  /\ new[e].key = outbox[e].key /\ new[e].val = outbox[e].val /\ new[e].wait = 0
              /\ new[e].type = "delete"
  <2>1. lifeOf(e) \in closed /\ e \in DOMAIN Collapsed(lifeOf(e)).new
        /\ new[e] = Collapsed(lifeOf(e)).new[e]
    BY <1>4, <1>11
  <2>2. PICK d \in lifeOf(e) : \A f \in lifeOf(e) : f <= d
    BY <2>1, LifeTop
  <2>3. QED
    BY <2>1, <2>2, CollapsedIs
<1>12. ASSUME NEW life \in closed, NEW e \in life \cap DOMAIN ob
       PROVE  \E d \in life \cap DOMAIN ob : ob[d].type = "delete" /\ e <= d
  <2>1. PICK d \in life : IsDelete(d) /\ \A f \in life : f <= d
    BY LifeTop
  <2>2. \A x \in life : /\ x \in gone <=> x \in Collapsed(life).gone
                        /\ x \in news <=> x \in DOMAIN Collapsed(life).new
    BY <1>3, <1>5, <1>6, LivesApart
  <2>3. d \in DOMAIN outbox /\ outbox[d].type = "delete"
    BY <1>2, <2>1 DEF IsDelete
  <2>4. CASE Collapsed(life).gone = {} /\ DOMAIN Collapsed(life).new = {}
    BY <1>7, <2>1, <2>2, <2>3, <2>4
  <2>5. CASE Collapsed(life).gone = life /\ DOMAIN Collapsed(life).new = {}
    BY <1>7, <1>12, <2>2, <2>5
  <2>6. CASE DOMAIN Collapsed(life).new = {d}
    <3>1. d \in news
      BY <2>2, <2>6
    <3>2. d \in DOMAIN ob /\ ob[d].type = "delete"
      BY <1>7, <1>11, <3>1
    <3>3. QED
      BY <1>12, <2>1, <3>2
  <2>7. QED
    BY <2>1, <2>4, <2>5, <2>6, CollapsedIs
<1>13. \A e \in DOMAIN ob :
         \/ ob[e] = outbox[e]
         \/ ob[e].key = outbox[e].key /\ ob[e].val = outbox[e].val /\ ob[e].wait = 0
  BY <1>7, <1>11
<1>14. QED
  BY <1>9, <1>10, <1>12, <1>13 DEF ob

(* The tail that compact() squashes lies above the other rows of its key.  *)
LEMMA OpenTailIsTop ==
  ASSUME Numbered, NEW k, NEW e \in OpenTail(k), NEW f \in RowsOf(k) \ OpenTail(k)
  PROVE  f < e
<1>1. e \in OpenLife(k)
  BY DEF OpenTail
<1>2. \A x \in RowsOf(k) : x \in Nat /\ outbox[x].seq = x
  BY NumberedRows DEF RowsOf
<1>3. e \in RowsOf(k) /\ \A life \in ClosedLives(k) : \A x \in life : x < e
  BY <1>1, OpenLifeIs
<1>4. CASE f \in OpenLife(k)
  <2>1. PICK g \in OpenLife(k) : outbox[g].seq >= outbox[f].seq /\ g \notin Unsynced \ reserved
    BY <1>4 DEF OpenTail
  <2>2. ~(outbox[g].seq >= outbox[e].seq) /\ g \in RowsOf(k)
    BY <2>1 DEF OpenTail, OpenLife
  <2>3. QED
    BY <1>2, <1>3, <2>1, <2>2
<1>5. CASE f \notin OpenLife(k)
  BY <1>3, <1>5 DEF OpenLife
<1>6. QED
  BY <1>4, <1>5

(* What compact() leaves: its squashed tail is one row that holds the last *)
(* payload, and the other rows keep theirs.                                *)
LEMMA CompactedIs ==
  ASSUME Numbered, NEW k \in Keys, outbox' = CompactedOutbox(k)
  PROVE  LET ob == AfterClosed(k)
             tail == OpenTail(k)
         IN  \/ outbox' = ob
             \/ \E place \in tail : \E top \in tail :
                  /\ \A f \in tail : f <= top
                  /\ DOMAIN outbox' = (DOMAIN ob \ tail) \cup {place}
                  /\ \A e \in DOMAIN ob \ tail : outbox'[e] = ob[e]
                  /\ outbox'[place].key = k /\ outbox'[place].val = outbox[top].val
                  /\ outbox'[place].wait = 0 /\ outbox'[place].type # "delete"
<1> DEFINE ob == AfterClosed(k)
           tail == OpenTail(k)
<1>1. CASE ~(Cardinality(tail) > 1)
  BY <1>1 DEF CompactedOutbox
<1>2. CASE Cardinality(tail) > 1
  <2> DEFINE place == Anchor(ob, tail)
             top == Newest(ob, tail)
             row == UnsyncedRow(ob[place].tx, ob[place].seq, k, FoldedType(ob, tail),
                                ob[top].val, FoldBase(ob, tail))
  <2>1. tail # {}
    BY <1>2, FS_EmptySet
  <2>2. \A e \in tail : e \in DOMAIN outbox /\ ob[e] = outbox[e] /\ ob[e].seq = e
                        /\ e \in Ids /\ e \in Nat
    <3>1. ASSUME NEW e \in tail
          PROVE  e \in DOMAIN outbox /\ ob[e] = outbox[e] /\ ob[e].seq = e /\ e \in Ids /\ e \in Nat
      <4>1. e \in RowsOf(k) /\ \A life \in ClosedLives(k) : e \notin life
        BY <3>1, OpenLifeIs DEF OpenTail
      <4>2. e \in DOMAIN outbox
        BY <4>1 DEF RowsOf
      <4>3. QED
        BY <4>1, <4>2, AfterClosedIs, NumberedRows
    <3>2. QED
      BY <3>1
  <2> HIDE DEF ob, tail
  <2>3. place \in tail /\ top \in tail /\ \A f \in tail : ob[f].seq <= ob[top].seq
    BY <2>1, <2>2, AnchorIn, NewestIn
  <2>4. outbox' = Rewrite(ob, tail, One(place, row))
    BY <1>2 DEF CompactedOutbox, Squashed, ob, tail
  <2>5. row.key = k /\ row.val = ob[top].val /\ row.wait = 0 /\ row.type # "delete"
    BY DEF UnsyncedRow, FoldedType
  <2> HIDE DEF place, top, row
  <2>6. /\ DOMAIN outbox' = (DOMAIN ob \ tail) \cup {place}
        /\ \A e \in DOMAIN outbox' : outbox'[e] = IF e = place THEN row ELSE ob[e]
    BY <2>4 DEF Rewrite, One
  <2>7. /\ \A f \in tail : f <= top
        /\ \A e \in DOMAIN ob \ tail : outbox'[e] = ob[e]
        /\ outbox'[place] = row /\ ob[top] = outbox[top]
    BY <2>2, <2>3, <2>6
  <2>8. QED
    BY <2>3, <2>5, <2>6, <2>7 DEF ob, tail
<1>3. QED
  BY <1>1, <1>2

(* The rows of a key after its compaction.                                 *)
LEMMA CompactedRows ==
  ASSUME Numbered, NEW k \in Keys, CompactKey(k)
  PROVE  /\ DOMAIN outbox' \subseteq DOMAIN outbox
         /\ \A e \in DOMAIN outbox : outbox[e].key # k =>
              e \in DOMAIN outbox' /\ outbox'[e] = outbox[e]
         /\ \A e \in DOMAIN outbox' : /\ outbox'[e].key = outbox[e].key
                                      /\ outbox'[e].wait = outbox[e].wait \/ outbox'[e].wait = 0
         /\ \/ \A e \in DOMAIN outbox' : outbox'[e].val = outbox[e].val
            \/ \E place \in OpenTail(k) : \E top \in OpenTail(k) :
                 /\ \A f \in OpenTail(k) : f <= top
                 /\ place \in DOMAIN outbox' /\ outbox'[place].val = outbox[top].val
                 /\ outbox'[place].type # "delete"
                 /\ \A e \in DOMAIN outbox' : e # place =>
                      e \notin OpenTail(k) /\ outbox'[e].val = outbox[e].val
<1> DEFINE ob == AfterClosed(k)
           tail == OpenTail(k)
<1>1. outbox' = CompactedOutbox(k)
  BY DEF CompactKey
<1>2. /\ DOMAIN ob \subseteq DOMAIN outbox
      /\ \A e \in DOMAIN outbox : (\A life \in ClosedLives(k) : e \notin life) =>
           e \in DOMAIN ob /\ ob[e] = outbox[e]
      /\ \A e \in DOMAIN ob :
           \/ ob[e] = outbox[e]
           \/ ob[e].key = outbox[e].key /\ ob[e].val = outbox[e].val /\ ob[e].wait = 0
  BY AfterClosedIs
<1>3. \A e \in tail : e \in DOMAIN outbox /\ outbox[e].key = k /\ e \in DOMAIN ob
  <2>1. \A e \in tail : e \in RowsOf(k) /\ \A life \in ClosedLives(k) : e \notin life
    BY OpenLifeIs DEF OpenTail
  <2>2. QED
    BY <1>2, <2>1 DEF RowsOf
<1>4. ASSUME NEW e \in DOMAIN outbox, outbox[e].key # k
      PROVE  e \in DOMAIN ob /\ ob[e] = outbox[e] /\ e \notin tail
  <2>1. \A life \in ClosedLives(k) : e \notin life
    BY <1>4, LifeOf DEF RowsOf
  <2>2. QED
    BY <1>2, <1>3, <1>4, <2>1
<1> HIDE DEF ob, tail
<1>5. CASE outbox' = ob
  BY <1>2, <1>4, <1>5
<1>6. CASE \E place \in tail : \E top \in tail :
             /\ \A f \in tail : f <= top
             /\ DOMAIN outbox' = (DOMAIN ob \ tail) \cup {place}
             /\ \A e \in DOMAIN ob \ tail : outbox'[e] = ob[e]
             /\ outbox'[place].key = k /\ outbox'[place].val = outbox[top].val
             /\ outbox'[place].wait = 0 /\ outbox'[place].type # "delete"
  <2>1. PICK place \in tail : \E top \in tail :
             /\ \A f \in tail : f <= top
             /\ DOMAIN outbox' = (DOMAIN ob \ tail) \cup {place}
             /\ \A e \in DOMAIN ob \ tail : outbox'[e] = ob[e]
             /\ outbox'[place].key = k /\ outbox'[place].val = outbox[top].val
             /\ outbox'[place].wait = 0 /\ outbox'[place].type # "delete"
    BY <1>6
  <2>2. PICK top \in tail :
             /\ \A f \in tail : f <= top
             /\ DOMAIN outbox' = (DOMAIN ob \ tail) \cup {place}
             /\ \A e \in DOMAIN ob \ tail : outbox'[e] = ob[e]
             /\ outbox'[place].key = k /\ outbox'[place].val = outbox[top].val
             /\ outbox'[place].wait = 0 /\ outbox'[place].type # "delete"
    BY <2>1
  <2>3. DOMAIN outbox' \subseteq DOMAIN outbox
    BY <1>2, <1>3, <2>2
  <2>4. \A e \in DOMAIN outbox : outbox[e].key # k => e \in DOMAIN outbox' /\ outbox'[e] = outbox[e]
    BY <1>4, <2>2
  <2>5. ASSUME NEW e \in DOMAIN outbox', e # place
        PROVE  /\ e \notin tail /\ outbox'[e].val = outbox[e].val /\ outbox'[e].key = outbox[e].key
               /\ outbox'[e].wait = outbox[e].wait \/ outbox'[e].wait = 0
    <3>1. e \in DOMAIN ob \ tail /\ outbox'[e] = ob[e]
      BY <2>2, <2>5
    <3>2. QED
      BY <1>2, <3>1
  <2>6. place \in DOMAIN outbox' /\ outbox'[place].key = outbox[place].key
    BY <1>3, <2>2
  <2>7. QED
    BY <2>2, <2>3, <2>4, <2>5, <2>6 DEF tail
<1>7. QED
  BY <1>1, <1>5, <1>6, CompactedIs DEF ob, tail

(* The newest row of a key that is not deleted is in its open life.        *)
LEMMA NewestIsOpen ==
  ASSUME Numbered, NEW k, NEW e \in NewestOf(k), ~IsDelete(e)
  PROVE  e \in OpenLife(k) /\ \A c \in OpenTail(k) : e \in OpenTail(k)
<1>1. e \in RowsOf(k) /\ (\A f \in RowsOf(k) : f <= e) /\ \A f \in RowsOf(k) : f \in Nat
  BY NumberedRows DEF NewestOf, RowsOf
<1>2. ASSUME NEW life \in ClosedLives(k), e \in life PROVE FALSE
  <2>1. PICK d \in life : IsDelete(d) /\ \A f \in life : f <= d
    BY LifeTop
  <2>2. d \in RowsOf(k) /\ d <= e /\ e <= d
    BY <1>1, <1>2, <2>1, LifeOf
  <2>3. d = e
    BY <1>1, <2>2
  <2>4. QED
    BY <2>1, <2>3
<1>3. ASSUME NEW c \in OpenTail(k), e \notin OpenTail(k) PROVE FALSE
  <2>1. c \in RowsOf(k) /\ e < c
    BY <1>1, <1>3, OpenTailIsTop DEF OpenTail, OpenLife
  <2>2. QED
    BY <1>1, <2>1
<1>4. QED
  BY <1>1, <1>2, <1>3 DEF OpenLife

(* Without a newest row that is live there is no open life.                *)
LEMMA NothingOpen ==
  ASSUME Numbered, NEW k, \A e \in NewestOf(k) : IsDelete(e)
  PROVE  OpenLife(k) = {}
<1> SUFFICES ASSUME NEW e \in OpenLife(k) PROVE FALSE
  OBVIOUS
<1>1. e \in RowsOf(k)
  BY DEF OpenLife
<1>2. RowsOf(k) \subseteq 1..MaxIds /\ MaxIds \in Nat
  BY NumberedRows, BoundsAssumption DEF RowsOf, Ids
<1>3. PICK t \in RowsOf(k) : \A f \in RowsOf(k) : f <= t
  BY <1>1, <1>2, MaxExists
<1>4. IsDelete(t)
  BY <1>3 DEF NewestOf
<1>5. t \in OpenLife(k) \/ \E life \in ClosedLives(k) : t \in life
  BY DEF OpenLife
<1>6. t < e
  BY <1>4, <1>5, OpenLifeIs
<1>7. QED
  BY <1>1, <1>2, <1>3, <1>6

LEMMA CompactKeepsOrder ==
  ASSUME OrderInv, NEW k \in Keys, CompactKey(k)
  PROVE  Ordered' /\ LastEdit'
<1>1. /\ DeliveryInv /\ Inv /\ Ordered /\ LastEdit /\ Numbered
  BY DEF OrderInv, AnswerInv, DeadInv, DeliveryInv, Inv, TypeOK, Numbered, IdsDrawn
<1>2. /\ log' = log /\ deadletter' = deadletter /\ reserved' = reserved /\ push' = push
      /\ nextId' = nextId /\ local' = local
  BY DEF CompactKey
<1>3. /\ DOMAIN outbox' \subseteq DOMAIN outbox
      /\ \A e \in DOMAIN outbox : outbox[e].key # k =>
           e \in DOMAIN outbox' /\ outbox'[e] = outbox[e]
      /\ \A e \in DOMAIN outbox' : /\ outbox'[e].key = outbox[e].key
                                   /\ outbox'[e].wait = outbox[e].wait \/ outbox'[e].wait = 0
  BY <1>1, CompactedRows
<1>4. \/ \A e \in DOMAIN outbox' : outbox'[e].val = outbox[e].val
      \/ \E place \in OpenTail(k) : \E top \in OpenTail(k) :
           /\ \A f \in OpenTail(k) : f <= top
           /\ place \in DOMAIN outbox' /\ outbox'[place].val = outbox[top].val
           /\ outbox'[place].type # "delete"
           /\ \A e \in DOMAIN outbox' : e # place =>
                e \notin OpenTail(k) /\ outbox'[e].val = outbox[e].val
  BY <1>1, CompactedRows
<1>5. \A e \in DOMAIN outbox : e \in Nat /\ outbox[e].val \in Nat
  BY <1>1, RowsTyped
<1>6. Unsynced' \subseteq Unsynced
  <2>1. \A e \in DOMAIN outbox : e \notin Unsynced => outbox'[e] = outbox[e]
    BY <1>1, CompactKeyWrites
  <2>2. QED
    BY <1>3, <2>1 DEF Unsynced
<1>7. Rested'
  BY <1>1, <1>2, <1>3 DEF Ordered, Rested
<1>8. SentInOrder'
  BY <1>1, <1>2 DEF Ordered, SentInOrder, GroupsInOrder, TodoInOrder, Posted, OpenIds, QueueIds, TodoIds
<1>9. Undecided' \subseteq Undecided /\ Free' \subseteq Free
  BY <1>2, <1>6 DEF Undecided, Decided, Free
<1>10. Below(reserved, Free)' /\ ReservedInHand' /\ LogInOrder'
  <2>1. InHand' = InHand
    BY <1>2 DEF InHand, OpenIds, QueueIds, TodoIds
  <2>2. QED
    BY <1>1, <1>2, <1>9, <2>1 DEF Ordered, Below, ReservedInHand, LogInOrder
<1>11. ValsInOrder'
  <2>1. CASE \A e \in DOMAIN outbox' : outbox'[e].val = outbox[e].val
    BY <1>1, <1>2, <1>3, <2>1 DEF Ordered, ValsInOrder
  <2>2. ASSUME NEW place \in OpenTail(k), NEW top \in OpenTail(k),
               \A f \in OpenTail(k) : f <= top,
               place \in DOMAIN outbox', outbox'[place].val = outbox[top].val,
               \A e \in DOMAIN outbox' : e # place =>
                 e \notin OpenTail(k) /\ outbox'[e].val = outbox[e].val
        PROVE  ValsInOrder'
    <3>1. top \in DOMAIN outbox /\ place \in DOMAIN outbox /\ outbox[top].key = k /\ outbox[place].key = k
      BY <1>1, OpenLifeIs DEF OpenTail, RowsOf
    <3>2. ASSUME NEW e \in DOMAIN outbox' PROVE outbox'[e].val < nextId'
      BY <1>1, <1>2, <1>3, <2>2, <3>1, <3>2 DEF Ordered, ValsInOrder
    <3>3. ASSUME NEW e \in DOMAIN outbox', NEW f \in DOMAIN outbox',
                 outbox'[e].key = outbox'[f].key, e < f
          PROVE  outbox'[e].val < outbox'[f].val
      <4>1. /\ e \in DOMAIN outbox /\ f \in DOMAIN outbox /\ outbox[e].key = outbox[f].key
            /\ e \in Nat /\ f \in Nat
        BY <1>3, <1>5, <3>3
      <4>2. CASE e = place
        <5>1. f # place /\ f \in RowsOf(k) \ OpenTail(k)
          BY <2>2, <3>1, <3>3, <4>1, <4>2 DEF RowsOf
        <5>2. f < e
          BY <1>1, <4>2, <5>1, OpenTailIsTop
        <5>3. QED
          BY <3>3, <4>1, <5>2
      <4>3. CASE f = place
        <5>1. e # place /\ e \in RowsOf(k) \ OpenTail(k) /\ outbox'[e].val = outbox[e].val
          BY <2>2, <3>1, <3>3, <4>1, <4>3 DEF RowsOf
        <5>2. e < top
          BY <1>1, <5>1, OpenTailIsTop
        <5>3. outbox[e].val < outbox[top].val
          BY <1>1, <3>1, <4>1, <4>3, <5>2 DEF Ordered, ValsInOrder
        <5>4. QED
          BY <2>2, <4>3, <5>1, <5>3
      <4>4. CASE e # place /\ f # place
        BY <1>1, <2>2, <3>3, <4>1, <4>4 DEF Ordered, ValsInOrder
      <4>5. QED
        BY <4>2, <4>3, <4>4
    <3>4. QED
      BY <3>2, <3>3 DEF ValsInOrder
  <2>3. QED
    BY <1>4, <2>1, <2>2
<1>12. LastEdit'
  <2> SUFFICES ASSUME DOMAIN deadletter' = {}, NEW j \in Keys
               PROVE  IF local'[j].live
                      THEN \E e \in NewestOf(j)' : outbox'[e].type # "delete"
                                                   /\ outbox'[e].val = local'[j].val
                      ELSE \A e \in NewestOf(j)' : outbox'[e].type = "delete"
    BY DEF LastEdit
  <2>1. /\ RowsOf(j)' = {e \in DOMAIN outbox' : outbox'[e].key = j}
        /\ NewestOf(j)' = {e \in RowsOf(j)' : \A f \in RowsOf(j)' : f <= e}
    BY DEF RowsOf, NewestOf
  <2>2. RowsOf(j)' \subseteq RowsOf(j)
    BY <1>3, <2>1 DEF RowsOf
  <2>3. IF local[j].live
        THEN \E e \in NewestOf(j) : outbox[e].type # "delete" /\ outbox[e].val = local[j].val
        ELSE \A e \in NewestOf(j) : outbox[e].type = "delete"
    BY <1>1, <1>2 DEF LastEdit
  <2>4. CASE j # k
    <3>1. RowsOf(j) \subseteq RowsOf(j)' /\ \A e \in RowsOf(j) : outbox'[e] = outbox[e]
      BY <1>3, <2>1, <2>4 DEF RowsOf
    <3>2. RowsOf(j)' = RowsOf(j)
      BY <2>2, <3>1
    <3>3. NewestOf(j)' = NewestOf(j) /\ \A e \in NewestOf(j) : outbox'[e] = outbox[e]
      BY <2>1, <3>1, <3>2 DEF NewestOf
    <3>4. QED
      BY <1>2, <2>3, <3>3
  <2>5. CASE j = k /\ local[k].live
    <3>1. PICK e \in NewestOf(k) : outbox[e].type # "delete" /\ outbox[e].val = local[k].val
      BY <2>3, <2>5
    <3>2. ~IsDelete(e) /\ e \in RowsOf(k) /\ (\A f \in RowsOf(k) : f <= e) /\ e \in Nat
      BY <1>5, <3>1 DEF IsDelete, NewestOf, RowsOf
    <3>3. e \in OpenLife(k) /\ (\A c \in OpenTail(k) : e \in OpenTail(k))
      BY <1>1, <3>2, NewestIsOpen
    <3>4. e \in DOMAIN AfterClosed(k) /\ AfterClosed(k)[e] = outbox[e]
      <4>1. \A life \in ClosedLives(k) : e \notin life
        BY <1>1, <3>3, OpenLifeIs
      <4>2. QED
        BY <1>1, <3>2, <4>1, AfterClosedIs DEF RowsOf
    <3>5. CASE outbox' = AfterClosed(k)
      <4>1. e \in RowsOf(k)' /\ outbox'[e] = outbox[e]
        BY <2>1, <2>5, <3>2, <3>4, <3>5 DEF RowsOf
      <4>2. e \in NewestOf(k)'
        BY <2>1, <2>2, <2>5, <3>2, <4>1
      <4>3. QED
        BY <1>2, <2>5, <3>1, <4>1, <4>2
    <3>6. CASE \E place \in OpenTail(k) : \E top \in OpenTail(k) :
                 /\ \A f \in OpenTail(k) : f <= top
                 /\ DOMAIN outbox' = (DOMAIN AfterClosed(k) \ OpenTail(k)) \cup {place}
                 /\ \A x \in DOMAIN AfterClosed(k) \ OpenTail(k) : outbox'[x] = AfterClosed(k)[x]
                 /\ outbox'[place].key = k /\ outbox'[place].val = outbox[top].val
                 /\ outbox'[place].wait = 0 /\ outbox'[place].type # "delete"
      <4>1. PICK place \in OpenTail(k) : \E top \in OpenTail(k) :
                 /\ \A f \in OpenTail(k) : f <= top
                 /\ DOMAIN outbox' = (DOMAIN AfterClosed(k) \ OpenTail(k)) \cup {place}
                 /\ outbox'[place].key = k /\ outbox'[place].val = outbox[top].val
                 /\ outbox'[place].type # "delete"
        BY <3>6
      <4>2. PICK top \in OpenTail(k) :
                 /\ \A f \in OpenTail(k) : f <= top
                 /\ DOMAIN outbox' = (DOMAIN AfterClosed(k) \ OpenTail(k)) \cup {place}
                 /\ outbox'[place].key = k /\ outbox'[place].val = outbox[top].val
                 /\ outbox'[place].type # "delete"
        BY <4>1
      <4>3. e \in OpenTail(k) /\ top \in RowsOf(k) /\ place \in RowsOf(k)
        BY <3>3 DEF OpenTail, OpenLife
      <4>4. top = e
        <5>1. top <= e /\ e <= top /\ top \in Nat
          BY <1>5, <3>2, <4>2, <4>3 DEF RowsOf
        <5>2. QED
          BY <3>2, <5>1
      <4>5. place \in RowsOf(k)' /\ place \in Nat
        BY <1>5, <2>1, <2>5, <4>2, <4>3 DEF RowsOf
      <4>6. ASSUME NEW f \in RowsOf(k)' PROVE f <= place
        <5>1. f = place \/ f \in RowsOf(k) \ OpenTail(k)
          BY <2>1, <2>2, <2>5, <4>2, <4>6
        <5>2. f = place \/ f < place
          BY <1>1, <5>1, OpenTailIsTop
        <5>3. f \in Nat
          BY <1>5, <2>2, <2>5, <4>6 DEF RowsOf
        <5>4. QED
          BY <4>5, <5>2, <5>3
      <4>7. place \in NewestOf(k)'
        BY <2>1, <2>5, <4>5, <4>6
      <4>8. QED
        BY <1>2, <2>5, <3>1, <4>2, <4>4, <4>7
    <3>7. QED
      BY <1>1, <3>5, <3>6, CompactedIs DEF CompactKey
  <2>6. CASE j = k /\ ~local[k].live
    <3>1. OpenLife(k) = {}
      BY <1>1, <2>3, <2>6, NothingOpen DEF IsDelete
    <3>2. OpenTail(k) = {}
      BY <3>1 DEF OpenTail
    <3>3. outbox' = AfterClosed(k)
      BY <1>1, <3>2, CompactedIs DEF CompactKey
    <3>4. ASSUME NEW e \in NewestOf(k)' PROVE outbox'[e].type = "delete"
      <4>1. e \in RowsOf(k)' /\ e \in RowsOf(k) /\ e \in Nat
        BY <1>5, <2>1, <2>2, <2>6, <3>4 DEF RowsOf
      <4>2. PICK life \in ClosedLives(k) : e \in life
        BY <3>1, <4>1 DEF OpenLife
      <4>3. PICK d \in life \cap DOMAIN AfterClosed(k) : AfterClosed(k)[d].type = "delete" /\ e <= d
        BY <1>1, <2>1, <2>6, <3>3, <4>1, <4>2, AfterClosedIs
      <4>4. d \in RowsOf(k) /\ d \in Nat
        BY <1>5, LifeOf DEF RowsOf
      <4>5. d \in RowsOf(k)'
        BY <1>3, <2>1, <2>6, <3>3, <4>3, <4>4 DEF RowsOf
      <4>6. d = e
        BY <2>1, <2>6, <3>4, <4>1, <4>3, <4>4, <4>5
      <4>7. QED
        BY <3>3, <4>3, <4>6
    <3>5. QED
      BY <1>2, <2>6, <3>4
  <2>7. QED
    BY <2>4, <2>5, <2>6
<1>13. QED
  BY <1>7, <1>8, <1>10, <1>11, <1>12 DEF Ordered


-----------------------------------------------------------------------------
(* Groups in hand are apart as runs of ids.                                *)

(* There are finitely many events on their way.                            *)
LEMMA FlightIsFinite ==
  ASSUME DeliveryInv
  PROVE  IsFiniteSet(InFlight)
<1> DEFINE S == Eids(InFlight)
           f == [e \in S |-> Body(e)]
<1>1. Inv /\ InFlightStable /\ S \subseteq reserved /\ reserved \subseteq Ids
  BY FlightIsHeld DEF DeliveryInv, Inv, TypeOK
<1>2. IsFiniteSet(S)
  BY <1>1, IdsFinite
<1>3. f \in Surjection(S, InFlight)
  <2>1. \A e \in S : f[e] \in InFlight
    BY <1>1 DEF Eids, InFlightStable
  <2>2. \A b \in InFlight : b.eid \in S /\ f[b.eid] = b
    BY <1>1 DEF Eids, InFlightStable
  <2>3. QED
    BY <2>1, <2>2 DEF Surjection
<1>4. QED
  BY <1>2, <1>3, FS_Surjection

(* Each of them has a first event, and the first events are in the order   *)
(* of the groups.                                                          *)
LEMMA GroupFirst ==
  ASSUME DeliveryInv, NEW g \in push.queue \cup Posted
  PROVE  /\ g # {} /\ First(g) \in g /\ First(g).seq \in Nat /\ First(g).seq \in Eids(g)
         /\ g \subseteq InFlight /\ Eids(g) \subseteq reserved
<1>1. g # {} /\ g \subseteq InFlight /\ Inv
  BY DEF DeliveryInv, Inv, WholeGroups, InFlight, Events
<1>2. \A b \in g : b.seq = b.eid /\ b.eid \in Nat
  BY <1>1, InHandIs
<1> DEFINE T == {b.seq : b \in g}
<1>3. T \subseteq Nat /\ T # {}
  BY <1>1, <1>2
<1>4. PICK x \in T : \A y \in T : x <= y
  BY <1>3, MinExists
<1>5. PICK b \in g : x = b.seq
  OBVIOUS
<1>6. \A c \in g : b.seq <= c.seq
  BY <1>4, <1>5
<1>7. First(g) \in g
  BY <1>6 DEF First
<1>8. Eids(g) \subseteq reserved
  BY <1>1, FlightIsHeld DEF Eids
<1>9. QED
  BY <1>1, <1>2, <1>7, <1>8 DEF Eids

LEMMA FirstOrder ==
  ASSUME DeliveryInv, GroupsInOrder, NEW g \in push.queue \cup Posted,
         NEW h \in push.queue \cup Posted, First(g).seq <= First(h).seq
  PROVE  g = h \/ Below(Eids(g), Eids(h))
<1>1. /\ First(g).seq \in Nat /\ First(g).seq \in Eids(g)
      /\ First(h).seq \in Nat /\ First(h).seq \in Eids(h)
  BY GroupFirst
<1>2. ~Below(Eids(h), Eids(g))
  BY <1>1 DEF Below
<1>3. QED
  BY <1>2 DEF GroupsInOrder

(* Cut where no group left out comes before one taken, they are below.     *)
LEMMA CutIsBelow ==
  ASSUME DeliveryInv, GroupsInOrder, NEW groups \in SUBSET (push.queue \cup Posted),
         NEW cut \in SUBSET groups,
         \A g \in groups, h \in cut : First(g).seq <= First(h).seq => g \in cut
  PROVE  Below(Eids(Events(cut)), Eids(Events(groups \ cut)))
<1>1. ASSUME NEW h \in cut, NEW g \in groups \ cut PROVE Below(Eids(h), Eids(g))
  <2>1. First(g).seq \in Nat /\ First(h).seq \in Nat
    BY GroupFirst
  <2>2. First(h).seq <= First(g).seq
    BY <2>1
  <2>3. QED
    BY <2>2, FirstOrder
<1>2. QED
  BY <1>1 DEF Below, Eids, Events

(* The head of the groups comes before the others.                         *)
LEMMA HeadIsBelow ==
  ASSUME DeliveryInv, GroupsInOrder, NEW groups \in SUBSET (push.queue \cup Posted),
         groups # {}
  PROVE  LET g == Head1(groups)
         IN  /\ g \in groups /\ \A h \in groups : First(g).seq <= First(h).seq
             /\ \A h \in groups : First(h).seq <= First(g).seq => h = g
             /\ \A h \in groups \ {g} : Below(Eids(g), Eids(h))
<1> DEFINE g == Head1(groups)
<1>1. /\ groups \in Requests /\ {} \notin groups
  <2>1. Inv /\ PushType(push)
    BY DEF DeliveryInv, Inv, TypeOK
  <2>2. push.queue \in Requests /\ Posted \in Requests
    BY <2>1, PostedType
  <2>3. QED
    BY <2>1, <2>2 DEF Requests, Inv, WholeGroups
<1>2. g \in groups
  BY <1>1, Head1In
<1>3. \A h \in groups : First(g).seq <= First(h).seq
  <2> DEFINE U == {First(h).seq : h \in groups}
  <2>1. U \subseteq Nat /\ U # {}
    BY GroupFirst
  <2>2. PICK x \in U : \A y \in U : x <= y
    BY <2>1, MinExists
  <2>3. PICK l \in groups : x = First(l).seq
    OBVIOUS
  <2>4. \A h \in groups : First(l).seq <= First(h).seq
    BY <2>2, <2>3
  <2>5. QED
    BY <2>4 DEF Head1
<1> HIDE DEF g
<1>4. ASSUME NEW h \in groups, h # g PROVE Below(Eids(g), Eids(h)) /\ ~(First(h).seq <= First(g).seq)
  <2>1. Below(Eids(g), Eids(h))
    BY <1>2, <1>3, <1>4, FirstOrder
  <2>2. /\ First(g).seq \in Nat /\ First(g).seq \in Eids(g)
        /\ First(h).seq \in Nat /\ First(h).seq \in Eids(h)
    BY <1>2, GroupFirst
  <2>3. QED
    BY <2>1, <2>2 DEF Below
<1>5. QED
  BY <1>2, <1>3, <1>4 DEF g

(* Counting the groups, or the events, up to one of them.                  *)
LEMMA UpToGrows ==
  ASSUME DeliveryInv, NEW groups \in SUBSET (push.queue \cup Posted),
         NEW g \in groups, NEW h \in groups, First(g).seq <= First(h).seq
  PROVE  /\ Cardinality(UpTo(groups, g)) \in Nat /\ Cardinality(UpTo(groups, h)) \in Nat
         /\ Cardinality(UpTo(groups, g)) <= Cardinality(UpTo(groups, h))
         /\ Cardinality(Events(UpTo(groups, g))) \in Nat
         /\ Cardinality(Events(UpTo(groups, h))) \in Nat
         /\ Cardinality(Events(UpTo(groups, g))) <= Cardinality(Events(UpTo(groups, h)))
<1> DEFINE G == UpTo(groups, g)
           H == UpTo(groups, h)
<1>1. \A x \in groups : First(x).seq \in Nat /\ x \subseteq InFlight
  BY GroupFirst
<1>2. G \in SUBSET H /\ H \in SUBSET groups
  BY <1>1 DEF UpTo
<1>3. IsFiniteSet(H)
  <2>1. IsFiniteSet(SUBSET InFlight)
    BY FlightIsFinite, FS_SUBSET
  <2>2. H \in SUBSET (SUBSET InFlight)
    BY <1>1, <1>2
  <2>3. QED
    BY <2>1, <2>2, FS_Subset
<1>4. IsFiniteSet(Events(H)) /\ Events(G) \in SUBSET Events(H)
  <2>1. Events(H) \in SUBSET InFlight
    BY <1>1, <1>2 DEF Events
  <2>2. IsFiniteSet(Events(H))
    BY <2>1, FlightIsFinite, FS_Subset
  <2>3. QED
    BY <1>2, <2>2 DEF Events
<1> HIDE DEF G, H
<1>5. IsFiniteSet(G) /\ IsFiniteSet(Events(G))
  BY <1>2, <1>3, <1>4, FS_Subset
<1>6. Cardinality(G) <= Cardinality(H) /\ Cardinality(Events(G)) <= Cardinality(Events(H))
  BY <1>2, <1>3, <1>4, FS_Subset
<1>7. /\ Cardinality(G) \in Nat /\ Cardinality(H) \in Nat
      /\ Cardinality(Events(G)) \in Nat /\ Cardinality(Events(H)) \in Nat
  BY <1>3, <1>4, <1>5, FS_CardinalityType
<1>8. QED
  BY <1>6, <1>7 DEF G, H

(* A batch is a cut of the queue, and a half one of the request.           *)
LEMMA BatchIsBelow ==
  ASSUME DeliveryInv, GroupsInOrder, push.queue # {}
  PROVE  Below(Eids(Events(NextBatch(push.queue))),
               Eids(Events(push.queue \ NextBatch(push.queue))))
<1> DEFINE groups == push.queue
           cut == NextBatch(groups)
<1>1. groups \in SUBSET (push.queue \cup Posted) /\ cut \in SUBSET groups
  BY DEF NextBatch
<1>2. ASSUME NEW g \in groups, NEW h \in cut, First(g).seq <= First(h).seq PROVE g \in cut
  <2>1. CASE h = Head1(groups)
    <3>1. g = h
      BY <1>2, <2>1, HeadIsBelow
    <3>2. QED
      BY <1>2, <3>1
  <2>2. CASE h # Head1(groups)
    <3> DEFINE G == Cardinality(Events(UpTo(groups, g)))
               H == Cardinality(Events(UpTo(groups, h)))
    <3>1. h \in groups /\ H <= BatchSize /\ H <= MaxPushSize
      BY <1>2, <2>2 DEF NextBatch
    <3>2. G \in Nat /\ H \in Nat /\ G <= H
      BY <1>1, <1>2, <3>1, UpToGrows
    <3> HIDE DEF G, H
    <3>3. G <= BatchSize /\ G <= MaxPushSize
      BY <3>1, <3>2, BoundsAssumption
    <3>4. QED
      BY <3>3 DEF NextBatch, G
  <2>3. QED
    BY <2>1, <2>2
<1>3. QED
  BY <1>1, <1>2, CutIsBelow

LEMMA HalfIsBelow ==
  ASSUME DeliveryInv, GroupsInOrder
  PROVE  Below(Eids(Events(FirstHalf(push.sent))),
               Eids(Events(push.sent \ FirstHalf(push.sent))))
<1> DEFINE groups == push.sent
           cut == FirstHalf(groups)
<1>1. groups \in SUBSET (push.queue \cup Posted) /\ cut \in SUBSET groups
  BY DEF FirstHalf, Posted
<1>2. Cardinality(groups) \in Nat
  <2>1. \A x \in groups : x \subseteq InFlight
    BY <1>1, GroupFirst
  <2>2. IsFiniteSet(SUBSET InFlight) /\ groups \in SUBSET (SUBSET InFlight)
    BY <2>1, FlightIsFinite, FS_SUBSET
  <2>3. IsFiniteSet(groups)
    BY <2>2, FS_Subset
  <2>4. QED
    BY <2>3, FS_CardinalityType
<1>3. ASSUME NEW g \in groups, NEW h \in cut, First(g).seq <= First(h).seq PROVE g \in cut
  <2> DEFINE G == Cardinality(UpTo(groups, g))
             H == Cardinality(UpTo(groups, h))
             n == Cardinality(groups)
  <2>1. h \in groups /\ 2 * H <= n + 1
    BY <1>3 DEF FirstHalf
  <2>2. G \in Nat /\ H \in Nat /\ G <= H
    BY <1>1, <1>3, <2>1, UpToGrows
  <2>3. n \in Nat
    BY <1>2
  <2> HIDE DEF G, H, n
  <2>4. 2 * G <= n + 1
    BY <2>1, <2>2, <2>3
  <2>5. QED
    BY <2>4 DEF FirstHalf, G, n
<1>4. QED
  BY <1>1, <1>3, CutIsBelow

-----------------------------------------------------------------------------
(* The steps of a push keep the order.                                     *)

(* What comes and goes without new words keeps the order of the words and, *)
(* unless something is parked, the last edits.                             *)
LEMMA ValsKept ==
  ASSUME OrderInv, nextId' = nextId, DOMAIN outbox' \subseteq DOMAIN outbox,
         \A e \in DOMAIN outbox' : SameEvent(outbox[e], outbox'[e])
  PROVE  ValsInOrder'
<1>1. \A e \in DOMAIN outbox' : /\ e \in DOMAIN outbox /\ outbox'[e].key = outbox[e].key
                                /\ outbox'[e].val = outbox[e].val
  BY DEF SameEvent
<1>2. ValsInOrder
  BY DEF OrderInv, Ordered
<1>3. QED
  BY <1>1, <1>2 DEF ValsInOrder

LEMMA LastEditKept ==
  ASSUME OrderInv, local' = local, DOMAIN deadletter \subseteq DOMAIN deadletter',
         DOMAIN outbox' = DOMAIN outbox \/ DOMAIN deadletter' # {},
         \A e \in DOMAIN outbox' : SameEvent(outbox[e], outbox'[e])
  PROVE  LastEdit'
<1> SUFFICES ASSUME DOMAIN deadletter' = {}, NEW k \in Keys
             PROVE  IF local'[k].live
                    THEN \E e \in NewestOf(k)' : outbox'[e].type # "delete"
                                                 /\ outbox'[e].val = local'[k].val
                    ELSE \A e \in NewestOf(k)' : outbox'[e].type = "delete"
  BY DEF LastEdit
<1>1. DOMAIN deadletter = {} /\ DOMAIN outbox' = DOMAIN outbox
  OBVIOUS
<1>2. \A e \in DOMAIN outbox : /\ outbox'[e].key = outbox[e].key
                               /\ outbox'[e].type = outbox[e].type
                               /\ outbox'[e].val = outbox[e].val
  BY <1>1 DEF SameEvent
<1>3. RowsOf(k)' = RowsOf(k)
  BY <1>1, <1>2 DEF RowsOf
<1>4. NewestOf(k)' = NewestOf(k) /\ NewestOf(k) \subseteq DOMAIN outbox
  BY <1>3 DEF NewestOf, RowsOf
<1>5. IF local[k].live
      THEN \E e \in NewestOf(k) : outbox[e].type # "delete" /\ outbox[e].val = local[k].val
      ELSE \A e \in NewestOf(k) : outbox[e].type = "delete"
  BY <1>1 DEF OrderInv, LastEdit
<1>6. QED
  BY <1>2, <1>4, <1>5

(* The groups of a plan are runs of the ids that are due.                  *)
LEMMA PlannedInOrder ==
  ASSUME Inv, NEW g \in Planned, NEW h \in Planned, g # h
  PROVE  Below(Eids(g), Eids(h)) \/ Below(Eids(h), Eids(g))
<1> DEFINE events == {Body(e) : e \in Due}
<1>1. PartialFunction(outbox, Ids, Row) /\ Due \subseteq DOMAIN outbox
  BY DEF Inv, TypeOK, Due, Unsynced
<1>2. /\ \A b \in events : b.seq = b.eid /\ b.seq \in Nat
      /\ \A b, c \in events : b.eid = c.eid => b = c
  BY <1>1, RowsTyped DEF Body
<1>3. Eids(g) \cap Eids(h) = {}
  BY <1>1, GroupsDisjoint DEF Planned
<1>4. PICK x \in events, y \in events : /\ g = {c \in events : SameRun(events, x, c)}
                                        /\ h = {c \in events : SameRun(events, y, c)}
  BY DEF Planned, Groups
<1> HIDE DEF events
<1>5. \A b \in g, c \in h : b.seq # c.seq
  BY <1>2, <1>3, <1>4 DEF Eids
<1>6. ASSUME NEW z \in events, NEW b \in events, SameRun(events, z, b),
             NEW c \in events, ~SameRun(events, z, c)
      PROVE  \/ c.seq < z.seq /\ c.seq < b.seq
             \/ c.seq > z.seq /\ c.seq > b.seq
  <2>1. c.tx # z.tx \/ \E d \in events : /\ ~(d.seq < z.seq /\ d.seq < c.seq)
                                         /\ ~(d.seq > z.seq /\ d.seq > c.seq)
                                         /\ d.tx # z.tx
    BY <1>6 DEF SameRun
  <2>2. CASE c.tx # z.tx
    BY <1>6, <2>2 DEF SameRun
  <2>3. CASE c.tx = z.tx
    <3>1. PICK d \in events : /\ ~(d.seq < z.seq /\ d.seq < c.seq)
                              /\ ~(d.seq > z.seq /\ d.seq > c.seq)
                              /\ d.tx # z.tx
      BY <2>1, <2>3
    <3>2. (d.seq < z.seq /\ d.seq < b.seq) \/ (d.seq > z.seq /\ d.seq > b.seq)
      BY <1>6, <3>1 DEF SameRun
    <3>3. /\ d.seq \in Nat /\ z.seq \in Nat /\ b.seq \in Nat /\ c.seq \in Nat
      BY <1>2
    <3>4. QED
      BY <3>1, <3>2, <3>3
  <2>4. QED
    BY <2>2, <2>3
<1>7. /\ \A b \in g : \A c \in h : (c.seq < x.seq /\ c.seq < b.seq) \/ (c.seq > x.seq /\ c.seq > b.seq)
      /\ \A b \in h : \A c \in g : (c.seq < y.seq /\ c.seq < b.seq) \/ (c.seq > y.seq /\ c.seq > b.seq)
  <2>1. /\ \A c \in h : c \in events /\ c \notin g
        /\ \A c \in g : c \in events /\ c \notin h
    BY <1>4, <1>5, <1>2
  <2>2. QED
    BY <1>4, <1>6, <2>1
<1>8. /\ \A b \in g : b \in events /\ b.seq \in Nat /\ b.eid = b.seq
      /\ \A b \in h : b \in events /\ b.seq \in Nat /\ b.eid = b.seq
      /\ x.seq \in Nat /\ y.seq \in Nat
  BY <1>2, <1>4
<1>9. x \in g /\ y \in h
  BY <1>2, <1>4 DEF SameRun
<1>10. CASE x.seq < y.seq
  <2>1. \A b \in g : b.seq < y.seq
    BY <1>7, <1>8, <1>9, <1>10
  <2>2. \A b \in g, c \in h : b.seq < c.seq
    BY <1>7, <1>8, <1>9, <1>10, <2>1
  <2>3. QED
    BY <1>8, <2>2 DEF Below, Eids
<1>11. CASE ~(x.seq < y.seq)
  <2>1. \A b \in h : b.seq < x.seq
    BY <1>5, <1>7, <1>8, <1>9, <1>11
  <2>2. \A b \in g, c \in h : c.seq < b.seq
    BY <1>7, <1>8, <1>9, <1>11, <2>1
  <2>3. QED
    BY <1>8, <2>2 DEF Below, Eids
<1>12. QED
  BY <1>10, <1>11

(* Every event that is due is in a group of the plan.                      *)
LEMMA PlannedIsAll ==
  ASSUME Inv
  PROVE  Eids(Events(Planned)) = Due
<1> DEFINE events == {Body(e) : e \in Due}
<1>1. PartialFunction(outbox, Ids, Row) /\ Due \subseteq DOMAIN outbox
  BY DEF Inv, TypeOK, Due, Unsynced
<1>2. /\ \A b \in events : b.seq = b.eid /\ b.seq \in Nat
      /\ \A b, c \in events : b.eid = c.eid => b = c
  BY <1>1, RowsTyped DEF Body
<1> HIDE DEF events
<1>3. ASSUME NEW b \in events PROVE \E g \in Groups(events) : b \in g
  <2>1. b \in {c \in events : SameRun(events, b, c)}
    BY <1>2 DEF SameRun
  <2>2. QED
    BY <2>1 DEF Groups
<1>4. ASSUME NEW e \in Due PROVE e \in Eids(Events(Planned))
  <2>1. Body(e) \in events /\ Body(e).eid = e
    BY DEF events, Body
  <2>2. PICK g \in Planned : Body(e) \in g
    BY <1>3, <2>1 DEF Planned, events
  <2>3. QED
    BY <2>1, <2>2 DEF Eids, Events
<1>5. Eids(Events(Planned)) \subseteq Due
  BY PlannedIsDue
<1>6. QED
  BY <1>4, <1>5

(* A push that rests or has only queued groups is in order if they are.    *)
LEMMA QueueInOrder ==
  ASSUME push'.todo = <<>>,
         \A g, h \in push'.queue \cup Posted' :
           g # h => Below(Eids(g), Eids(h)) \/ Below(Eids(h), Eids(g)),
         Below(Eids(Events(push'.open)), Eids(Events(push'.queue)))
  PROVE  SentInOrder'
<1>1. DOMAIN push'.todo = {}
  OBVIOUS
<1>2. TodoInOrder'
  BY <1>1 DEF TodoInOrder
<1>3. GroupsInOrder' /\ Below(OpenIds, QueueIds)'
  BY DEF GroupsInOrder, OpenIds, QueueIds
<1>4. QED
  BY <1>2, <1>3 DEF SentInOrder

(* The plan.                                                               *)
LEMMA PlanKeepsOrder ==
  ASSUME OrderInv, PlanPush
  PROVE  Ordered' /\ LastEdit'
<1>1. /\ DeliveryInv /\ Inv /\ Ordered /\ AnswerInv /\ PartialFunction(outbox, Ids, Row)
  BY DEF OrderInv, AnswerInv, DeadInv, DeliveryInv, Inv, TypeOK
<1>2. /\ push.phase = "idle" /\ log' = log /\ deadletter' = deadletter /\ local' = local
      /\ nextId' = nextId /\ outbox' = Marked(ToMark)
  BY DEF PlanPush
<1>3. /\ DOMAIN outbox' = DOMAIN outbox /\ Unsynced' = Unsynced
      /\ \A e \in DOMAIN outbox : SameEvent(outbox[e], outbox'[e])
      /\ reserved' = Due
  BY <1>1, PlanPushWrites
<1>4. Due = Unsynced
  BY <1>1 DEF Ordered, Rested, Due, Unsynced
<1>5. /\ push'.phase = "planned" /\ push'.queue = Planned \ Oversized(Planned)
      /\ push'.oversized = Eids(Events(Oversized(Planned)))
      /\ push'.todo = <<>> /\ push'.sent = {} /\ push'.open = {}
      /\ DOMAIN push'.answer = {} /\ DOMAIN push'.acc = {} /\ Posted' = {}
  BY PlanIs
<1>6. DOMAIN push.answer = {} /\ DOMAIN push.acc = {}
  BY <1>1, <1>2 DEF AnswerInv, Answered, PhasesRest
<1>7. Rested'
  <2>1. ASSUME NEW e \in DOMAIN outbox' PROVE outbox'[e].wait = 0
    <3>1. outbox[e] \in Row /\ outbox[e].wait = 0
      BY <1>1, <1>3, <2>1 DEF PartialFunction, Ordered, Rested
    <3>2. QED
      BY <1>2, <1>3, <2>1, <3>1 DEF Marked, Row
  <2>2. QED
    BY <1>5, <2>1 DEF Rested
<1>8. SentInOrder'
  <2>1. \A g, h \in push'.queue \cup Posted' : g # h => Below(Eids(g), Eids(h)) \/ Below(Eids(h), Eids(g))
    BY <1>1, <1>5, PlannedInOrder
  <2>2. Below(Eids(Events(push'.open)), Eids(Events(push'.queue)))
    BY <1>5 DEF Below, Eids, Events
  <2>3. QED
    BY <1>5, <2>1, <2>2, QueueInOrder
<1>9. Below(reserved, Free)'
  <2>1. Free' = {}
    BY <1>3, <1>4 DEF Free
  <2>2. QED
    BY <2>1 DEF Below
<1>10. ReservedInHand'
  <2>1. QueueIds' = Eids(Events(Planned \ Oversized(Planned)))
    BY <1>5 DEF QueueIds
  <2>2. Eids(Events(Planned)) \subseteq Eids(Events(Planned \ Oversized(Planned)))
                                          \cup Eids(Events(Oversized(Planned)))
    BY DEF Eids, Events
  <2>3. Due \subseteq InHand'
    BY <1>1, <1>5, <2>1, <2>2, PlannedIsAll DEF InHand
  <2>4. QED
    BY <1>3, <2>3 DEF ReservedInHand
<1>11. LogInOrder'
  <2>1. Undecided' = Undecided
    BY <1>3, <1>5, <1>6 DEF Undecided, Decided
  <2>2. QED
    BY <1>1, <1>2, <2>1 DEF Ordered, LogInOrder
<1>12. ValsInOrder' /\ LastEdit'
  <2>1. DOMAIN deadletter \subseteq DOMAIN deadletter' /\ DOMAIN outbox' \subseteq DOMAIN outbox
    BY <1>2, <1>3
  <2>2. \A e \in DOMAIN outbox' : SameEvent(outbox[e], outbox'[e])
    BY <1>3
  <2>3. QED
    BY <1>2, <1>3, <2>1, <2>2, ValsKept, LastEditKept
<1>13. QED
  BY <1>7, <1>8, <1>9, <1>10, <1>11, <1>12 DEF Ordered

(* The next batch is posted, or the push ends: what was decided is gone    *)
(* from the queue, and the groups left are in order.                       *)
LEMMA PostingKeepsOrder ==
  ASSUME OrderInv, push' = Posting(push), push.todo = <<>>, OpenIds = {},
         DOMAIN push.answer = {}, reserved' = reserved, log' = log, nextId' = nextId,
         Unsynced' = (Unsynced \ DOMAIN push.acc) \ push.oversized,
         DOMAIN outbox' \subseteq DOMAIN outbox,
         \A e \in DOMAIN outbox' : SameEvent(outbox[e], outbox'[e]) /\ outbox'[e].wait = 0
  PROVE  Ordered'
<1>1. /\ DeliveryInv /\ Inv /\ Ordered /\ AnswerInv /\ GroupsInOrder
  BY DEF OrderInv, AnswerInv, DeadInv, DeliveryInv, Ordered, SentInOrder
<1>2. /\ push'.oversized = {} /\ push'.todo = <<>>
      /\ push'.open = push'.sent /\ Posted' = push'.sent
      /\ DOMAIN push'.answer = {} /\ DOMAIN push'.acc = {}
      /\ \/ push.queue = {} /\ push'.phase = "release" /\ push'.queue = {} /\ push'.sent = {}
         \/ /\ push.queue # {} /\ push'.phase = "waiting"
            /\ push'.sent = NextBatch(push.queue) /\ push'.sent \subseteq push.queue
            /\ push'.queue = push.queue \ NextBatch(push.queue)
  BY PostingIs
<1>3. Undecided' \subseteq Undecided /\ Free' \subseteq Free
  BY <1>2 DEF Undecided, Decided, Free
<1>4. Rested'
  BY <1>2 DEF Rested
<1>5. SentInOrder'
  <2>1. \A g, h \in push'.queue \cup Posted' : g # h => Below(Eids(g), Eids(h)) \/ Below(Eids(h), Eids(g))
    <3>1. push'.queue \cup Posted' \subseteq push.queue
      BY <1>2
    <3>2. QED
      BY <1>1, <3>1 DEF GroupsInOrder
  <2>2. Below(Eids(Events(push'.open)), Eids(Events(push'.queue)))
    <3>1. CASE push.queue = {} /\ push'.sent = {}
      BY <1>2, <3>1 DEF Below, Eids, Events
    <3>2. CASE push.queue # {}
      BY <1>1, <1>2, <3>2, BatchIsBelow
    <3>3. QED
      BY <1>2, <3>1, <3>2
  <2>3. QED
    BY <1>2, <2>1, <2>2, QueueInOrder
<1>6. Below(reserved, Free)'
  BY <1>1, <1>3 DEF Ordered, Below
<1>7. ReservedInHand'
  <2>1. ASSUME NEW e \in reserved' \cap Undecided' PROVE e \in InHand'
    <3>1. e \in InHand /\ e \notin push.oversized
      BY <1>1, <1>3, <2>1 DEF Ordered, ReservedInHand, Undecided
    <3>2. DOMAIN push.todo = {}
      OBVIOUS
    <3>3. e \in QueueIds
      BY <3>1, <3>2 DEF InHand
    <3>4. QueueIds \subseteq QueueIds' \cup OpenIds'
      <4>1. push.queue \subseteq push'.queue \cup push'.open
        BY <1>2
      <4>2. QED
        BY <4>1 DEF QueueIds, OpenIds, Eids, Events
    <3>5. QED
      BY <3>3, <3>4 DEF InHand
  <2>2. QED
    BY <2>1 DEF ReservedInHand
<1>8. LogInOrder'
  BY <1>1, <1>3 DEF Ordered, LogInOrder, Below
<1>9. ValsInOrder'
  BY ValsKept
<1>10. QED
  BY <1>4, <1>5, <1>6, <1>7, <1>8, <1>9 DEF Ordered

LEMMA ParkOversizedKeepsOrder ==
  ASSUME OrderInv, ParkOversized
  PROVE  Ordered' /\ LastEdit'
<1>1. /\ DeliveryInv /\ Inv /\ Ordered /\ AnswerInv
  BY DEF OrderInv, AnswerInv, DeadInv, DeliveryInv
<1>2. /\ push.phase = "planned" /\ log' = log /\ local' = local /\ nextId' = nextId
      /\ reserved' = reserved /\ push' = Posting(push)
  BY DEF ParkOversized
<1>3. /\ push.oversized \subseteq Unsynced
      /\ DOMAIN outbox' = DOMAIN outbox \ push.oversized
      /\ \A e \in DOMAIN outbox' : outbox'[e] = outbox[e]
      /\ deadletter' = Parked(push.oversized)
  BY <1>1, ParkOversizedWrites
<1>4. /\ push.todo = <<>> /\ push.open = {} /\ DOMAIN push.answer = {} /\ DOMAIN push.acc = {}
  BY <1>1, <1>2 DEF AnswerInv, Answered, PhasesRest, Inv, AnswersSent
<1>5. Unsynced' = (Unsynced \ DOMAIN push.acc) \ push.oversized
  BY <1>3, <1>4 DEF Unsynced
<1>6. \A e \in DOMAIN outbox' : SameEvent(outbox[e], outbox'[e]) /\ outbox'[e].wait = 0
  BY <1>1, <1>3 DEF SameEvent, Ordered, Rested
<1>7. OpenIds = {}
  BY <1>4 DEF OpenIds, Eids, Events
<1>8. Ordered'
  BY <1>2, <1>3, <1>4, <1>5, <1>6, <1>7, PostingKeepsOrder
<1>9. LastEdit'
  <2>1. DOMAIN deadletter' = DOMAIN deadletter \cup push.oversized
    BY <1>3 DEF Parked
  <2>2. DOMAIN outbox' = DOMAIN outbox \/ DOMAIN deadletter' # {}
    BY <1>3, <2>1
  <2>3. QED
    BY <1>2, <1>6, <2>1, <2>2, LastEditKept
<1>10. QED
  BY <1>8, <1>9

LEMMA ApplyKeepsOrder ==
  ASSUME OrderInv, ApplyBatch
  PROVE  Ordered' /\ LastEdit'
<1> DEFINE P == DOMAIN push.acc
           yes == {e \in P : push.acc[e] = "confirmed"}
<1>1. /\ DeliveryInv /\ Inv /\ Ordered /\ AnswerInv /\ PushType(push)
      /\ PartialFunction(outbox, Ids, Row)
  BY DEF OrderInv, AnswerInv, DeadInv, DeliveryInv, Inv, TypeOK
<1>2. /\ push.phase = "apply" /\ log' = log /\ local' = local /\ nextId' = nextId
      /\ reserved' = reserved
      /\ push' = IF TransportFailed THEN Resting("release") ELSE Posting(push)
  BY DEF ApplyBatch
<1>3. /\ P \subseteq Unsynced \cap reserved
      /\ Gone(P) \subseteq P \ yes
      /\ Unsynced' = (Unsynced \ yes) \ Gone(P)
      /\ DOMAIN outbox' = DOMAIN outbox \ Gone(P)
      /\ \A e \in DOMAIN outbox' : SameEvent(outbox[e], outbox'[e])
      /\ \A e \in DOMAIN outbox' : outbox'[e] = IF e \in P THEN AppliedRow(e) ELSE outbox[e]
      /\ deadletter' = Parked(Gone(P))
  BY <1>1, ApplyBatchWrites
<1>4. \A e \in P : push.acc[e] \in Outcomes \ {"retry", "unsent"}
  BY <1>1, PostedType DEF PartialFunction, Ordered, Rested
<1>5. push' = Posting(push)
  BY <1>2, <1>4 DEF TransportFailed
<1>6. Gone(P) = P \ yes
  BY <1>3, <1>4 DEF Gone, Outcomes
<1>7. /\ push.todo = <<>> /\ push.open = {} /\ DOMAIN push.answer = {} /\ push.oversized = {}
  BY <1>1, <1>2 DEF AnswerInv, Answered, PhasesRest, Inv, AnswersSent, Ordered, Rested
<1>8. Unsynced' = (Unsynced \ DOMAIN push.acc) \ push.oversized
  BY <1>3, <1>6, <1>7
<1>9. \A e \in DOMAIN outbox' : SameEvent(outbox[e], outbox'[e]) /\ outbox'[e].wait = 0
  <2>1. ASSUME NEW e \in DOMAIN outbox' PROVE outbox'[e].wait = 0
    <3>1. e \in DOMAIN outbox /\ outbox[e] \in Row /\ outbox[e].wait = 0
      BY <1>1, <1>3, <2>1 DEF PartialFunction, Ordered, Rested
    <3>2. CASE e \in P
      <4>1. push.acc[e] = "confirmed"
        BY <1>3, <1>6, <2>1, <3>2
      <4>2. outbox'[e] = [outbox[e] EXCEPT !.status = "synced", !.wait = 0]
        BY <1>3, <2>1, <3>2, <4>1 DEF AppliedRow
      <4>3. QED
        BY <3>1, <4>2 DEF Row
    <3>3. CASE e \notin P
      BY <1>3, <2>1, <3>1, <3>3
    <3>4. QED
      BY <3>2, <3>3
  <2>2. QED
    BY <1>3, <2>1
<1>10. OpenIds = {}
  BY <1>7 DEF OpenIds, Eids, Events
<1>11. Ordered'
  BY <1>2, <1>3, <1>5, <1>7, <1>8, <1>9, <1>10, PostingKeepsOrder
<1>12. LastEdit'
  <2>1. DOMAIN deadletter' = DOMAIN deadletter \cup Gone(P)
    BY <1>3 DEF Parked
  <2> HIDE DEF P
  <2>2. DOMAIN outbox' = DOMAIN outbox \/ DOMAIN deadletter' # {}
    BY <1>3, <2>1
  <2>3. QED
    BY <1>2, <1>9, <2>1, <2>2, LastEditKept
<1>13. QED
  BY <1>11, <1>12

LEMMA ReleaseKeepsOrder ==
  ASSUME OrderInv, ReleaseReserved
  PROVE  Ordered' /\ LastEdit'
<1>1. /\ Ordered /\ AnswerInv /\ push.phase = "release"
      /\ log' = log /\ local' = local /\ nextId' = nextId /\ outbox' = outbox
      /\ deadletter' = deadletter /\ reserved' = {} /\ push' = Resting("idle")
  BY DEF OrderInv, ReleaseReserved, IdlePush
<1>2. /\ push'.phase = "idle" /\ push'.queue = {} /\ push'.oversized = {}
      /\ push'.todo = <<>> /\ push'.sent = {} /\ push'.open = {}
      /\ DOMAIN push'.answer = {} /\ DOMAIN push'.acc = {} /\ Posted' = {}
  BY <1>1, RestingIs
<1>3. DOMAIN push.answer = {} /\ DOMAIN push.acc = {}
  BY <1>1 DEF AnswerInv, Answered, PhasesRest
<1>4. Unsynced' = Unsynced /\ Undecided' = Undecided
  BY <1>1, <1>2, <1>3 DEF Unsynced, Undecided, Decided
<1>5. Rested' /\ Below(reserved, Free)' /\ ReservedInHand'
  BY <1>1, <1>2 DEF Ordered, Rested, Below, ReservedInHand
<1>6. SentInOrder'
  <2>1. Below(Eids(Events(push'.open)), Eids(Events(push'.queue)))
    BY <1>2 DEF Below, Eids, Events
  <2>2. QED
    BY <1>2, <2>1, QueueInOrder
<1>7. LogInOrder'
  BY <1>1, <1>4 DEF Ordered, LogInOrder
<1>8. \A e \in DOMAIN outbox' : SameEvent(outbox[e], outbox'[e])
  BY <1>1 DEF SameEvent
<1>9. ValsInOrder' /\ LastEdit'
  BY <1>1, <1>8, ValsKept, LastEditKept
<1>10. QED
  BY <1>5, <1>6, <1>7, <1>9 DEF Ordered

-----------------------------------------------------------------------------
(* The server appends a group behind what it has.                          *)

(* The ids of a group, counted from below, number its events.              *)
LEMMA AppendedPlaces ==
  ASSUME Inv, NEW g, g \subseteq InFlight, IsFiniteSet(Eids(g)),
         \A b \in g : b.seq = b.eid /\ b.eid \in Nat,
         Eids(g) \cap DOMAIN log = {}, log' = Appended(g)
  PROVE  /\ DOMAIN log' = DOMAIN log \cup Eids(g)
         /\ Cardinality(DOMAIN log') = Cardinality(DOMAIN log) + Cardinality(Eids(g))
         /\ Cardinality(DOMAIN log) \in Nat /\ Cardinality(Eids(g)) \in Nat
         /\ \A e \in DOMAIN log : log'[e] = log[e]
         /\ \A e \in Eids(g) :
              /\ log'[e].pos = Cardinality(DOMAIN log) + Cardinality({x \in Eids(g) : x <= e})
              /\ Cardinality({x \in Eids(g) : x <= e}) \in Nat
              /\ Cardinality({x \in Eids(g) : x <= e}) > 0
              /\ Cardinality({x \in Eids(g) : x <= e}) <= Cardinality(Eids(g))
              /\ \A f \in Eids(g) : e < f =>
                   Cardinality({x \in Eids(g) : x <= e}) < Cardinality({x \in Eids(g) : x <= f})
<1> DEFINE S == Eids(g)
           upTo(e) == {x \in S : x <= e}
<1>1. DOMAIN log' = DOMAIN log \cup S /\ \A e \in DOMAIN log : log'[e] = log[e]
  BY DEF Appended
<1>2. S \subseteq Nat
  BY DEF Eids
<1>3. IsFiniteSet(DOMAIN log) /\ Cardinality(DOMAIN log) \in Nat
  BY IdsFinite DEF Inv, TypeOK, PartialFunction
<1>4. Cardinality(S) \in Nat /\ Cardinality(S \cap DOMAIN log) = 0
  BY FS_CardinalityType, FS_EmptySet
<1>5. Cardinality(DOMAIN log') = Cardinality(DOMAIN log) + Cardinality(S)
  <2> HIDE DEF S
  <2>1. IsFiniteSet(S) /\ DOMAIN log \cap S = {}
    BY DEF S
  <2>2. /\ Cardinality(DOMAIN log \cup S)
             = Cardinality(DOMAIN log) + Cardinality(S) - Cardinality(DOMAIN log \cap S)
        /\ Cardinality(DOMAIN log \cap S) = 0
    BY <1>3, <2>1, FS_Union, FS_EmptySet
  <2>3. QED
    BY <1>1, <1>3, <1>4, <2>2
<1>6. \A b \in g : b.eid \notin DOMAIN log
  BY DEF Eids
<1>7. ASSUME NEW e \in S
      PROVE  log'[e].pos = Cardinality(DOMAIN log) + Cardinality(upTo(e))
  <2> DEFINE b == CHOOSE c \in g : c.eid = e
  <2>1. b \in g /\ b.eid = e /\ e \notin DOMAIN log
    BY <1>6, <1>7 DEF Eids
  <2>2. Fresh(g) = g
    BY <1>6 DEF Fresh
  <2> HIDE DEF b
  <2>3. Eids({c \in Fresh(g) : c.seq <= b.seq}) = upTo(e)
    BY <2>1, <2>2 DEF Eids
  <2> DEFINE place == Cardinality(DOMAIN log)
                        + Cardinality(Eids({c \in Fresh(g) : c.seq <= b.seq}))
  <2>4. log'[e] = StoredEvent(b, place)
    BY <1>7, <2>1 DEF Appended, b
  <2>5. place = Cardinality(DOMAIN log) + Cardinality(upTo(e))
    BY <2>3
  <2> HIDE DEF place
  <2>6. log'[e].pos = place
    BY <2>4 DEF StoredEvent
  <2>7. QED
    BY <2>5, <2>6
<1>8. ASSUME NEW e \in S
      PROVE  /\ Cardinality(upTo(e)) \in Nat /\ Cardinality(upTo(e)) > 0
             /\ Cardinality(upTo(e)) <= Cardinality(S)
             /\ \A f \in S : e < f => Cardinality(upTo(e)) < Cardinality(upTo(f))
  <2>1. \A f \in S : upTo(f) \in SUBSET S /\ f \in upTo(f)
    BY <1>2
  <2>2. \A f \in S : IsFiniteSet(upTo(f)) /\ Cardinality(upTo(f)) <= Cardinality(S)
    BY <2>1, FS_Subset
  <2>3. \A f \in S : Cardinality(upTo(f)) \in Nat /\ Cardinality(upTo(f)) # 0
    BY <2>1, <2>2, FS_CardinalityType, FS_EmptySet
  <2>4. ASSUME NEW f \in S, e < f PROVE Cardinality(upTo(e)) < Cardinality(upTo(f))
    <3>1. upTo(e) \in SUBSET upTo(f) /\ f \notin upTo(e) /\ f \in upTo(f)
      BY <1>2, <1>8, <2>4
    <3>2. upTo(e) # upTo(f)
      BY <3>1
    <3>3. Cardinality(upTo(e)) <= Cardinality(upTo(f)) /\ Cardinality(upTo(e)) # Cardinality(upTo(f))
      BY <2>2, <2>4, <3>1, <3>2, FS_Subset
    <3>4. QED
      BY <1>8, <2>3, <2>4, <3>3
  <2>5. QED
    BY <1>8, <2>2, <2>3, <2>4
<1>9. QED
  BY <1>1, <1>3, <1>4, <1>5, <1>7, <1>8

(* What the server answers when it does not fail.                          *)
LEMMA ServedIs ==
  ASSUME "transient" \notin Faults, NEW g, NEW result \in ServerResults(g, Faults)
  PROVE  /\ \A e \in DOMAIN result.answer : result.answer[e] \notin {"retry", "unsent"}
         /\ result.log = log \/ result.log = Appended(g)
<1>1. \/ result = Result(Appended(g), AllConfirmed(g))
      \/ result = Result(log, Aborted(g, Conflicting(g), "conflict"))
      \/ \E b \in Fresh(g) : result = Result(log, Aborted(g, {b}, "rejected"))
  BY DEF ServerResults
<1>2. \A e \in DOMAIN AllConfirmed(g) : AllConfirmed(g)[e] \notin {"retry", "unsent"}
  BY DEF AllConfirmed
<1>3. ASSUME NEW S, NEW code \in {"conflict", "rejected"}, NEW e \in DOMAIN Aborted(g, S, code)
      PROVE  Aborted(g, S, code)[e] \notin {"retry", "unsent"}
  BY DEF Aborted
<1>4. CASE result = Result(Appended(g), AllConfirmed(g))
  BY <1>2, <1>4 DEF Result
<1>5. CASE result = Result(log, Aborted(g, Conflicting(g), "conflict"))
  BY <1>3, <1>5 DEF Result
<1>6. CASE \E b \in Fresh(g) : result = Result(log, Aborted(g, {b}, "rejected"))
  <2>1. PICK b \in Fresh(g) : result = Result(log, Aborted(g, {b}, "rejected"))
    BY <1>6
  <2>2. QED
    BY <1>3, <2>1 DEF Result
<1>7. QED
  BY <1>1, <1>4, <1>5, <1>6

(* The group it takes comes before everything else without an answer.      *)
LEMMA ServedIsFirst ==
  ASSUME OrderInv, push.phase = "waiting", NEW g \in push.open, g = Head1(push.open)
  PROVE  Below(Eids(g), Undecided \ Eids(g))
<1>1. /\ DeliveryInv /\ Inv /\ Ordered /\ GroupsInOrder /\ push.open \subseteq push.sent
  BY DEF OrderInv, AnswerInv, DeadInv, DeliveryInv, Inv, Ordered, SentInOrder, AnswersSent
<1>2. \A h \in push.open \ {g} : Below(Eids(g), Eids(h))
  <2>1. push.open \in SUBSET (push.queue \cup Posted) /\ push.open # {}
    BY <1>1 DEF Posted
  <2>2. QED
    BY <1>1, <2>1, HeadIsBelow
<1>3. Eids(g) \subseteq OpenIds /\ OpenIds \subseteq reserved
  BY <1>1, InHandIs DEF OpenIds, Eids, Events
<1>4. ASSUME NEW f \in Undecided \ Eids(g) PROVE \A e \in Eids(g) : e < f
  <2>1. CASE f \in reserved
    <3>1. f \in InHand /\ push.oversized = {}
      BY <1>1, <1>4, <2>1 DEF Ordered, ReservedInHand, Rested
    <3>2. CASE f \in OpenIds
      <4>1. PICK h \in push.open : f \in Eids(h)
        BY <3>2 DEF OpenIds, Eids, Events
      <4>2. QED
        BY <1>2, <1>4, <4>1 DEF Below
    <3>3. CASE f \in QueueIds
      BY <1>1, <1>3, <3>3 DEF Ordered, SentInOrder, Below
    <3>4. CASE \E i \in DOMAIN push.todo : f \in TodoIds(i)
      BY <1>1, <1>3, <3>4 DEF Ordered, SentInOrder, TodoInOrder, Below
    <3>5. QED
      BY <3>1, <3>2, <3>3, <3>4 DEF InHand
  <2>2. CASE f \notin reserved
    <3>1. f \in Free
      BY <1>4, <2>2 DEF Free, Undecided
    <3>2. QED
      BY <1>1, <1>3, <3>1 DEF Ordered, Below
  <2>3. QED
    BY <2>1, <2>2
<1>5. QED
  BY <1>4 DEF Below

LEMMA ServeKeepsOrder ==
  ASSUME OrderInv, InTurn, ServePush
  PROVE  Ordered' /\ LastEdit'
<1>1. /\ DeliveryInv /\ Inv /\ Ordered /\ AnswerInv
  BY DEF OrderInv, AnswerInv, DeadInv, DeliveryInv
<1>2. /\ push.phase = "waiting" /\ outbox' = outbox /\ deadletter' = deadletter
      /\ local' = local /\ nextId' = nextId /\ reserved' = reserved
      /\ Unsynced' = Unsynced /\ Free' = Free
  BY DEF ServePush, Unsynced, Free
<1>3. PICK g \in push.open :
        /\ g = Head1(push.open) /\ g # {} /\ g \in push.sent /\ g \subseteq InFlight
        /\ \E result \in ServerResults(g, Faults) :
             /\ log' = result.log
             /\ push' = [push EXCEPT !.open = push.open \ {g},
                                     !.answer = Override(push.answer, result.answer)]
             /\ DOMAIN result.answer = Eids(g)
             /\ push'.open = push.open \ {g}
             /\ push'.answer = Override(push.answer, result.answer)
             /\ DOMAIN push'.answer = DOMAIN push.answer \cup Eids(g)
             /\ push'.phase = push.phase /\ push'.queue = push.queue /\ push'.sent = push.sent
             /\ push'.todo = push.todo /\ push'.acc = push.acc
             /\ push'.oversized = push.oversized /\ Posted' = Posted
  BY <1>1, ServeIs
<1>4. PICK result \in ServerResults(g, Faults) :
        /\ log' = result.log /\ DOMAIN result.answer = Eids(g)
        /\ push'.open = push.open \ {g}
        /\ push'.answer = Override(push.answer, result.answer)
        /\ DOMAIN push'.answer = DOMAIN push.answer \cup Eids(g)
        /\ push'.phase = push.phase /\ push'.queue = push.queue
        /\ push'.todo = push.todo /\ push'.acc = push.acc
        /\ push'.oversized = push.oversized /\ Posted' = Posted
  BY <1>3
<1>5. /\ \A e \in DOMAIN result.answer : result.answer[e] \notin {"retry", "unsent"}
      /\ log' = log \/ log' = Appended(g)
  BY <1>4, ServedIs DEF InTurn
<1>6. /\ Eids(g) \cap DOMAIN log = {} /\ Eids(g) \subseteq Undecided
      /\ Eids(g) \subseteq Unsynced
  <2>1. /\ Eids(g) \cap DOMAIN log = {} /\ Eids(g) \cap DOMAIN push.answer = {}
        /\ Eids(g) \cap DOMAIN push.acc = {} /\ Eids(g) \subseteq Unsynced
    BY <1>1, OpenIsFresh
  <2>2. QED
    BY <2>1 DEF Undecided, Decided
<1>7. Undecided' = Undecided \ Eids(g)
  BY <1>2, <1>4 DEF Undecided, Decided
<1>8. Below(Eids(g), Undecided')
  BY <1>2, <1>3, <1>7, ServedIsFirst
<1>9. OpenIds' \subseteq OpenIds /\ OpenIds \subseteq OpenIds' \cup Eids(g)
  BY <1>4 DEF OpenIds, Eids, Events
<1>10. QueueIds' = QueueIds /\ \A i \in DOMAIN push.todo : TodoIds(i)' = TodoIds(i)
  BY <1>4 DEF QueueIds, TodoIds
<1>11. Rested'
  BY <1>1, <1>2, <1>4, <1>5 DEF Ordered, Rested, Override
<1>12. SentInOrder'
  <2>1. GroupsInOrder'
    BY <1>1, <1>4 DEF Ordered, SentInOrder, GroupsInOrder
  <2>2. Below(OpenIds, QueueIds)'
    BY <1>1, <1>9, <1>10 DEF Ordered, SentInOrder, Below
  <2>3. TodoInOrder'
    BY <1>1, <1>4, <1>9, <1>10 DEF Ordered, SentInOrder, TodoInOrder, Below
  <2>4. QED
    BY <2>1, <2>2, <2>3 DEF SentInOrder
<1>13. Below(reserved, Free)'
  BY <1>1, <1>2 DEF Ordered, Below
<1>14. ReservedInHand'
  <2>1. InHand \subseteq InHand' \cup Eids(g)
    BY <1>4, <1>9, <1>10 DEF InHand
  <2>2. QED
    BY <1>1, <1>2, <1>7, <2>1 DEF Ordered, ReservedInHand
<1>15. LogInOrder'
  <2>1. CASE log' = log
    BY <1>1, <1>7, <2>1 DEF Ordered, LogInOrder, Below
  <2>2. CASE log' = Appended(g)
    <3> DEFINE N == Cardinality(DOMAIN log)
               n == Cardinality(Eids(g))
               rank(e) == Cardinality({x \in Eids(g) : x <= e})
    <3>1. /\ IsFiniteSet(Eids(g)) /\ \A b \in g : b.seq = b.eid /\ b.eid \in Nat
      <4>1. Eids(g) \subseteq Ids
        BY <1>1, <1>6, RowsTyped DEF Unsynced
      <4>2. QED
        BY <1>1, <1>3, <4>1, IdsFinite, InHandIs
    <3>2. /\ DOMAIN log' = DOMAIN log \cup Eids(g)
          /\ Cardinality(DOMAIN log') = N + n /\ N \in Nat /\ n \in Nat
          /\ \A e \in DOMAIN log : log'[e] = log[e]
          /\ \A e \in Eids(g) :
               /\ log'[e].pos = N + rank(e)
               /\ rank(e) \in Nat /\ rank(e) > 0 /\ rank(e) <= n
               /\ \A f \in Eids(g) : e < f => rank(e) < rank(f)
      <4>1. Inv /\ g \subseteq InFlight /\ Eids(g) \cap DOMAIN log = {} /\ log' = Appended(g)
        BY <1>1, <1>3, <1>6, <2>2
      <4>2. QED
        BY <3>1, <4>1, AppendedPlaces
    <3>3. /\ \A e \in DOMAIN log : e \in Nat /\ log[e].pos \in Nat /\ log[e].pos <= N
          /\ \A e, f \in DOMAIN log : e < f => log[e].pos < log[f].pos
          /\ \A e \in DOMAIN log, f \in Undecided : e < f
      BY <1>1, RowsTyped DEF Ordered, LogInOrder, Below
    <3>4. \A e \in Eids(g) : e \in Nat
      BY <3>1 DEF Eids
    <3> HIDE DEF N, n, rank
    <3>5. Below(DOMAIN log', Undecided')
      BY <1>7, <1>8, <3>2, <3>3 DEF Below
    <3>6. ASSUME NEW e \in DOMAIN log'
          PROVE  /\ log'[e].pos <= N + n
                 /\ \A f \in DOMAIN log' : e < f => log'[e].pos < log'[f].pos
      <4>1. CASE e \in DOMAIN log
        <5>1. log'[e].pos <= N /\ log'[e].pos \in Nat
          BY <3>2, <3>3, <4>1
        <5>2. ASSUME NEW f \in DOMAIN log', e < f PROVE log'[e].pos < log'[f].pos
          <6>1. CASE f \in DOMAIN log
            BY <3>2, <3>3, <4>1, <5>2, <6>1
          <6>2. CASE f \in Eids(g)
            BY <3>2, <5>1, <6>2
          <6>3. QED
            BY <3>2, <6>1, <6>2
        <5>3. QED
          BY <3>2, <5>1, <5>2
      <4>2. CASE e \in Eids(g)
        <5>1. ASSUME NEW f \in DOMAIN log', e < f PROVE log'[e].pos < log'[f].pos
          <6>1. CASE f \in DOMAIN log
            BY <1>6, <3>3, <3>4, <4>2, <5>1, <6>1
          <6>2. CASE f \in Eids(g)
            BY <3>2, <4>2, <5>1, <6>2
          <6>3. QED
            BY <3>2, <6>1, <6>2
        <5>2. QED
          BY <3>2, <4>2, <5>1
      <4>3. QED
        BY <3>2, <3>6, <4>1, <4>2
    <3>7. QED
      BY <3>2, <3>5, <3>6 DEF LogInOrder
  <2>3. QED
    BY <1>5, <2>1, <2>2
<1>16. \A e \in DOMAIN outbox' : SameEvent(outbox[e], outbox'[e])
  BY <1>2 DEF SameEvent
<1>17. ValsInOrder' /\ LastEdit'
  BY <1>2, <1>16, ValsKept, LastEditKept
<1>18. QED
  BY <1>11, <1>12, <1>13, <1>14, <1>15, <1>17 DEF Ordered

-----------------------------------------------------------------------------
(* A reply, or a refusal, decides what was sent and sends the next half.   *)

(* No half is forgotten.                                                   *)
LEMMA TailKeeps ==
  ASSUME NEW T, NEW s \in Seq(T), s # <<>>, NEW i \in DOMAIN s, i # 1
  PROVE  i - 1 \in DOMAIN Tail(s) /\ Tail(s)[i - 1] = s[i]
<1>1. Tail(s) \in Seq(T) /\ Len(Tail(s)) = Len(s) - 1 /\ Len(s) \in Nat /\ i \in 1..Len(s)
  OBVIOUS
<1>2. i - 1 \in 1..Len(Tail(s))
  BY <1>1
<1>3. i - 1 \in DOMAIN Tail(s)
  BY <1>1, <1>2
<1>4. Tail(s)[i - 1] = s[i]
  BY <1>1, <1>2, <1>3
<1>5. QED
  BY <1>3, <1>4

LEMMA SettledHand ==
  ASSUME Inv, NEW acc, push' = Settled(push, acc)
  PROVE  /\ QueueIds' = QueueIds
         /\ \A i \in DOMAIN push.todo : TodoIds(i) \subseteq InHand'
<1>1. PushType(push)
  BY DEF Inv, TypeOK
<1>2. push'.queue = push.queue /\ push'.open = push'.sent
  BY <1>1, SettledIs
<1>3. ASSUME NEW i \in DOMAIN push.todo PROVE TodoIds(i) \subseteq InHand'
  <2>1. push.todo # <<>>
    BY <1>3
  <2>2. push' = [phase |-> "waiting", queue |-> push.queue, oversized |-> {}, todo |-> Tail(push.todo),
                 sent |-> Head(push.todo), open |-> Head(push.todo), answer |-> NoOutcome,
                 acc |-> acc]
    BY <2>1 DEF Settled, IdlePush, Resting
  <2>3. push'.todo = Tail(push.todo) /\ push'.open = Head(push.todo)
    BY <2>2
  <2>4. push.todo \in Seq(Requests) /\ Head(push.todo) = push.todo[1]
    BY <1>1, <2>1, PostedType, TailIs
  <2>5. CASE i = 1
    BY <2>3, <2>4, <2>5 DEF TodoIds, InHand, OpenIds
  <2>6. CASE i # 1
    <3>1. i - 1 \in DOMAIN push'.todo /\ push'.todo[i - 1] = push.todo[i]
      BY <2>1, <2>3, <2>4, <2>6, TailKeeps
    <3>2. TodoIds(i - 1)' = TodoIds(i)
      BY <3>1 DEF TodoIds
    <3>3. QED
      BY <3>1, <3>2 DEF InHand
  <2>7. QED
    BY <2>5, <2>6
<1>4. QED
  BY <1>2, <1>3 DEF QueueIds

LEMMA SettledKeepsOrder ==
  ASSUME OrderInv, push.phase = "waiting", NEW S, OpenIds \subseteq S \cup DOMAIN push.answer,
         DOMAIN push.answer \subseteq S, NEW acc,
         DOMAIN acc = DOMAIN push.acc \cup S,
         \A e \in DOMAIN acc : acc[e] \notin {"retry", "unsent"},
         push' = Settled(push, acc),
         UNCHANGED <<log, outbox, deadletter, local, nextId, reserved>>
  PROVE  Ordered' /\ LastEdit'
<1>1. /\ DeliveryInv /\ Inv /\ Ordered /\ AnswerInv /\ PushType(push)
      /\ SentInOrder /\ TodoInOrder /\ GroupsInOrder
  BY DEF OrderInv, AnswerInv, DeadInv, DeliveryInv, Inv, TypeOK, Ordered, SentInOrder
<1>2. /\ push'.queue = push.queue /\ push'.oversized = {}
      /\ DOMAIN push'.answer = {} /\ push'.acc = acc /\ push'.open = push'.sent
      /\ \/ /\ push.todo = <<>> /\ push'.phase = "apply" /\ push'.todo = <<>>
            /\ push'.sent = {}
         \/ /\ push.todo # <<>> /\ push'.phase = "waiting"
            /\ 1 \in DOMAIN push.todo /\ push'.sent = push.todo[1]
            /\ push'.todo \in Seq(Requests)
            /\ \A i \in DOMAIN push'.todo :
                 /\ i \in Int /\ i + 1 \in DOMAIN push.todo /\ i + 1 # 1
                 /\ push'.todo[i] = push.todo[i + 1]
  BY <1>1, SettledIs
<1>3. Unsynced' = Unsynced /\ Free' = Free
  BY DEF Unsynced, Free
<1>4. Undecided' \subseteq Undecided
  BY <1>2, <1>3 DEF Undecided, Decided
<1>5. Rested'
  BY <1>1, <1>2 DEF Ordered, Rested
<1>6. SentInOrder'
  <2>1. GroupsInOrder'
    <3>1. Posted' \subseteq Posted
      BY <1>1, SettledPosted DEF Posted
    <3>2. QED
      BY <1>1, <1>2, <3>1 DEF GroupsInOrder
  <2>2. CASE push'.todo = <<>> /\ push'.sent = {}
    <3>1. Below(Eids(Events(push'.open)), Eids(Events(push'.queue)))
      BY <1>2, <2>2 DEF Below, Eids, Events
    <3>2. QED
      BY <2>1, <2>2, <3>1, QueueInOrder DEF GroupsInOrder
  <2>3. CASE /\ 1 \in DOMAIN push.todo /\ push'.sent = push.todo[1]
             /\ push'.todo \in Seq(Requests)
             /\ \A i \in DOMAIN push'.todo :
                  /\ i \in Int /\ i + 1 \in DOMAIN push.todo /\ i + 1 # 1
                  /\ push'.todo[i] = push.todo[i + 1]
    <3>1. OpenIds' = TodoIds(1) /\ QueueIds' = QueueIds
      BY <1>2, <2>3 DEF OpenIds, TodoIds, QueueIds
    <3>2. \A i \in DOMAIN push'.todo : /\ i \in Int /\ i + 1 \in DOMAIN push.todo
                                       /\ TodoIds(i)' = TodoIds(i + 1) /\ 1 < i + 1
      <4>1. \A i \in DOMAIN push'.todo : i \in 1..Len(push'.todo) /\ Len(push'.todo) \in Nat
        BY <2>3
      <4>2. \A i \in DOMAIN push'.todo : 1 < i + 1
        BY <4>1
      <4>3. \A i \in DOMAIN push'.todo : TodoIds(i)' = TodoIds(i + 1)
        BY <2>3 DEF TodoIds
      <4>4. QED
        BY <2>3, <4>2, <4>3
    <3>3. Below(OpenIds, QueueIds)'
      BY <1>1, <2>3, <3>1 DEF TodoInOrder
    <3>4. ASSUME NEW i \in DOMAIN push'.todo
          PROVE  /\ Below(OpenIds', TodoIds(i)') /\ Below(TodoIds(i)', QueueIds')
                 /\ \A j \in DOMAIN push'.todo : i < j => Below(TodoIds(i)', TodoIds(j)')
      <4>1. Below(TodoIds(1), TodoIds(i + 1)) /\ Below(TodoIds(i + 1), QueueIds)
        BY <1>1, <2>3, <3>2, <3>4 DEF TodoInOrder
      <4>2. ASSUME NEW j \in DOMAIN push'.todo, i < j PROVE Below(TodoIds(i)', TodoIds(j)')
        <5>1. i + 1 < j + 1
          BY <3>2, <3>4, <4>2
        <5>2. Below(TodoIds(i + 1), TodoIds(j + 1))
          BY <1>1, <3>2, <3>4, <4>2, <5>1 DEF TodoInOrder
        <5>3. QED
          BY <3>2, <3>4, <4>2, <5>2
      <4>3. QED
        BY <3>1, <3>2, <3>4, <4>1, <4>2
    <3>5. TodoInOrder'
      BY <3>4 DEF TodoInOrder
    <3>6. QED
      BY <2>1, <3>3, <3>5 DEF SentInOrder
  <2>4. QED
    BY <1>2, <2>2, <2>3
<1>7. Below(reserved, Free)'
  BY <1>1, <1>3 DEF Ordered, Below
<1>8. ReservedInHand'
  <2>1. ASSUME NEW e \in reserved' \cap Undecided' PROVE e \in InHand'
    <3>1. e \in InHand /\ e \notin DOMAIN acc /\ push.oversized = {}
      BY <1>1, <1>2, <1>4, <2>1 DEF Ordered, ReservedInHand, Rested, Undecided, Decided
    <3>2. e \notin OpenIds
      BY <3>1
    <3>3. e \in QueueIds \/ \E i \in DOMAIN push.todo : e \in TodoIds(i)
      BY <3>1, <3>2 DEF InHand
    <3>4. /\ QueueIds' = QueueIds
          /\ \A i \in DOMAIN push.todo : TodoIds(i) \subseteq InHand'
      BY <1>1, SettledHand
    <3>5. QED
      BY <3>3, <3>4 DEF InHand
  <2>2. QED
    BY <2>1 DEF ReservedInHand
<1>9. LogInOrder'
  BY <1>1, <1>4 DEF Ordered, LogInOrder, Below
<1>10. \A e \in DOMAIN outbox' : SameEvent(outbox[e], outbox'[e])
  BY DEF SameEvent
<1>11. ValsInOrder' /\ LastEdit'
  BY <1>10, ValsKept, LastEditKept
<1>12. QED
  BY <1>5, <1>6, <1>7, <1>8, <1>9, <1>11 DEF Ordered

LEMMA ReplyKeepsOrder ==
  ASSUME OrderInv, ReceiveReply
  PROVE  Ordered' /\ LastEdit'
<1> DEFINE acc == Override(push.acc, push.answer)
<1>1. /\ push.phase = "waiting" /\ push.open = {} /\ push' = Settled(push, acc)
      /\ UNCHANGED <<log, outbox, deadletter, local, nextId, reserved>>
  BY DEF ReceiveReply
<1>2. OpenIds = {}
  BY <1>1 DEF OpenIds, Eids, Events
<1>3. DOMAIN acc = DOMAIN push.acc \cup DOMAIN push.answer
  BY DEF Override
<1>4. \A e \in DOMAIN acc : acc[e] \notin {"retry", "unsent"}
  BY DEF Override, OrderInv, Ordered, Rested
<1> HIDE DEF acc
<1>5. QED
  BY <1>1, <1>2, <1>3, <1>4, SettledKeepsOrder

LEMMA RefuseKeepsOrder ==
  ASSUME OrderInv, RefuseTooLarge
  PROVE  Ordered' /\ LastEdit'
<1> DEFINE S == Eids(Events(push.sent))
           acc == Override(push.acc, Same(S, "tooLarge"))
           half == FirstHalf(push.sent)
<1>1. /\ DeliveryInv /\ Inv /\ Ordered /\ AnswerInv /\ PushType(push)
      /\ SentInOrder /\ TodoInOrder /\ GroupsInOrder
  BY DEF OrderInv, AnswerInv, DeadInv, DeliveryInv, Inv, TypeOK, Ordered, SentInOrder
<1>2. /\ push.phase = "waiting" /\ push.open = push.sent
      /\ UNCHANGED <<log, outbox, deadletter, local, nextId, reserved>>
  BY DEF RefuseTooLarge
<1>3. OpenIds = S /\ DOMAIN push.answer = {}
  BY <1>1, <1>2 DEF OpenIds, Inv, AnswersSent, Eids, Events
<1>4. CASE push' = Settled(push, acc)
  <2>1. DOMAIN acc = DOMAIN push.acc \cup S
    BY DEF Override, Same
  <2>2. \A e \in DOMAIN acc : acc[e] \notin {"retry", "unsent"}
    BY <1>1 DEF Override, Same, Ordered, Rested
  <2> HIDE DEF acc, S
  <2>3. QED
    BY <1>2, <1>3, <1>4, <2>1, <2>2, SettledKeepsOrder
<1>5. CASE /\ push'.phase = "waiting" /\ push'.queue = push.queue /\ push'.acc = push.acc
           /\ push'.oversized = push.oversized /\ push'.answer = push.answer
           /\ push'.sent = half /\ push'.open = half /\ half \subseteq push.sent
           /\ push'.todo \in Seq(Requests)
           /\ 1 \in DOMAIN push'.todo /\ push'.todo[1] = push.sent \ half
           /\ \A i \in DOMAIN push'.todo :
                /\ i \in Int
                /\ i # 1 => i - 1 \in DOMAIN push.todo /\ i > 1 /\ push'.todo[i] = push.todo[i - 1]
           /\ Posted' = Posted
  <2>1. Unsynced' = Unsynced /\ Free' = Free /\ Undecided' = Undecided
    BY <1>2, <1>5 DEF Unsynced, Free, Undecided, Decided
  <2>2. Rested'
    BY <1>1, <1>2, <1>5 DEF Ordered, Rested
  <2>3. QueueIds' = QueueIds /\ OpenIds' \subseteq OpenIds /\ TodoIds(1)' \subseteq OpenIds
    BY <1>2, <1>5 DEF QueueIds, OpenIds, TodoIds, Eids, Events
  <2>4. Below(OpenIds', TodoIds(1)')
    BY <1>1, <1>5, HalfIsBelow DEF OpenIds, TodoIds
  <2> HIDE DEF half, S, acc
  <2>5. \A i \in DOMAIN push'.todo : i # 1 => /\ i - 1 \in DOMAIN push.todo /\ i > 1 /\ i \in Int
                                              /\ TodoIds(i)' = TodoIds(i - 1)
    BY <1>5 DEF TodoIds
  <2>6. SentInOrder'
    <3>1. GroupsInOrder'
      BY <1>1, <1>5 DEF GroupsInOrder
    <3>2. Below(OpenIds, QueueIds)'
      BY <1>1, <2>3 DEF SentInOrder, Below
    <3>3. ASSUME NEW i \in DOMAIN push'.todo
          PROVE  /\ Below(OpenIds', TodoIds(i)') /\ Below(TodoIds(i)', QueueIds')
                 /\ \A j \in DOMAIN push'.todo : i < j => Below(TodoIds(i)', TodoIds(j)')
      <4>1. CASE i = 1
        <5>1. Below(TodoIds(1)', QueueIds')
          BY <1>1, <2>3 DEF SentInOrder, Below
        <5>2. ASSUME NEW j \in DOMAIN push'.todo, i < j PROVE Below(TodoIds(1)', TodoIds(j)')
          <6>1. j # 1
            BY <4>1, <5>2
          <6>2. TodoIds(j)' = TodoIds(j - 1) /\ j - 1 \in DOMAIN push.todo
            BY <2>5, <5>2, <6>1
          <6>3. Below(OpenIds, TodoIds(j - 1))
            BY <1>1, <6>2 DEF TodoInOrder
          <6>4. QED
            BY <2>3, <6>2, <6>3 DEF Below
        <5>3. QED
          BY <2>4, <4>1, <5>1, <5>2
      <4>2. CASE i # 1
        <5>1. TodoIds(i)' = TodoIds(i - 1) /\ i - 1 \in DOMAIN push.todo /\ i > 1 /\ i \in Int
          BY <2>5, <3>3, <4>2
        <5>2. Below(OpenIds, TodoIds(i - 1)) /\ Below(TodoIds(i - 1), QueueIds)
          BY <1>1, <5>1 DEF TodoInOrder
        <5>3. ASSUME NEW j \in DOMAIN push'.todo, i < j PROVE Below(TodoIds(i)', TodoIds(j)')
          <6>1. j \in Int /\ j # 1
            BY <1>5, <5>1, <5>3
          <6>2. TodoIds(j)' = TodoIds(j - 1) /\ j - 1 \in DOMAIN push.todo /\ i - 1 < j - 1
            BY <2>5, <5>1, <5>3, <6>1
          <6>3. QED
            BY <1>1, <5>1, <6>2 DEF TodoInOrder
        <5>4. QED
          BY <2>3, <5>1, <5>2, <5>3 DEF Below
      <4>3. QED
        BY <4>1, <4>2
    <3>4. TodoInOrder'
      BY <3>3 DEF TodoInOrder
    <3>5. QED
      BY <3>1, <3>2, <3>4 DEF SentInOrder
  <2>7. Below(reserved, Free)'
    BY <1>1, <1>2, <2>1 DEF Ordered, Below
  <2>8. ReservedInHand'
    <3>1. Posted' = push'.sent \cup UNION {push'.todo[i] : i \in DOMAIN push'.todo}
      BY DEF Posted
    <3>2. ASSUME NEW e \in Eids(Events(Posted)) PROVE e \in InHand'
      <4>1. PICK x \in Posted' : e \in Eids(x)
        BY <1>5, <3>2 DEF Eids, Events
      <4>2. CASE x \in push'.sent
        <5>1. e \in OpenIds'
          BY <1>5, <4>1, <4>2 DEF OpenIds, Eids, Events
        <5>2. QED
          BY <5>1 DEF InHand
      <4>3. CASE \E i \in DOMAIN push'.todo : x \in push'.todo[i]
        <5>1. PICK i \in DOMAIN push'.todo : x \in push'.todo[i]
          BY <4>3
        <5>2. e \in TodoIds(i)'
          BY <4>1, <5>1 DEF TodoIds, Eids, Events
        <5>3. QED
          BY <5>1, <5>2 DEF InHand
      <4>4. QED
        BY <3>1, <4>1, <4>2, <4>3
    <3>3. OpenIds \subseteq Eids(Events(Posted))
          /\ \A i \in DOMAIN push.todo : TodoIds(i) \subseteq Eids(Events(Posted))
      BY <1>2 DEF OpenIds, TodoIds, Posted, Eids, Events
    <3>4. InHand \subseteq InHand'
      <4>1. push.oversized \cup QueueIds \subseteq InHand'
        BY <1>5, <2>3 DEF InHand
      <4>2. QED
        BY <3>2, <3>3, <4>1 DEF InHand
    <3>5. QED
      BY <1>1, <1>2, <2>1, <3>4 DEF Ordered, ReservedInHand
  <2>9. LogInOrder'
    BY <1>1, <1>2, <2>1 DEF Ordered, LogInOrder
  <2>10. \A e \in DOMAIN outbox' : SameEvent(outbox[e], outbox'[e])
    BY <1>2 DEF SameEvent
  <2>11. ValsInOrder' /\ LastEdit'
    BY <1>2, <2>10, ValsKept, LastEditKept
  <2>12. QED
    BY <2>2, <2>6, <2>7, <2>8, <2>9, <2>11 DEF Ordered
<1>6. QED
  BY <1>1, <1>4, <1>5, RefuseIs

-----------------------------------------------------------------------------
(* Every step keeps the order.                                             *)

LEMMA NextOrdered ==
  ASSUME InTurn, OrderInv, [Next]_vars
  PROVE  OrderInv'
<1>1. Lossless
  BY DEF InTurn, Lossless, Steady
<1>2. AnswerInv' /\ AnswerInv /\ DeliveryInv /\ Inv /\ TypeOK /\ Inv' /\ Ordered /\ LastEdit
  BY <1>1, NextAnswered DEF OrderInv, AnswerInv, DeadInv, DeliveryInv, Inv
<1>3. CASE Edit
  BY <1>2, <1>3, EditKeepsOrder DEF Edit, OrderInv
<1>4. CASE \E k \in Keys : CompactKey(k)
  BY <1>2, <1>4, CompactKeepsOrder DEF OrderInv
<1>5. CASE PlanPush \/ ParkOversized \/ ApplyBatch \/ ReleaseReserved
  BY <1>2, <1>5, PlanKeepsOrder, ParkOversizedKeepsOrder, ApplyKeepsOrder, ReleaseKeepsOrder
     DEF OrderInv
<1>6. CASE ServePush \/ ReceiveReply \/ RefuseTooLarge
  BY <1>2, <1>6, ServeKeepsOrder, ReplyKeepsOrder, RefuseKeepsOrder DEF OrderInv
<1>7. CASE StartCompact \/ UNCHANGED vars
  <2>1. UNCHANGED <<log, outbox, deadletter, local, nextId, reserved, push>>
    BY <1>7 DEF StartCompact, vars
  <2>2. Ordered'
    BY <1>2, <2>1 DEF Ordered, Rested, SentInOrder, GroupsInOrder, TodoInOrder, Posted, Below,
                      ReservedInHand, InHand, OpenIds, QueueIds, TodoIds, LogInOrder, Undecided,
                      Decided, Unsynced, Free, ValsInOrder
  <2>3. LastEdit'
    <3>1. \A e \in DOMAIN outbox' : SameEvent(outbox[e], outbox'[e])
      BY <2>1 DEF SameEvent
    <3>2. QED
      BY <2>1, <3>1, LastEditKept
  <2>4. QED
    BY <1>2, <2>2, <2>3 DEF OrderInv
<1>8. ~TransportError /\ ~ServeLate /\ ~Crashes
  BY <1>2, NoCrash DEF InTurn, TransportError, ServeLate, AnswerInv, Answered
<1>9. ~BackoffTick
  <2>1. \A e \in DOMAIN outbox : ~(outbox[e].wait > 0)
    BY <1>2 DEF Ordered, Rested
  <2>2. QED
    BY <2>1 DEF BackoffTick
<1>10. QED
  BY <1>3, <1>4, <1>5, <1>6, <1>7, <1>8, <1>9 DEF Next, Compact, Pushing

LEMMA OrderInvariance ==
  ASSUME InTurn
  PROVE  Spec => []OrderInv
<1>1. Init => Ordered /\ LastEdit
  <2> SUFFICES ASSUME Init PROVE Ordered /\ LastEdit
    OBVIOUS
  <2>1. /\ DOMAIN outbox = {} /\ DOMAIN log = {} /\ reserved = {} /\ push = IdlePush
        /\ \A k \in Keys : ~local[k].live
    BY DEF Init, LogInit
  <2>2. /\ push.phase = "idle" /\ push.queue = {} /\ push.oversized = {} /\ push.todo = <<>>
        /\ push.sent = {} /\ push.open = {} /\ DOMAIN push.answer = {} /\ DOMAIN push.acc = {}
    BY <2>1, NothingYet DEF IdlePush, Resting
  <2>3. DOMAIN push.todo = {} /\ Posted = {} /\ Unsynced = {}
    BY <2>1, <2>2 DEF Posted, Unsynced
  <2>4. OpenIds = {} /\ QueueIds = {}
    BY <2>2 DEF OpenIds, QueueIds, Eids, Events
  <2>5. SentInOrder
    BY <2>2, <2>3, <2>4 DEF SentInOrder, GroupsInOrder, TodoInOrder, Below
  <2>6. Ordered
    BY <2>1, <2>2, <2>3, <2>5 DEF Ordered, Rested, Below, ReservedInHand, LogInOrder, ValsInOrder
  <2>7. \A k \in Keys : NewestOf(k) = {}
    BY <2>1 DEF NewestOf, RowsOf
  <2>8. QED
    BY <2>1, <2>6, <2>7 DEF LastEdit
<1>2. OrderInv /\ [Next]_vars => OrderInv'
  BY NextOrdered
<1>3. Spec => []AnswerInv
  BY AnswerInvariance DEF InTurn, Lossless, Steady
<1>4. Init /\ AnswerInv => OrderInv
  BY <1>1 DEF OrderInv
<1>5. QED
  BY <1>2, <1>3, <1>4, PTL DEF Spec

(* The server receives the edits of a row in the order the user made them, *)
(* whatever was folded, refused or parked on the way.                      *)
THEOREM EditsArriveInOrder ==
  ASSUME InTurn
  PROVE  Spec => []RowOrder
<1>1. OrderInv => RowOrder
  <2> SUFFICES ASSUME OrderInv, NEW e \in DOMAIN log, NEW f \in DOMAIN log,
                      log[e].key = log[f].key, log[e].val < log[f].val
               PROVE  log[e].pos < log[f].pos
    BY DEF RowOrder
  <2>1. Inv /\ StoredMatches /\ LogInOrder /\ ValsInOrder
    BY DEF OrderInv, AnswerInv, DeadInv, DeliveryInv, Answered, Ordered
  <2>2. /\ e \in DOMAIN outbox /\ f \in DOMAIN outbox /\ outbox[e].key = outbox[f].key
        /\ outbox[e].val < outbox[f].val
    BY <2>1 DEF StoredMatches
  <2>3. /\ e \in Nat /\ f \in Nat /\ outbox[e].val \in Nat /\ outbox[f].val \in Nat
    BY <2>1, <2>2, RowsTyped
  <2>4. ~(f < e) /\ e # f
    BY <2>1, <2>2, <2>3 DEF ValsInOrder
  <2>5. QED
    BY <2>1, <2>3, <2>4 DEF LogInOrder
<1>2. QED
  BY <1>1, OrderInvariance, PTL

(* With nothing queued or parked the server has what the user sees.        *)
THEOREM QuietMeansAgreed ==
  ASSUME InTurn
  PROVE  Spec => []QuiescentAgreement
<1>1. OrderInv => QuiescentAgreement
  <2> SUFFICES ASSUME OrderInv, Quiescent, NEW k \in Keys
               PROVE  IF local[k].live
                      THEN \E e \in HeadOf(k) : log[e].type # "delete" /\ log[e].val = local[k].val
                      ELSE \A e \in HeadOf(k) : log[e].type = "delete"
    BY DEF QuiescentAgreement
  <2>1. Inv /\ StoredMatches /\ LogInOrder /\ LastEdit
    BY DEF OrderInv, AnswerInv, DeadInv, DeliveryInv, Answered, Ordered
  <2>2. Unsynced = {} /\ DOMAIN deadletter = {}
    BY DEF Quiescent
  <2>3. DOMAIN log = DOMAIN outbox
    BY <2>1, <2>2 DEF StoredMatches, Inv, SyncedIsStored
  <2>4. /\ \A e \in DOMAIN log : e \in Nat /\ log[e].pos \in Nat
        /\ \A e \in DOMAIN log : /\ log[e].key = outbox[e].key /\ log[e].val = outbox[e].val
                                 /\ log[e].type = outbox[e].type
    BY <2>1, RowsTyped DEF StoredMatches
  <2>5. RowsOf(k) = {e \in DOMAIN log : log[e].key = k}
    BY <2>3, <2>4 DEF RowsOf
  <2>6. ASSUME NEW e \in NewestOf(k) PROVE e \in HeadOf(k)
    <3>1. e \in DOMAIN log /\ log[e].key = k
      BY <2>5 DEF NewestOf
    <3>2. ASSUME NEW f \in DOMAIN log, log[f].key = k PROVE log[f].pos <= log[e].pos
      <4>1. f <= e
        BY <2>5, <3>2 DEF NewestOf
      <4>2. f = e \/ f < e
        BY <2>4, <3>1, <4>1
      <4>3. f = e \/ log[f].pos < log[e].pos
        BY <2>1, <3>1, <4>2 DEF LogInOrder
      <4>4. QED
        BY <2>4, <3>1, <4>3
    <3>3. QED
      BY <3>1, <3>2 DEF HeadOf
  <2>7. ASSUME NEW e \in HeadOf(k) PROVE e \in NewestOf(k)
    <3>1. e \in DOMAIN log /\ log[e].key = k
      BY DEF HeadOf
    <3>2. ASSUME NEW f \in RowsOf(k) PROVE f <= e
      <4>1. f \in DOMAIN log /\ log[f].pos <= log[e].pos
        BY <2>5 DEF HeadOf
      <4>2. ~(e < f)
        BY <2>1, <2>4, <3>1, <4>1 DEF LogInOrder
      <4>3. QED
        BY <2>4, <3>1, <4>1, <4>2
    <3>3. QED
      BY <2>5, <3>1, <3>2 DEF NewestOf
  <2>8. HeadOf(k) = NewestOf(k) /\ NewestOf(k) \subseteq DOMAIN log
    BY <2>5, <2>6, <2>7 DEF NewestOf
  <2>9. QED
    BY <2>1, <2>2, <2>4, <2>8 DEF LastEdit
<1>2. QED
  BY <1>1, OrderInvariance, PTL

-----------------------------------------------------------------------------
(* Where nothing is refused every base is the event before it on its row,  *)
(* and the server never answers with a conflict.                           *)

Unrefused == /\ Steady /\ Faults = {} /\ ~ManualCompact
             /\ MaxTxRows <= MaxPushSize /\ MaxTxRows <= ServerLimit

Precedes(p, e) == /\ p \in RowsOf(outbox[e].key) /\ p < e
                  /\ \A f \in RowsOf(outbox[e].key) : f <= p \/ e <= f

BasesChain ==
  /\ \A e \in DOMAIN outbox : outbox[e].base = NoEvent \/ Precedes(outbox[e].base, e)
  /\ \A k \in Keys : heads[k] = NoEvent \/ (ConflictDetection /\ heads[k] \in NewestOf(k))

(* A transaction's ids are as many as its rows, so no group is too large.  *)
TxSpans == \A e \in DOMAIN outbox : outbox[e].tx <= e /\ e < outbox[e].tx + MaxTxRows
OneTxEach == \A g \in push.queue \cup Posted : \A b, c \in g : b.tx = c.tx

AllConfirmedYet ==
  /\ push.oversized = {}
  /\ \A e \in DOMAIN push.answer : push.answer[e] = "confirmed"
  /\ \A e \in DOMAIN push.acc : push.acc[e] = "confirmed"

ChainInv == /\ OrderInv /\ compacting = {}
            /\ BasesChain /\ TxSpans /\ OneTxEach /\ AllConfirmedYet

(* Groups of one transaction are small.                                    *)
LEMMA GroupIsSmall ==
  ASSUME Inv, TxSpans, NEW g, g # {}, \A b \in g : b.eid \in DOMAIN outbox /\ b = Body(b.eid),
         \A b, c \in g : b.tx = c.tx
  PROVE  Cardinality(g) \in Nat /\ Cardinality(g) <= MaxTxRows
<1>1. PICK b \in g : TRUE
  OBVIOUS
<1> DEFINE t == b.tx
           T == t..(t + MaxTxRows - 1)
           f == [c \in g |-> c.eid]
<1>2. ASSUME NEW c \in g PROVE c.eid \in Nat /\ t \in Nat /\ t <= c.eid /\ c.eid < t + MaxTxRows
  <2>1. c.eid \in DOMAIN outbox /\ c.tx = outbox[c.eid].tx /\ outbox[c.eid] \in Row /\ c.tx = t
    BY <1>2, RowsTyped DEF Body
  <2>2. outbox[c.eid].tx \in Nat
    <3>1. \A r \in Row : r.tx \in Ids
      BY DEF Row
    <3>2. Ids \subseteq Nat
      BY BoundsAssumption DEF Ids
    <3>3. QED
      BY <2>1, <3>1, <3>2
  <2>3. QED
    BY <2>1, <2>2, RowsTyped DEF TxSpans
<1>3. t \in Int /\ MaxTxRows \in Nat
  BY <1>1, <1>2, BoundsAssumption
<1>4. f \in [g -> T]
  BY <1>2, <1>3
<1>5. \A c, d \in g : f[c] = f[d] => c = d
  OBVIOUS
<1>6. f \in Injection(g, T)
  BY <1>4, <1>5 DEF Injection, IsInjective
<1>7. IsFiniteSet(T) /\ Cardinality(T) = MaxTxRows
  <2>1. t + MaxTxRows - 1 \in Int
    BY <1>3
  <2>2. IsFiniteSet(T) /\ Cardinality(T) = IF t > t + MaxTxRows - 1 THEN 0
                                           ELSE (t + MaxTxRows - 1) - t + 1
    BY <1>3, <2>1, FS_Interval
  <2>3. (IF t > t + MaxTxRows - 1 THEN 0 ELSE (t + MaxTxRows - 1) - t + 1) = MaxTxRows
    BY <1>3
  <2>4. QED
    BY <2>2, <2>3
<1>8. IsFiniteSet(g) /\ Cardinality(g) <= Cardinality(T)
  BY <1>6, <1>7, FS_Injection
<1>9. QED
  BY <1>7, <1>8, FS_CardinalityType

(* The rows of each key after an edit: the new one on top.                 *)
LEMMA EditRows ==
  ASSUME OrderInv, Inv', NEW ks \in SUBSET Keys, NEW type \in MutationTypes, Mutate(ks, type)
  PROVE  /\ \A k \in ks :
              LET new == EidFor(ks, type, k)
              IN  /\ new \in RowsOf(k)' /\ new \in Nat
                  /\ outbox'[new] = RowFor(ks, type, k)
                  /\ \A f \in RowsOf(k) \ Folded(type, k) : f \in RowsOf(k)' /\ f \in Nat /\ f < new
                  /\ \A f \in RowsOf(k)' : f = new \/ f \in RowsOf(k) \ Folded(type, k)
         /\ \A k \in Keys \ ks : RowsOf(k)' = RowsOf(k)
         /\ \A e \in DOMAIN outbox' :
              \/ \E k \in ks : e = EidFor(ks, type, k)
              \/ /\ e \in DOMAIN outbox /\ outbox'[e] = outbox[e]
                 /\ \A k \in ks : e \notin Folded(type, k)
<1>1. /\ Inv /\ TypeOK /\ CanMutate(ks, type) /\ PartialFunction(outbox, Ids, Row)
  BY DEF OrderInv, AnswerInv, DeadInv, DeliveryInv, Inv, TypeOK, Mutate
<1> DEFINE new(k) == EidFor(ks, type, k)
<1>2. /\ \A k \in ks : new(k) \in DOMAIN outbox' /\ outbox'[new(k)] = RowFor(ks, type, k)
      /\ \A e \in DOMAIN outbox' :
           \/ \E k \in ks : e = new(k)
           \/ /\ e \in DOMAIN outbox /\ outbox'[e] = outbox[e]
              /\ \A k \in ks : e \notin Folded(type, k)
      /\ \A e \in DOMAIN outbox : e \in DOMAIN outbox' \/ \E k \in ks : e \in Folded(type, k)
  BY <1>1, EditWrites
<1>3. \A k \in ks : /\ new(k) \in Folded(type, k) \/ new(k) = IdOf(ks, k)
                    /\ RowFor(ks, type, k).key = k
  BY <1>1, RowForIs
<1>4. \A k \in ks : IdOf(ks, k) >= nextId /\ IdOf(ks, k) \in Nat
  BY <1>1, IdOfType, BoundsAssumption DEF Ids
<1>5. /\ \A e \in DOMAIN outbox : e \in Nat /\ e < nextId
      /\ \A e \in DOMAIN outbox' : e \in Nat
      /\ nextId \in Nat
      /\ \A e \in DOMAIN outbox : \A k \in ks : e \in Folded(type, k) => outbox[e].key = k
  <2>1. \A e \in DOMAIN outbox' : e \in Nat
    BY BoundsAssumption DEF Inv, TypeOK, PartialFunction, Ids
  <2>2. QED
    BY <1>1, <2>1, RowsTyped, FoldedUnsynced
<1> HIDE DEF new
<1>6. ASSUME NEW k \in ks, NEW f \in RowsOf(k) \ Folded(type, k) PROVE f < new(k)
  <2>1. CASE new(k) = IdOf(ks, k)
    BY <1>4, <1>5, <1>6, <2>1 DEF RowsOf
  <2>2. CASE new(k) \in Folded(type, k)
    <3>1. Folded(type, k) = FoldTail(k)
      BY <2>2 DEF Folded
    <3>2. QED
      BY <1>6, <2>2, <3>1, FoldTailIsTop
  <2>3. QED
    BY <1>3, <2>1, <2>2
<1>7. ASSUME NEW k \in Keys, NEW f \in RowsOf(k), \A j \in ks : f \notin Folded(type, j)
      PROVE  f \in RowsOf(k)' /\ outbox'[f] = outbox[f]
  <2>1. f \in DOMAIN outbox /\ outbox[f].key = k /\ f \in DOMAIN outbox'
    BY <1>2, <1>7 DEF RowsOf
  <2>2. \A j \in ks : f # new(j)
    BY <1>3, <1>4, <1>5, <1>7, <2>1
  <2>3. outbox'[f] = outbox[f]
    BY <1>2, <2>1, <2>2
  <2>4. QED
    BY <2>1, <2>3 DEF RowsOf
<1>8. ASSUME NEW k \in ks
      PROVE  /\ new(k) \in RowsOf(k)' /\ new(k) \in Nat
             /\ outbox'[new(k)] = RowFor(ks, type, k)
             /\ \A f \in RowsOf(k) \ Folded(type, k) : f \in RowsOf(k)' /\ f \in Nat /\ f < new(k)
             /\ \A f \in RowsOf(k)' : f = new(k) \/ f \in RowsOf(k) \ Folded(type, k)
  <2>1. new(k) \in RowsOf(k)' /\ new(k) \in Nat /\ outbox'[new(k)] = RowFor(ks, type, k)
    BY <1>2, <1>3, <1>5 DEF RowsOf
  <2>2. ASSUME NEW f \in RowsOf(k) \ Folded(type, k)
        PROVE  f \in RowsOf(k)' /\ f \in Nat /\ f < new(k)
    <3>1. \A j \in ks : f \notin Folded(type, j)
      BY <1>5, <2>2 DEF RowsOf
    <3>2. f \in Nat
      BY <1>5, <2>2 DEF RowsOf
    <3>3. QED
      BY <1>6, <1>7, <2>2, <3>1, <3>2
  <2>3. ASSUME NEW f \in RowsOf(k)' PROVE f = new(k) \/ f \in RowsOf(k) \ Folded(type, k)
    <3>1. f \in DOMAIN outbox' /\ outbox'[f].key = k
      BY <2>3 DEF RowsOf
    <3>2. CASE \E j \in ks : f = new(j)
      BY <1>2, <1>3, <3>1, <3>2
    <3>3. CASE /\ f \in DOMAIN outbox /\ outbox'[f] = outbox[f]
               /\ \A j \in ks : f \notin Folded(type, j)
      BY <3>1, <3>3 DEF RowsOf
    <3>4. QED
      BY <1>2, <3>1, <3>2, <3>3
  <2>4. QED
    BY <2>1, <2>2, <2>3
<1>9. ASSUME NEW k \in Keys \ ks PROVE RowsOf(k)' = RowsOf(k)
  <2>1. ASSUME NEW f \in RowsOf(k) PROVE f \in RowsOf(k)'
    <3>1. \A j \in ks : f \notin Folded(type, j)
      BY <1>5, <1>9, <2>1 DEF RowsOf
    <3>2. QED
      BY <1>7, <2>1, <3>1
  <2>2. ASSUME NEW f \in RowsOf(k)' PROVE f \in RowsOf(k)
    <3>1. f \in DOMAIN outbox' /\ outbox'[f].key = k
      BY <2>2 DEF RowsOf
    <3>2. \A j \in ks : f # new(j)
      BY <1>2, <1>3, <1>9, <3>1
    <3>3. QED
      BY <1>2, <3>1, <3>2 DEF RowsOf
  <2>3. QED
    BY <2>1, <2>2
<1>10. QED
  BY <1>2, <1>8, <1>9 DEF new

(* What the row of a change is based on, and its transaction.              *)
LEMMA RowForBase ==
  ASSUME TypeOK, NEW ks \in SUBSET Keys, NEW type, NEW k \in ks
  PROVE  LET chain == Folded(type, k)
             r == RowFor(ks, type, k)
         IN  /\ chain = {} => r.base = NoEvent \/ (ConflictDetection /\ r.base = heads[k])
             /\ chain # {} => r.base = outbox[Oldest(outbox, chain)].base
             /\ \/ r.tx = nextId /\ EidFor(ks, type, k) = IdOf(ks, k)
                \/ /\ chain # {} /\ EidFor(ks, type, k) = Anchor(outbox, chain)
                   /\ r.tx = outbox[Anchor(outbox, chain)].tx
<1> DEFINE chain == Folded(type, k)
           r == RowFor(ks, type, k)
<1>1. CASE chain = {}
  <2>1. r = UnsyncedRow(nextId, IdOf(ks, k), k, type, IdOf(ks, k),
                        IF ConflictDetection THEN heads[k] ELSE NoEvent)
    BY <1>1 DEF RowFor
  <2>2. EidFor(ks, type, k) = IdOf(ks, k)
    BY <1>1 DEF EidFor
  <2> HIDE DEF r
  <2>3. r.tx = nextId /\ r.base = IF ConflictDetection THEN heads[k] ELSE NoEvent
    BY <2>1 DEF UnsyncedRow
  <2>4. QED
    BY <1>1, <2>2, <2>3 DEF r
<1>2. CASE chain # {}
  <2> DEFINE alone == Cardinality(ks) = 1
  <2>1. r = IF alone
            THEN UnsyncedRow(outbox[Anchor(outbox, chain)].tx, outbox[Anchor(outbox, chain)].seq, k,
                             FoldedType(outbox, chain), IdOf(ks, k), FoldBase(outbox, chain))
            ELSE UnsyncedRow(nextId, IdOf(ks, k), k,
                             FoldedType(outbox, chain), IdOf(ks, k), FoldBase(outbox, chain))
    BY <1>2 DEF RowFor
  <2>2. EidFor(ks, type, k) = IF alone THEN Anchor(outbox, chain) ELSE IdOf(ks, k)
    BY <1>2 DEF EidFor
  <2> HIDE DEF r, alone, chain
  <2>3. r.base = FoldBase(outbox, chain)
    BY <2>1 DEF UnsyncedRow
  <2>4. r.tx = IF alone THEN outbox[Anchor(outbox, chain)].tx ELSE nextId
    BY <2>1 DEF UnsyncedRow
  <2>5. QED
    BY <1>2, <2>2, <2>3, <2>4 DEF r, chain, FoldBase
<1>3. QED
  BY <1>1, <1>2

-----------------------------------------------------------------------------
(* Every step keeps the chain of bases.                                    *)

LEMMA ChainIs ==
  ASSUME ChainInv
  PROVE  /\ OrderInv /\ AnswerInv /\ DeliveryInv /\ Inv /\ TypeOK /\ Ordered /\ PushType(push)
         /\ PartialFunction(outbox, Ids, Row)
         /\ BasesChain /\ TxSpans /\ OneTxEach /\ AllConfirmedYet /\ compacting = {}
BY DEF ChainInv, OrderInv, AnswerInv, DeadInv, DeliveryInv, Inv, TypeOK

(* The chain is kept by steps that leave the events alone.                 *)
LEMMA ChainKept ==
  ASSUME BasesChain, TxSpans, DOMAIN outbox' = DOMAIN outbox, heads' = heads,
         \A e \in DOMAIN outbox : SameEvent(outbox[e], outbox'[e])
  PROVE  BasesChain' /\ TxSpans'
<1>1. \A k \in Keys : RowsOf(k)' = RowsOf(k) /\ NewestOf(k)' = NewestOf(k)
  BY DEF RowsOf, NewestOf, SameEvent
<1>2. ASSUME NEW e \in DOMAIN outbox
      PROVE  /\ outbox'[e].base = outbox[e].base /\ outbox'[e].tx = outbox[e].tx
             /\ outbox'[e].key = outbox[e].key
             /\ RowsOf(outbox[e].key)' = RowsOf(outbox[e].key)
  BY DEF SameEvent, RowsOf
<1>3. ASSUME NEW e \in DOMAIN outbox', outbox'[e].base # NoEvent
      PROVE  Precedes(outbox[e].base, e)'
  <2>1. outbox[e].base # NoEvent /\ Precedes(outbox[e].base, e)
    BY <1>2, <1>3 DEF BasesChain
  <2>2. /\ outbox'[e].base = outbox[e].base /\ outbox'[e].key = outbox[e].key
        /\ {d \in DOMAIN outbox' : outbox'[d].key = outbox[e].key} = RowsOf(outbox[e].key)
    BY <1>2, <1>3 DEF RowsOf
  <2>3. QED
    BY <2>1, <2>2 DEF Precedes, RowsOf
<1>4. BasesChain'
  BY <1>1, <1>3 DEF BasesChain
<1>5. TxSpans'
  BY <1>2 DEF TxSpans
<1>6. QED
  BY <1>4, <1>5

LEMMA EditKeepsChain ==
  ASSUME ChainInv, Inv', NEW ks \in SUBSET Keys, NEW type \in MutationTypes, Mutate(ks, type)
  PROVE  BasesChain' /\ TxSpans'
<1>1. /\ OrderInv /\ Inv /\ TypeOK /\ CanMutate(ks, type) /\ BasesChain /\ TxSpans
      /\ PartialFunction(outbox, Ids, Row)
  BY ChainIs DEF Mutate
<1>2. /\ \A k \in ks :
           /\ EidFor(ks, type, k) \in RowsOf(k)' /\ EidFor(ks, type, k) \in Nat
           /\ outbox'[EidFor(ks, type, k)] = RowFor(ks, type, k)
           /\ \A f \in RowsOf(k) \ Folded(type, k) :
                f \in RowsOf(k)' /\ f \in Nat /\ f < EidFor(ks, type, k)
           /\ \A f \in RowsOf(k)' : f = EidFor(ks, type, k) \/ f \in RowsOf(k) \ Folded(type, k)
      /\ \A k \in Keys \ ks : RowsOf(k)' = RowsOf(k)
      /\ \A e \in DOMAIN outbox' :
           \/ \E k \in ks : e = EidFor(ks, type, k)
           \/ /\ e \in DOMAIN outbox /\ outbox'[e] = outbox[e]
              /\ \A k \in ks : e \notin Folded(type, k)
  BY <1>1, EditRows
<1>3. /\ \A e \in DOMAIN outbox : e \in Nat /\ outbox[e].seq = e /\ outbox[e].key \in Keys
      /\ \A e \in DOMAIN outbox : outbox[e].seq \in Ids
      /\ \A k \in Keys : \A f \in RowsOf(k) : f \in Nat /\ f \in DOMAIN outbox /\ outbox[f].key = k
  <2>1. \A r \in Row : r.key \in Keys /\ r.seq \in Ids
    BY DEF Row
  <2>2. \A e \in DOMAIN outbox : e \in Nat /\ outbox[e].seq = e /\ outbox[e] \in Row
    BY <1>1, RowsTyped
  <2>3. QED
    BY <2>1, <2>2 DEF RowsOf
<1>4. ASSUME NEW k \in ks, NEW e \in Folded(type, k), NEW f \in RowsOf(k) \ Folded(type, k)
      PROVE  f < e
  <2>1. Folded(type, k) = FoldTail(k)
    BY <1>4 DEF Folded
  <2>2. QED
    BY <1>1, <1>4, <2>1, FoldTailIsTop
<1>5. ASSUME NEW k \in ks, NEW p, p # NoEvent, p = RowFor(ks, type, k).base
      PROVE  p \in RowsOf(k) \ Folded(type, k) /\ \A f \in RowsOf(k) \ Folded(type, k) : f <= p
  <2> DEFINE chain == Folded(type, k)
  <2>1. /\ chain = {} => p = heads[k] /\ ConflictDetection
        /\ chain # {} => p = outbox[Oldest(outbox, chain)].base
    BY <1>1, <1>5, RowForBase
  <2>2. CASE chain = {}
    <3>1. p \in NewestOf(k)
      BY <1>1, <1>5, <2>1, <2>2 DEF BasesChain
    <3>2. QED
      BY <2>2, <3>1 DEF NewestOf
  <2>3. CASE chain # {}
    <3>1. chain \subseteq DOMAIN outbox /\ \A e \in chain : outbox[e].key = k
      BY <1>1, FoldedUnsynced
    <3> DEFINE o == Oldest(outbox, chain)
    <3>2. o \in chain /\ \A f \in chain : outbox[o].seq <= outbox[f].seq
      BY <1>3, <2>3, <3>1, OldestIn
    <3> HIDE DEF o, chain
    <3>3. o \in DOMAIN outbox /\ outbox[o].key = k /\ o \in Nat /\ \A f \in chain : o <= f /\ f \in Nat
      BY <1>3, <3>1, <3>2
    <3>4. Precedes(p, o)
      BY <1>1, <1>5, <2>1, <2>3, <3>3 DEF BasesChain, o
    <3>5. p \in RowsOf(k) /\ p < o /\ \A f \in RowsOf(k) : f <= p \/ o <= f
      BY <3>3, <3>4 DEF Precedes
    <3>6. p \notin chain
      BY <1>3, <3>3, <3>5
    <3>7. ASSUME NEW f \in RowsOf(k) \ chain PROVE f <= p
      <4>1. f < o /\ f \in Nat
        BY <1>3, <1>4, <3>2, <3>7 DEF chain
      <4>2. QED
        BY <3>3, <3>5, <4>1
    <3>8. QED
      BY <3>5, <3>6, <3>7 DEF chain
  <2>4. QED
    BY <2>2, <2>3
<1>6. ASSUME NEW e \in DOMAIN outbox', outbox'[e].base # NoEvent
      PROVE  Precedes(outbox[e].base, e)'
  <2> DEFINE p == outbox'[e].base
  <2>1. CASE \E k \in ks : e = EidFor(ks, type, k)
    <3>1. PICK k \in ks : e = EidFor(ks, type, k)
      BY <2>1
    <3>2. outbox'[e].key = k
      BY <1>2, <3>1 DEF RowsOf
    <3>3. p = RowFor(ks, type, k).base
      BY <1>2, <3>1
    <3> HIDE DEF p
    <3>4. p \in RowsOf(k) \ Folded(type, k) /\ \A f \in RowsOf(k) \ Folded(type, k) : f <= p
      BY <1>5, <1>6, <3>3 DEF p
    <3>5. p \in RowsOf(k)' /\ p < e /\ \A f \in RowsOf(k)' : f <= p \/ e <= f
      BY <1>2, <3>1, <3>4
    <3>6. QED
      BY <3>2, <3>5 DEF Precedes, p
  <2>2. CASE /\ e \in DOMAIN outbox /\ outbox'[e] = outbox[e]
             /\ \A k \in ks : e \notin Folded(type, k)
    <3>0. outbox[e].key \in Keys /\ e \in RowsOf(outbox[e].key) /\ e \in Nat
      BY <1>3, <2>2 DEF RowsOf
    <3>1. PICK k \in Keys : k = outbox[e].key
      BY <3>0
    <3>2. PICK b : b = outbox[e].base
      OBVIOUS
    <3>3. /\ b \in RowsOf(k) /\ b < e /\ \A f \in RowsOf(k) : f <= b \/ e <= f
      <4>1. Precedes(b, e)
        BY <1>1, <1>6, <2>2, <3>2 DEF BasesChain
      <4>2. QED
        BY <3>1, <4>1 DEF Precedes
    <3>4. CASE k \in ks
      <4>1. b \notin Folded(type, k)
        <5>1. b \in Folded(type, k) => e < b
          BY <1>4, <2>2, <3>0, <3>1, <3>4
        <5>2. QED
          BY <1>3, <3>0, <3>1, <3>3, <5>1
      <4>2. e < EidFor(ks, type, k) /\ EidFor(ks, type, k) \in Nat
        BY <1>2, <2>2, <3>0, <3>1, <3>4
      <4>3. b \in RowsOf(k)' /\ \A f \in RowsOf(k)' : f <= b \/ e <= f
        BY <1>2, <3>0, <3>1, <3>3, <3>4, <4>1, <4>2
      <4>4. QED
        BY <2>2, <3>1, <3>2, <3>3, <4>3 DEF Precedes
    <3>5. CASE k \notin ks
      <4>1. RowsOf(k)' = RowsOf(k)
        <5>1. k \in Keys \ ks
          BY <3>1, <3>5
        <5>2. QED
          BY <1>2, <5>1
      <4>2. QED
        BY <2>2, <3>1, <3>2, <3>3, <4>1 DEF Precedes
    <3>6. QED
      BY <3>4, <3>5
  <2>3. QED
    BY <1>2, <2>1, <2>2
<1>7. ASSUME NEW k \in Keys PROVE heads'[k] = NoEvent \/ (ConflictDetection /\ heads'[k] \in NewestOf(k)')
  <2>1. heads'[k] = IF ConflictDetection /\ k \in ks THEN EidFor(ks, type, k) ELSE heads[k]
    BY DEF Mutate, Stamped
  <2>2. CASE ConflictDetection /\ k \in ks
    <3>1. /\ EidFor(ks, type, k) \in RowsOf(k)'
          /\ \A f \in RowsOf(k)' : f <= EidFor(ks, type, k)
      BY <1>2, <2>2
    <3>2. QED
      BY <2>1, <2>2, <3>1 DEF NewestOf
  <2>3. CASE ~(ConflictDetection /\ k \in ks)
    <3>1. heads'[k] = heads[k]
      BY <2>1, <2>3
    <3>2. heads[k] = NoEvent \/ (ConflictDetection /\ heads[k] \in NewestOf(k))
      BY <1>1 DEF BasesChain
    <3>3. k \notin ks => NewestOf(k)' = NewestOf(k)
      BY <1>2 DEF NewestOf
    <3>4. QED
      BY <2>3, <3>1, <3>2, <3>3
  <2>4. QED
    BY <2>2, <2>3
<1>8. ASSUME NEW e \in DOMAIN outbox' PROVE outbox'[e].tx <= e /\ e < outbox'[e].tx + MaxTxRows
  <2>1. CASE \E k \in ks : e = EidFor(ks, type, k)
    <3>1. PICK k \in ks : e = EidFor(ks, type, k)
      BY <2>1
    <3> DEFINE chain == Folded(type, k)
               t == RowFor(ks, type, k).tx
    <3>2. \/ t = nextId /\ e = IdOf(ks, k)
          \/ chain # {} /\ e = Anchor(outbox, chain) /\ t = outbox[e].tx
      BY <1>1, <3>1, RowForBase
    <3>3. outbox'[e].tx = t
      BY <1>2, <3>1
    <3> HIDE DEF t, chain
    <3>4. CASE t = nextId /\ e = IdOf(ks, k)
      <4>1. /\ IdOf(ks, k) \in Nat /\ nextId \in Nat /\ nextId <= IdOf(ks, k)
            /\ IdOf(ks, k) < nextId + Cardinality(ks)
        <5>1. /\ nextId \in Ids /\ IdOf(ks, k) \in Ids /\ IdOf(ks, k) >= nextId
              /\ IdOf(ks, k) < nextId + Cardinality(ks)
          BY <1>1, IdOfType
        <5>2. Ids \subseteq Nat
          BY BoundsAssumption DEF Ids
        <5>3. QED
          BY <5>1, <5>2
      <4>2. Cardinality(ks) <= MaxTxRows /\ MaxTxRows \in Nat /\ Cardinality(ks) \in Nat
        <5>1. IsFiniteSet(Keys)
          BY FS_Interval, BoundsAssumption DEF Keys
        <5>2. QED
          BY <1>1, <5>1, FS_Subset, FS_CardinalityType, BoundsAssumption DEF CanMutate
      <4>3. QED
        BY <3>3, <3>4, <4>1, <4>2
    <3>5. CASE chain # {} /\ e = Anchor(outbox, chain) /\ t = outbox[e].tx
      <4>1. e \in DOMAIN outbox
        <5>1. chain \subseteq DOMAIN outbox
          BY <1>1, FoldedUnsynced DEF chain
        <5>2. QED
          BY <1>3, <3>5, <5>1, AnchorIn
      <4>2. QED
        BY <1>1, <3>3, <3>5, <4>1 DEF TxSpans
    <3>6. QED
      BY <3>2, <3>4, <3>5
  <2>2. CASE e \in DOMAIN outbox /\ outbox'[e] = outbox[e]
    BY <1>1, <2>2 DEF TxSpans
  <2>3. QED
    BY <1>2, <2>1, <2>2
<1>9. QED
  BY <1>6, <1>7, <1>8 DEF BasesChain, TxSpans

-----------------------------------------------------------------------------
(* The server sees the base of each event at the head of its row, or right *)
(* before the event in its own group.                                      *)
LEMMA NothingConflicts ==
  ASSUME ChainInv, push.phase = "waiting", NEW g \in push.open, g = Head1(push.open),
         g \subseteq InFlight
  PROVE  Conflicting(g) = {}
<1>1. /\ OrderInv /\ AnswerInv /\ DeliveryInv /\ Inv /\ Ordered /\ LogInOrder
      /\ BasesChain /\ AllConfirmedYet /\ StoredMatches /\ ConfirmedIsStored /\ SyncedIsStored
  BY ChainIs DEF Ordered, AnswerInv, Answered, Inv
<1>2. /\ Eids(g) \cap DOMAIN log = {} /\ Eids(g) \subseteq Undecided
  BY <1>1, OpenIsFresh DEF Undecided, Decided
<1>3. Below(Eids(g), Undecided \ Eids(g)) /\ Below(DOMAIN log, Undecided)
  BY <1>1, ServedIsFirst DEF LogInOrder
<1>4. Fresh(g) = g
  BY <1>2 DEF Fresh, Eids
<1>5. /\ \A e \in DOMAIN outbox : e \in Nat
      /\ \A e \in DOMAIN log : e \in Nat /\ log[e].pos \in Nat
  BY <1>1, RowsTyped
<1>6. ASSUME NEW b \in g
      PROVE  /\ b.eid \in DOMAIN outbox /\ b.seq = b.eid /\ b.eid \in Eids(g) /\ b.eid \in Nat
             /\ b.key = outbox[b.eid].key /\ b.base = outbox[b.eid].base
  <2>1. b.eid \in DOMAIN outbox /\ b = Body(b.eid)
    BY <1>1, <1>6 DEF Inv, InFlightStable, Unsynced
  <2>2. b.key = outbox[b.eid].key /\ b.base = outbox[b.eid].base
    BY <2>1 DEF Body
  <2>3. QED
    BY <1>1, <1>6, <2>1, <2>2, InHandIs DEF Eids
<1>7. ASSUME NEW p \in DOMAIN outbox, p \notin DOMAIN log, NEW b \in g, p < b.eid
      PROVE  \E d \in g : d.eid = p
  <2>1. p \in Undecided
    BY <1>1, <1>7 DEF Undecided, Decided, Unsynced, SyncedIsStored, AllConfirmedYet, ConfirmedIsStored
  <2>2. ~(b.eid < p)
    BY <1>5, <1>6, <1>7
  <2>3. p \in Eids(g)
    BY <1>3, <1>6, <2>1, <2>2 DEF Below
  <2>4. QED
    BY <2>3 DEF Eids
<1>8. ASSUME NEW b \in g PROVE ~InConflict(g, b)
  <2> DEFINE p == b.base
             k == b.key
  <2> SUFFICES ASSUME p # NoEvent PROVE p \in HeadSeen(g, b)
    BY DEF InConflict
  <2>1. /\ p \in DOMAIN outbox /\ outbox[p].key = k /\ p < b.eid
        /\ \A f \in DOMAIN outbox : outbox[f].key = k => f <= p \/ b.eid <= f
    <3>1. Precedes(outbox[b.eid].base, b.eid)
      BY <1>1, <1>6 DEF BasesChain
    <3>2. QED
      BY <1>6, <3>1 DEF Precedes, RowsOf
  <2> HIDE DEF p, k
  <2>2. p \in DOMAIN log \/ \E d \in g : d.eid = p
    BY <1>7, <2>1
  <2>3. \A d \in g : d.eid = p => d \in Earlier(g, b)
    BY <1>4, <1>6, <2>1 DEF Earlier, k
  <2>4. CASE Earlier(g, b) = {}
    <3>1. p \in DOMAIN log
      BY <2>2, <2>3, <2>4
    <3>2. log[p].key = k
      BY <1>1, <2>1, <3>1 DEF StoredMatches
    <3>3. ASSUME NEW f \in DOMAIN log, log[f].key = k PROVE log[f].pos <= log[p].pos
      <4>1. f \in DOMAIN outbox /\ outbox[f].key = k
        BY <1>1, <3>3 DEF StoredMatches
      <4>2. f < b.eid
        BY <1>2, <1>3, <1>6, <3>3 DEF Below
      <4>3. f <= p
        BY <1>5, <1>6, <2>1, <4>1, <4>2
      <4>4. f = p \/ f < p
        BY <1>5, <2>1, <4>1, <4>3
      <4>5. f = p \/ log[f].pos < log[p].pos
        BY <1>1, <3>1, <3>3, <4>4 DEF LogInOrder
      <4>6. QED
        BY <1>5, <3>1, <3>3, <4>5
    <3>4. p \in HeadOf(k)
      BY <3>1, <3>2, <3>3 DEF HeadOf
    <3>5. QED
      BY <2>4, <3>4 DEF HeadSeen, k
  <2>5. CASE Earlier(g, b) # {}
    <3>1. \A c \in Earlier(g, b) : /\ c \in g /\ c.eid \in DOMAIN outbox /\ outbox[c.eid].key = k
                                   /\ c.eid < b.eid /\ c.seq = c.eid /\ c.eid \in Nat
      BY <1>4, <1>6 DEF Earlier, k
    <3>2. \A c \in Earlier(g, b) : c.eid <= p
      BY <1>5, <1>6, <2>1, <3>1
    <3>3. p \notin DOMAIN log
      <4>1. PICK c \in Earlier(g, b) : TRUE
        BY <2>5
      <4>2. c.eid \in Undecided /\ c.eid <= p /\ c.eid \in Nat
        BY <1>2, <1>6, <3>1, <3>2, <4>1
      <4>3. p \in DOMAIN log => p < c.eid
        BY <1>3, <4>2 DEF Below
      <4>4. QED
        BY <1>5, <2>1, <4>2, <4>3
    <3>4. PICK d \in g : d.eid = p
      BY <2>2, <3>3
    <3>5. d \in Earlier(g, b) /\ \A f \in Earlier(g, b) : f.seq <= d.seq
      BY <1>6, <2>3, <3>1, <3>2, <3>4
    <3>6. QED
      BY <2>5, <3>4, <3>5 DEF HeadSeen
  <2>6. QED
    BY <2>4, <2>5 DEF p
<1>9. QED
  BY <1>4, <1>8 DEF Conflicting, Earlier

LEMMA ServeKeepsChain ==
  ASSUME ChainInv, Unrefused, ServePush
  PROVE  OneTxEach' /\ AllConfirmedYet'
<1>1. OrderInv /\ Inv /\ OneTxEach /\ AllConfirmedYet
  BY ChainIs
<1>2. PICK g \in push.open :
        /\ g = Head1(push.open) /\ g # {} /\ g \in push.sent /\ g \subseteq InFlight
        /\ \E result \in ServerResults(g, Faults) :
             /\ log' = result.log
             /\ push' = [push EXCEPT !.open = push.open \ {g},
                                     !.answer = Override(push.answer, result.answer)]
             /\ DOMAIN result.answer = Eids(g)
             /\ push'.open = push.open \ {g}
             /\ push'.answer = Override(push.answer, result.answer)
             /\ DOMAIN push'.answer = DOMAIN push.answer \cup Eids(g)
             /\ push'.phase = push.phase /\ push'.queue = push.queue /\ push'.sent = push.sent
             /\ push'.todo = push.todo /\ push'.acc = push.acc
             /\ push'.oversized = push.oversized /\ Posted' = Posted
  BY <1>1, ServeIs
<1>3. PICK result \in ServerResults(g, Faults) :
        /\ push'.answer = Override(push.answer, result.answer)
        /\ push'.queue = push.queue /\ push'.acc = push.acc
        /\ push'.oversized = push.oversized /\ Posted' = Posted
  BY <1>2
<1>4. Conflicting(g) = {}
  BY <1>2, NothingConflicts DEF ServePush
<1>5. result = Result(Appended(g), AllConfirmed(g))
  BY <1>4 DEF ServerResults, Unrefused
<1>6. \A e \in DOMAIN result.answer : result.answer[e] = "confirmed"
  BY <1>5 DEF Result, AllConfirmed
<1>7. AllConfirmedYet'
  BY <1>1, <1>3, <1>6 DEF AllConfirmedYet, Override
<1>8. OneTxEach'
  BY <1>1, <1>3 DEF OneTxEach
<1>9. QED
  BY <1>7, <1>8

-----------------------------------------------------------------------------
(* No group is too large for the client or the server.                     *)

LEMMA PlanKeepsChain ==
  ASSUME ChainInv, Unrefused, PlanPush
  PROVE  OneTxEach' /\ AllConfirmedYet'
<1> DEFINE events == {Body(e) : e \in Due}
<1>1. /\ OrderInv /\ Inv /\ TxSpans /\ PartialFunction(outbox, Ids, Row) /\ Due \subseteq DOMAIN outbox
  BY ChainIs DEF Due, Unsynced
<1>2. \A b \in events : b.eid \in DOMAIN outbox /\ b = Body(b.eid) /\ b.seq = b.eid /\ b.seq \in Nat
  BY <1>1, RowsTyped DEF Body
<1> HIDE DEF events
<1>3. ASSUME NEW g \in Planned
      PROVE  g # {} /\ g \subseteq events /\ \A b, c \in g : b.tx = c.tx
  <2>1. PICK b \in events : g = {c \in events : SameRun(events, b, c)}
    BY DEF Planned, Groups, events
  <2>2. b \in g
    BY <1>2, <2>1 DEF SameRun
  <2>3. \A c \in g : c.tx = b.tx
    BY <2>1 DEF SameRun
  <2>4. QED
    BY <2>1, <2>2, <2>3
<1>4. ASSUME NEW g \in Planned PROVE g \notin Oversized(Planned)
  <2>1. \A b \in g : b.eid \in DOMAIN outbox /\ b = Body(b.eid)
    BY <1>2, <1>3
  <2>2. Cardinality(g) \in Nat /\ Cardinality(g) <= MaxTxRows
    BY <1>1, <1>3, <2>1, GroupIsSmall
  <2>3. ~(Cardinality(g) > MaxPushSize)
    BY <2>2, BoundsAssumption DEF Unrefused
  <2>4. QED
    BY <2>3 DEF Oversized
<1>5. Oversized(Planned) = {}
  BY <1>4 DEF Oversized
<1>6. /\ push'.queue = Planned \ Oversized(Planned) /\ Posted' = {}
      /\ push'.oversized = Eids(Events(Oversized(Planned)))
      /\ DOMAIN push'.answer = {} /\ DOMAIN push'.acc = {}
  BY PlanIs
<1>7. push'.oversized = {}
  BY <1>5, <1>6 DEF Eids, Events
<1>8. QED
  BY <1>3, <1>6, <1>7 DEF OneTxEach, AllConfirmedYet

LEMMA RefuseKeepsChain ==
  ASSUME ChainInv, Unrefused, RefuseTooLarge
  PROVE  OneTxEach' /\ AllConfirmedYet'
<1>1. /\ OrderInv /\ DeliveryInv /\ Inv /\ PushType(push) /\ TxSpans /\ OneTxEach /\ AllConfirmedYet
  BY ChainIs
<1>2. Cardinality(push.sent) # 1
  <2> SUFFICES ASSUME Cardinality(push.sent) = 1 PROVE FALSE
    OBVIOUS
  <2>0. RequestSize > ServerLimit
    BY DEF RefuseTooLarge
  <2>1. PICK g \in push.sent : TRUE
    <3>1. push.sent # {}
      BY FS_EmptySet
    <3>2. QED
      BY <3>1
  <2>2. IsFiniteSet(push.sent)
    <3>1. push.sent \in SUBSET SUBSET InFlight
      BY <1>1, GroupFirst DEF Posted
    <3>2. IsFiniteSet(SUBSET InFlight)
      BY <1>1, FlightIsFinite, FS_SUBSET
    <3>3. QED
      BY <3>1, <3>2, FS_Subset
  <2>3. push.sent = {g}
    BY <2>1, <2>2, FS_Singleton
  <2>4. Events(push.sent) = g
    BY <2>3 DEF Events
  <2>5. g \in push.queue \cup Posted
    BY <2>1 DEF Posted
  <2>6. g # {} /\ g \subseteq InFlight
    BY <1>1, <2>5, GroupFirst
  <2>7. \A b \in g : b.eid \in DOMAIN outbox /\ b = Body(b.eid)
    BY <1>1, <2>6 DEF Inv, InFlightStable, Unsynced
  <2>8. \A b, c \in g : b.tx = c.tx
    BY <1>1, <2>5 DEF OneTxEach
  <2>9. Cardinality(g) \in Nat /\ Cardinality(g) <= MaxTxRows
    BY <1>1, <2>6, <2>7, <2>8, GroupIsSmall
  <2>10. QED
    BY <2>0, <2>4, <2>9, BoundsAssumption DEF Unrefused, RequestSize
<1>3. /\ push'.queue = push.queue /\ push'.acc = push.acc /\ push'.answer = push.answer
      /\ push'.oversized = push.oversized /\ Posted' = Posted
  BY <1>1, <1>2, RefuseIs
<1>4. QED
  BY <1>1, <1>3 DEF OneTxEach, AllConfirmedYet

-----------------------------------------------------------------------------
(* The results of a batch, and the steps between batches.                  *)

LEMMA PostingKeepsChain ==
  ASSUME OneTxEach, push' = Posting(push) \/ push' = Resting("release") \/ push' = IdlePush
  PROVE  OneTxEach' /\ AllConfirmedYet'
<1>1. CASE push' = Posting(push)
  <2>1. /\ push'.oversized = {} /\ DOMAIN push'.answer = {} /\ DOMAIN push'.acc = {}
        /\ push'.queue \cup Posted' \subseteq push.queue
    BY <1>1, PostingIs
  <2>2. QED
    BY <2>1 DEF OneTxEach, AllConfirmedYet
<1>2. CASE push' = Resting("release") \/ push' = IdlePush
  <2>1. /\ push'.oversized = {} /\ DOMAIN push'.answer = {} /\ DOMAIN push'.acc = {}
        /\ push'.queue \cup Posted' = {}
    BY <1>2, RestingIs DEF IdlePush
  <2>2. QED
    BY <2>1 DEF OneTxEach, AllConfirmedYet
<1>3. QED
  BY <1>1, <1>2

LEMMA GateKeepsChain ==
  ASSUME ChainInv, ParkOversized \/ ApplyBatch \/ ReleaseReserved
  PROVE  BasesChain' /\ TxSpans' /\ OneTxEach' /\ AllConfirmedYet'
<1>1. /\ DeliveryInv /\ BasesChain /\ TxSpans /\ OneTxEach /\ AllConfirmedYet
      /\ heads \in [Keys -> Ids \cup {NoEvent}]
  BY ChainIs DEF TypeOK
<1>2. OneTxEach' /\ AllConfirmedYet'
  <2>1. push' = Posting(push) \/ push' = Resting("release") \/ push' = IdlePush
    BY DEF ParkOversized, ApplyBatch, ReleaseReserved
  <2>2. QED
    BY <1>1, <2>1, PostingKeepsChain
<1>3. /\ DOMAIN outbox' = DOMAIN outbox /\ heads' = heads
      /\ \A e \in DOMAIN outbox : SameEvent(outbox[e], outbox'[e])
  <2>1. CASE ParkOversized
    <3>1. /\ push.oversized = {} /\ DOMAIN outbox' = DOMAIN outbox \ push.oversized
          /\ \A e \in DOMAIN outbox' : outbox'[e] = outbox[e]
      BY <1>1, <2>1, ParkOversizedWrites DEF AllConfirmedYet
    <3>2. QED
      BY <2>1, <3>1 DEF ParkOversized, SameEvent
  <2>2. CASE ApplyBatch
    <3> DEFINE P == DOMAIN push.acc
               yes == {e \in P : push.acc[e] = "confirmed"}
    <3>1. /\ P \subseteq Unsynced \cap reserved
          /\ Gone(P) \subseteq P \ yes
          /\ DOMAIN outbox' = DOMAIN outbox \ Gone(P)
          /\ \A e \in DOMAIN outbox' : SameEvent(outbox[e], outbox'[e])
      BY <1>1, <2>2, ApplyBatchWrites
    <3>2. Gone(P) = {}
      BY <1>1, <3>1 DEF AllConfirmedYet
    <3>3. P \cap DOMAIN outbox = P
      BY <3>1 DEF Unsynced
    <3>4. heads' = RestoredHeads(ConflictsIn(P))
      BY <2>2, <3>3 DEF ApplyBatch
    <3>5. ConflictsIn(P) = {}
      BY <3>2 DEF ConflictsIn
    <3> HIDE DEF P
    <3>6. heads' = [k \in Keys |-> heads[k]]
      BY <3>4, <3>5 DEF RestoredHeads
    <3>7. heads' = heads
      BY <1>1, <3>6
    <3>8. QED
      BY <3>1, <3>2, <3>7
  <2>3. CASE ReleaseReserved
    BY <2>3 DEF ReleaseReserved, SameEvent
  <2>4. QED
    BY <2>1, <2>2, <2>3
<1>4. BasesChain' /\ TxSpans'
  BY <1>1, <1>3, ChainKept
<1>5. QED
  BY <1>2, <1>4

LEMMA ReplyKeepsChain ==
  ASSUME ChainInv, ReceiveReply
  PROVE  OneTxEach' /\ AllConfirmedYet'
<1> DEFINE acc == Override(push.acc, push.answer)
<1>1. PushType(push) /\ OneTxEach /\ AllConfirmedYet /\ push' = Settled(push, acc)
  BY ChainIs DEF ReceiveReply
<1>2. \A e \in DOMAIN acc : acc[e] = "confirmed"
  BY <1>1 DEF Override, AllConfirmedYet
<1> HIDE DEF acc
<1>3. /\ push'.queue = push.queue /\ push'.oversized = {} /\ DOMAIN push'.answer = {}
      /\ push'.acc = acc
  BY <1>1, SettledIs
<1>4. Posted' \subseteq Posted
  BY <1>1, SettledPosted DEF Posted
<1>5. QED
  BY <1>1, <1>2, <1>3, <1>4 DEF OneTxEach, AllConfirmedYet

-----------------------------------------------------------------------------
(* One device writing alone never conflicts with itself.                   *)

LEMMA NextChained ==
  ASSUME Unrefused, ChainInv, [Next]_vars
  PROVE  ChainInv'
<1>1. /\ InTurn /\ Steady
  BY DEF Unrefused, InTurn
<1>2. /\ OrderInv /\ OrderInv' /\ Inv' /\ TypeOK /\ BasesChain /\ TxSpans /\ OneTxEach
      /\ AllConfirmedYet /\ compacting = {} /\ AnswerInv /\ Ordered
  <2>1. OrderInv'
    BY <1>1, ChainIs, NextOrdered
  <2>2. OrderInv' => Inv'
    BY DEF OrderInv, AnswerInv, DeadInv, DeliveryInv
  <2>3. QED
    BY <2>1, <2>2, ChainIs
<1>3. CASE Edit
  <2>1. PICK ks \in SUBSET Keys, type \in MutationTypes : Mutate(ks, type)
    BY <1>3 DEF Edit
  <2>2. BasesChain' /\ TxSpans'
    BY <1>2, <2>1, EditKeepsChain
  <2>3. UNCHANGED <<push, compacting>>
    BY <2>1 DEF Mutate
  <2>4. OneTxEach' /\ AllConfirmedYet'
    BY <1>2, <2>3 DEF OneTxEach, AllConfirmedYet, Posted
  <2>5. QED
    BY <1>2, <2>2, <2>3, <2>4 DEF ChainInv
<1>4. CASE ParkOversized \/ ApplyBatch \/ ReleaseReserved
  <2>1. BasesChain' /\ TxSpans' /\ OneTxEach' /\ AllConfirmedYet'
    BY <1>4, GateKeepsChain
  <2>2. compacting' = compacting
    BY <1>4 DEF ParkOversized, ApplyBatch, ReleaseReserved
  <2>3. QED
    BY <1>2, <2>1, <2>2 DEF ChainInv
<1>5. CASE PlanPush
  <2>1. OneTxEach' /\ AllConfirmedYet'
    BY <1>5, PlanKeepsChain
  <2>2. DeliveryInv
    BY ChainIs
  <2>3. /\ DOMAIN outbox' = DOMAIN outbox
        /\ \A e \in DOMAIN outbox : SameEvent(outbox[e], outbox'[e])
    BY <1>5, <2>2, PlanPushWrites
  <2>4. UNCHANGED <<heads, compacting>>
    BY <1>5 DEF PlanPush
  <2>5. BasesChain' /\ TxSpans'
    BY <1>2, <2>3, <2>4, ChainKept
  <2>6. QED
    BY <1>2, <2>1, <2>4, <2>5 DEF ChainInv
<1>6. CASE ServePush \/ ReceiveReply \/ RefuseTooLarge
  <2>1. OneTxEach' /\ AllConfirmedYet'
    BY <1>6, ServeKeepsChain, ReplyKeepsChain, RefuseKeepsChain
  <2>2. UNCHANGED <<outbox, heads, compacting>>
    BY <1>6 DEF ServePush, ReceiveReply, RefuseTooLarge
  <2>3. BasesChain' /\ TxSpans'
    BY <1>2, <2>2, ChainKept DEF SameEvent
  <2>4. QED
    BY <1>2, <2>1, <2>2, <2>3 DEF ChainInv
<1>7. CASE UNCHANGED vars
  <2>1. UNCHANGED <<outbox, heads, compacting, push>>
    BY <1>7 DEF vars
  <2>2. BasesChain' /\ TxSpans'
    BY <1>2, <2>1, ChainKept DEF SameEvent
  <2>3. OneTxEach' /\ AllConfirmedYet'
    BY <1>2, <2>1 DEF OneTxEach, AllConfirmedYet, Posted
  <2>4. QED
    BY <1>2, <2>1, <2>2, <2>3 DEF ChainInv
<1>8. ~Compact
  BY <1>2 DEF Compact, StartCompact, CompactKey, Unrefused
<1>9. ~TransportError /\ ~ServeLate /\ ~Crashes
  BY <1>1, <1>2, NoCrash DEF InTurn, TransportError, ServeLate, AnswerInv, Answered
<1>10. ~BackoffTick
  <2>1. \A e \in DOMAIN outbox : ~(outbox[e].wait > 0)
    BY <1>2 DEF Ordered, Rested
  <2>2. QED
    BY <2>1 DEF BackoffTick
<1>11. QED
  BY <1>3, <1>4, <1>5, <1>6, <1>7, <1>8, <1>9, <1>10 DEF Next, Pushing

(* Without faults no push is answered with a conflict: whatever was folded *)
(* on write, however the queue was cut into batches.                       *)
THEOREM NoConflictWithItself ==
  ASSUME Unrefused
  PROVE  Spec => []NoSelfConflict
<1>1. InTurn
  BY DEF Unrefused, InTurn
<1>2. Init => compacting = {} /\ BasesChain /\ TxSpans /\ OneTxEach /\ AllConfirmedYet
  <2> SUFFICES ASSUME Init
               PROVE  compacting = {} /\ BasesChain /\ TxSpans /\ OneTxEach /\ AllConfirmedYet
    OBVIOUS
  <2>1. /\ DOMAIN outbox = {} /\ push = IdlePush /\ compacting = {}
        /\ \A k \in Keys : heads[k] = NoEvent
    BY DEF Init
  <2>2. /\ push.queue = {} /\ push.oversized = {} /\ push.todo = <<>>
        /\ push.sent = {} /\ DOMAIN push.answer = {} /\ DOMAIN push.acc = {}
    BY <2>1, NothingYet DEF IdlePush, Resting
  <2>3. Posted = {}
    BY <2>2 DEF Posted
  <2>4. QED
    BY <2>1, <2>2, <2>3 DEF BasesChain, TxSpans, OneTxEach, AllConfirmedYet
<1>3. Spec => []OrderInv
  BY <1>1, OrderInvariance
<1>4. Init /\ OrderInv => ChainInv
  BY <1>2 DEF ChainInv
<1>5. ChainInv /\ [Next]_vars => ChainInv'
  BY NextChained
<1>6. ChainInv => NoSelfConflict
  BY DEF ChainInv, AllConfirmedYet, NoSelfConflict
<1>7. QED
  BY <1>3, <1>4, <1>5, <1>6, PTL DEF Spec
=============================================================================
