------------------------------ MODULE EventLog ------------------------------
(***************************************************************************)
(* The sync server: one append-only table of events keyed by eventId, in   *)
(* the order of the global sequence number it assigns.  A push is served   *)
(* one transaction group at a time, each group in one database             *)
(* transaction that commits or rolls back as a unit                        *)
(* (remotePushEvents in the example server, and the Postgres reference).   *)
(*                                                                         *)
(* An event on the wire is a record                                        *)
(*   [eid, tx, key, type, val, base, seq]                                  *)
(* where val names the payload (the user edit it carries), base is the     *)
(* baseVersion (NoEvent for null) and seq is its place in the request.     *)
(***************************************************************************)
EXTENDS Naturals, FiniteSets

VARIABLE log          \* eventId -> the stored event, a partial function

NoEvent == 0

MutationTypes == {"insert", "update", "delete"}

Eids(events) == {b.eid : b \in events}

(* The table row: the event as it was first received and its globalSeq.    *)
StoredEvent(b, pos) ==
  [tx |-> b.tx, key |-> b.key, type |-> b.type, val |-> b.val, pos |-> pos]

Known(group) == {b \in group : b.eid \in DOMAIN log}
Fresh(group) == {b \in group : b.eid \notin DOMAIN log}

(* The newest stored event of a row, as a set with at most one member.     *)
HeadOf(k) ==
  {e \in DOMAIN log : /\ log[e].key = k
                      /\ \A f \in DOMAIN log :
                            log[f].key = k => log[f].pos <= log[e].pos}

(* The group's own fresh events on the row of b, inserted before b.        *)
Earlier(group, b) == {c \in Fresh(group) : c.key = b.key /\ c.seq < b.seq}

(* The newest event of the row when the server looks at b, as a set with   *)
(* at most one member.                                                     *)
HeadSeen(group, b) ==
  LET earlier == Earlier(group, b)
  IN  IF earlier = {} THEN HeadOf(b.key)
      ELSE {c.eid : c \in {d \in earlier : \A f \in earlier : f.seq <= d.seq}}

(* Mutant: the server does not look at baseVersion.                        *)
NeverInConflict(group, b) == FALSE

(* Only an event that carries a baseVersion is checked, and only against a *)
(* row the server has heard of.                                            *)
InConflict(group, b) ==
  b.base # NoEvent /\ HeadSeen(group, b) # {} /\ b.base \notin HeadSeen(group, b)

(* An event based on a refused member of its own group is refused too; one *)
(* that is based on nothing is not checked, and falls with its siblings.   *)
Conflicting(group) ==
  {b \in Fresh(group) : /\ b.base # NoEvent
                        /\ \E c \in Earlier(group, b) \cup {b} : InConflict(group, c)}

(* Every fresh event of the group gets the next sequence numbers, in the   *)
(* order of the request; an event already stored keeps its first payload.  *)
Appended(group) ==
  [e \in DOMAIN log \cup Eids(group) |->
     IF e \in DOMAIN log THEN log[e]
     ELSE LET b == CHOOSE c \in group : c.eid = e
          IN  StoredEvent(b, Cardinality(DOMAIN log)
                  + Cardinality(Eids({c \in Fresh(group) : c.seq <= b.seq})))]

LogInit == log = [e \in {} |-> NoEvent]

(***************************************************************************)
(* What the server answers for one group: eventId -> outcome.              *)
(***************************************************************************)
AllConfirmed(group) == [e \in Eids(group) |-> "confirmed"]
AllTransient(group) == [e \in Eids(group) |-> "retry"]

(* A group with a refused member is rolled back: the members already       *)
(* stored are confirmed, the refused ones fail with their own code and     *)
(* their fresh siblings with TX_ABORTED.                                   *)
Aborted(group, refused, code) ==
  [e \in Eids(group) |-> IF e \in DOMAIN log     THEN "confirmed"
                         ELSE IF e \in Eids(refused) THEN code
                         ELSE "rejected"]

(* The log a group leaves and the answer it gets.                          *)
Result(newLog, answer) == [log |-> newLog, answer |-> answer]

(* Mutant: a refused group is not rolled back.                             *)
ResultsWithoutRollback(group, faults) ==
  {Result(Appended(group), AllConfirmed(group))}
    \cup (IF "reject" \in faults
          THEN {Result(Appended(group), Aborted(group, {b}, "rejected")) : b \in Fresh(group)}
          ELSE {})

(* One database transaction, as the log it leaves and the answer it gives: *)
(* commit, abort on a conflict, or, when faults allow it, a refusal by the *)
(* application's own validation, or an exception (a busy or failing        *)
(* database) reported as TRANSIENT.                                        *)
ServerResults(group, faults) ==
  LET refused == Conflicting(group)
  IN  (IF refused = {} THEN {Result(Appended(group), AllConfirmed(group))}
       ELSE {Result(log, Aborted(group, refused, "conflict"))})
      \cup (IF "reject" \in faults
            THEN {Result(log, Aborted(group, {b}, "rejected")) : b \in Fresh(group)}
            ELSE {})
      \cup (IF "transient" \in faults THEN {Result(log, AllTransient(group))} ELSE {})
=============================================================================
