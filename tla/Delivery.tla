------------------------------ MODULE Delivery ------------------------------
(***************************************************************************)
(* What an outbox promises, whatever it does with batches, retries, folds  *)
(* and crashes.  An event id is drawn once.  It is queued on the device    *)
(* until the server has stored it and said so, until it is parked as a     *)
(* dead letter, or until a later edit of the same row takes its place.     *)
(* The server stores an event at most once and never drops it, it only     *)
(* stores events the device drew, and the device never takes an event for  *)
(* confirmed that the server does not hold.                                *)
(*                                                                         *)
(* OutboxPush (the collection client) and DrizzlePush (the drizzle client) *)
(* both implement it.                                                      *)
(***************************************************************************)
CONSTANT Ids          \* every event id there is

VARIABLES
  drawn,      \* ids handed out to edits so far
  queued,     \* ids of the outbox rows that wait for the server
  confirmed,  \* ids of the outbox rows marked synced
  parked,     \* ids with a dead letter
  stored      \* ids the server holds

dvars == <<drawn, queued, confirmed, parked, stored>>

Init == drawn = {} /\ queued = {} /\ confirmed = {} /\ parked = {} /\ stored = {}

(* Edits draw fresh ids and queue them; a fold or a compaction rewrites    *)
(* what is still queued.  Nothing that left the queue comes back.          *)
Write ==
  /\ drawn'  \in {drawn \cup fresh : fresh \in SUBSET (Ids \ drawn)}
  /\ queued' \in SUBSET (queued \cup (drawn' \ drawn))
  /\ UNCHANGED <<confirmed, parked, stored>>

(* A request, or one that was given up on, reaches the server.             *)
Store ==
  /\ stored' \in {stored \cup new : new \in SUBSET (drawn \ stored)}
  /\ UNCHANGED <<drawn, queued, confirmed, parked>>

(* An answer is applied: some queued events are confirmed, others parked.  *)
(* A crash in between may leave an event both parked and queued.           *)
Settle ==
  /\ \E yes \in SUBSET (queued \cap stored) :
     \E no \in SUBSET (queued \ yes) :
        /\ confirmed' = confirmed \cup yes
        /\ parked' = parked \cup no
        /\ queued' \in {(queued \ yes) \ gone : gone \in SUBSET no}
  /\ UNCHANGED <<drawn, stored>>

Next == Write \/ Store \/ Settle

Spec == Init /\ [][Next]_dvars
=============================================================================
