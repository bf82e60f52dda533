------------------------------ MODULE TxGroups ------------------------------
(***************************************************************************)
(* Transaction groups of a set of event bodies: both clients cut their due *)
(* events, and the server the request, into runs of adjacent events with   *)
(* one txId, in localSeq order.                                            *)
(***************************************************************************)
EXTENDS Naturals, FiniteSets

First(g) == CHOOSE b \in g : \A c \in g : b.seq <= c.seq

(* Adjacent events with one txId, in localSeq order.                       *)
SameRun(events, b, c) ==
  /\ b.tx = c.tx
  /\ \A d \in events : \/ d.seq < b.seq /\ d.seq < c.seq
                       \/ d.seq > b.seq /\ d.seq > c.seq
                       \/ d.tx = b.tx
(* Mutant: every event is a group of its own.                              *)
Singletons(events) == {{b} : b \in events}

Groups(events) == {{c \in events : SameRun(events, b, c)} : b \in events}

Events(groups) == UNION groups

UpTo(groups, g) == {h \in groups : First(h).seq <= First(g).seq}
Head1(groups) == CHOOSE g \in groups : \A h \in groups : First(g).seq <= First(h).seq
=============================================================================
