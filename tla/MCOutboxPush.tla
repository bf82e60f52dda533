---------------------------- MODULE MCOutboxPush ----------------------------
(***************************************************************************)
(* Instances of OutboxPush for TLC: the fault sets its configurations      *)
(* choose from.                                                            *)
(***************************************************************************)
EXTENDS OutboxPush

NoFaults     == {}
AllFaults    == FaultKinds
ServerFaults == {"transient", "reject"}
LossyNetwork == {"transport"}
LateNetwork  == {"transport", "late"}
FlakyNetwork == {"transport", "transient"}

(* Rows are told apart by their numbers alone, so an instance may look at  *)
(* those behaviours only that write them for the first time in the order   *)
(* of their numbers.  What that leaves out besides renamings is the order  *)
(* of rows within a later transaction.                                     *)
FirstUseInOrder ==
  \A k \in Keys \ {1} : local[k].val # NoEvent => local[k - 1].val # NoEvent
=============================================================================
