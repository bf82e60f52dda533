------------------------------- MODULE MCTabs -------------------------------
(***************************************************************************)
(* Instances of Tabs for TLC.                                              *)
(***************************************************************************)
EXTENDS Tabs

TwoTabs == {1, 2}

Config(locks, events, wait, js, eds, resets, others, swaps, fs, crash) ==
  [lock |-> locks, minEvents |-> events, delay |-> wait, jobs |-> js, edits |-> eds,
   resets |-> resets, others |-> others, swaps |-> swaps, faults |-> fs, crashes |-> crash]

Both(js) == [t \in TwoTabs |-> js]

(* Two tabs that sync, on a server that refuses and fails.                 *)
Syncing   == Config(TRUE, 0, 0, Both({"sync"}), 2, 0, 0, 0, 1, 1)
(* Without a lock, and with a reset.                                       *)
Lockless  == Config(FALSE, 0, 0, Both({"sync"}), 2, 0, 0, 0, 1, 0)
Unguarded == Config(FALSE, 0, 0, Both({"sync", "discarding reset"}), 1, 1, 0, 0, 0, 0)
(* syncBatch holds pushes.                                                 *)
Held      == Config(TRUE, 2, 2, Both({"sync"}), 2, 0, 0, 0, 1, 0)
(* Dead letters are retried and discarded.                                 *)
Retrying  == Config(TRUE, 0, 0, Both({"sync", "retry", "discard"}), 1, 0, 1, 0, 2, 0)
(* The replica is reset, while edits are made, while synced events are     *)
(* pruned and a tab is closed, while a dead letter is retried.             *)
Resets    == Config(TRUE, 0, 0, Both({"sync", "reset", "discarding reset"}), 2, 1, 1, 0, 0, 0)
ResetRace == Config(TRUE, 0, 0, <<{"sync", "prune"}, {"sync", "reset"}>>, 1, 1, 0, 0, 0, 1)
ResetDead == Config(TRUE, 0, 0, Both({"sync", "reset", "retry"}), 0, 1, 2, 0, 1, 1)
(* One tab prunes, while the other retries dead letters, and while it      *)
(* requeues what the replaced store of the server has lost and folds into  *)
(* it.                                                                     *)
PruneRetry == Config(TRUE, 0, 0, <<{"sync", "prune"}, {"sync", "retry"}>>, 0, 0, 2, 0, 1, 0)
Swapped    == Config(TRUE, 0, 0, <<{"prune"}, {"sync"}>>, 2, 0, 0, 1, 0, 0)

AllConfigs == {Syncing, Lockless, Unguarded, Held, Retrying, Resets, ResetRace, ResetDead,
               PruneRetry, Swapped}
=============================================================================
