--------------------------- MODULE MCDrizzlePush ---------------------------
(***************************************************************************)
(* Instances of DrizzlePush for TLC.                                       *)
(***************************************************************************)
EXTENDS DrizzlePush

Config(keys, ids, runs, depth, crash, faults, versions, foreign, busy) ==
  [keys |-> keys, ids |-> ids, runs |-> runs, depth |-> depth, crashes |-> crash, faults |-> faults,
   versions |-> versions, foreign |-> foreign, busy |-> busy]

(* Alone on a reliable network, with versions and nested transactions.     *)
Reliable == Config(2, 3, 2, 2, 0, {}, TRUE, {}, TRUE)
(* Everything that can fail, and a crash at any write.                     *)
Faulty   == Config(1, 2, 1, 1, 1, FaultKinds, FALSE, {}, TRUE)
(* Transactions over two rows, on a server that refuses.                   *)
Refusing == Config(2, 3, 1, 1, 0, {"reject"}, FALSE, {}, TRUE)
(* Two devices and versions.                                               *)
Shared   == Config(1, 3, 1, 1, 0, {}, TRUE, {11, 12}, FALSE)

(* Two devices and versions, a server that refuses, and a crash.           *)
Torn     == Config(1, 3, 1, 1, 1, {"reject"}, TRUE, {11}, FALSE)

Others2   == {11, 12}
AllConfigs == {Reliable, Faulty, Refusing, Shared, Torn}
=============================================================================
