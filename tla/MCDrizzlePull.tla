--------------------------- MODULE MCDrizzlePull ---------------------------
(***************************************************************************)
(* Instances of DrizzlePull for TLC.                                       *)
(***************************************************************************)
EXTENDS DrizzlePull, TLC

Ev(group, place, key, type, mine) ==
  [group |-> group, place |-> place, key |-> key, type |-> type, mine |-> mine]

(* Another device inserts a row in a transaction with an event this one    *)
(* cannot read, and updates it in a second one; this device pushes a third.*)
Events4 == 1 :> Ev(1, 1, 1, "insert", FALSE) @@ 2 :> Ev(1, 2, 2, "insert", FALSE)
           @@ 3 :> Ev(2, 1, 1, "update", FALSE) @@ 4 :> Ev(3, 1, 3, "insert", TRUE)

Two == {"c1", "c2"}
NewOrOld == {1, 10}
Unread == {2}

Config(overlap, handling, policy, xid, cs, ps, swaps, fails, crash) ==
  [overlap |-> overlap, handling |-> handling, policy |-> policy, retired |-> {}, xid |-> xid,
   conns |-> cs, pushes |-> ps, swaps |-> swaps, failures |-> fails, crashes |-> crash]

(* Devices push side by side while this one pulls.                         *)
Crowded == {Config(0, "skip", "resetCursor", 1, 2, 3, 0, 0, 0),
            Config(1, "skip", "resetCursor", 10, 2, 3, 0, 0, 0)}
(* Domain writes and pulls throw, and the process dies at any write.       *)
Failing == {Config(1, "skip", "resetCursor", 10, 1, 3, 0, 2, 1)}
(* The store is replaced, under each policy.                               *)
Swapped == {Config(0, "skip", "resetCursor", 10, 1, 3, 1, 0, 0),
            Config(0, "skip", "resetCursor", 10, 1, 2, 1, 0, 1),
            Config(0, "skip", "ignore", 10, 1, 2, 1, 0, 0), Config(0, "skip", "fail", 10, 1, 2, 1, 0, 0)}
(* An update the application has given up.                                 *)
Retiring == {[Config(0, "skip", "resetCursor", 10, 1, 3, 0, 1, 0) EXCEPT !.retired = {3}]}
(* An event that cannot be read stops the pull.                            *)
Halting == {Config(0, "fail", "resetCursor", 10, 1, 3, 0, 0, 1)}

AllConfigs == Crowded \cup Failing \cup Swapped \cup Retiring \cup Halting
=============================================================================
