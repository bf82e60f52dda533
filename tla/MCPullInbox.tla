---------------------------- MODULE MCPullInbox ----------------------------
(***************************************************************************)
(* Instances of PullInbox for TLC: the configurations the database may be  *)
(* opened with.                                                            *)
(***************************************************************************)
EXTENDS PullInbox

Opened(mismatch, unknown, echoes, overlap, prune) ==
  [mismatch |-> mismatch, unknown |-> unknown, echoes |-> echoes,
   overlap |-> overlap, prune |-> prune]

Defaults == Opened("resetCursor", "skip", TRUE, 0, FALSE)

(* The defaults, with pruning, with a rewound cursor, and the strict       *)
(* settings.                                                               *)
AllConfigs == {Opened("resetCursor", "skip", FALSE, 0, TRUE),
               Opened("resetCursor", "skip", TRUE, 1, FALSE),
               Opened("fail", "fail", TRUE, 0, FALSE),
               Opened("ignore", "skip", TRUE, 0, FALSE)}

DefaultConfig == {Defaults}
SecondRow     == {2}
NoRow         == {}
=============================================================================
