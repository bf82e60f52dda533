------------------------------ MODULE MCLifecycle ------------------------------
(* Two hooks, three runs of their effects, three openings and two calls of *)
(* close(): two hooks are the fewest that share an opening, and with three *)
(* openings a late failure can clear the promise of a newer one.           *)
EXTENDS Lifecycle, TLC

CONSTANTS h1, h2
MCHooks == {h1, h2}
=============================================================================
