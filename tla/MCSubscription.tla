--------------------------- MODULE MCSubscription ---------------------------
(* Small instances of Subscription for TLC.                                 *)
EXTENDS Subscription, TLC

CONSTANTS h1, h2

Alike == Permutations({h1, h2})
=============================================================================
