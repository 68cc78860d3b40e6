--------------------------- MODULE MCSubscription ---------------------------
(* Values of the constants of Subscription for TLC. *)
EXTENDS Subscription
=============================================================================
