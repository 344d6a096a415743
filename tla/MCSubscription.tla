--------------------------- MODULE MCSubscription ---------------------------
(* A small instance of Subscription for TLC: more deliveries than the       *)
(* channel and the waits can take.                                          *)
EXTENDS Subscription

CONSTANTS m1, m2, b1, b2
=============================================================================
