--------------------------- MODULE MCSubscription ---------------------------
(* Instances of Subscription for TLC: deliveries d1 and d2 carry one event,     *)
(* d3 another.                                                                  *)
EXTENDS Subscription, TLC

CONSTANTS d1, d2, d3, e1, e2

Delivered == (d1 :> e1) @@ (d2 :> e1) @@ (d3 :> e2)
CheckoutThenAny == (e1 :> Checkouts) @@ (e2 :> Kinds \ Checkouts)
OneCheckout == d1 :> e1
Checkout == e1 :> Checkouts
=============================================================================
