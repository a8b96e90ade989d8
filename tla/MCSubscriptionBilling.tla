------------------------ MODULE MCSubscriptionBilling ------------------------
(* Two subscriptions, the older one without an email address. *)
EXTENDS SubscriptionBilling

CONSTANTS old, young

TwoAges == [s \in {old, young} |-> IF s = old THEN 0 ELSE 1]
=============================================================================
