------------------------- MODULE MCWebhookDispatcher -------------------------
(* Small instances of WebhookDispatcher for TLC. *)
EXTENDS WebhookDispatcher

CONSTANTS w1, w2, d1, d2, x, y
=============================================================================
