--------------------------- MODULE MCWebhookOutbox ---------------------------
(* Subscription filters for checking WebhookOutbox with TLC.                 *)
EXTENDS WebhookOutbox, TLC

MCMatching == Deliveries
=============================================================================
