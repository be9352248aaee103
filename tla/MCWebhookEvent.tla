--------------------------- MODULE MCWebhookEvent ---------------------------
(* WebhookEvent for TLC: two overlapping deliveries, the recovery worker and  *)
(* an administrator.                                                          *)
EXTENDS WebhookEvent

CONSTANTS d1, d2, w, s
=============================================================================
