------------------------ MODULE MCPenaltyCollection ------------------------
(* PenaltyCollection for TLC: a cancelling request or no-show worker, a       *)
(* request of the business, the recovery worker and the webhooks.             *)
EXTENDS PenaltyCollection

CONSTANTS c, a, w, h
=============================================================================
