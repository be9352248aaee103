---------------------------- MODULE MCCentralPayout ----------------------------
(* CentralPayout alone, for TLC. *)
EXTENDS CentralPayout

CONSTANTS o1, o2, a, d

\* The payouts only have to be made.
MCLifecycle == [o \in Withdrawals |-> {}]
=============================================================================
