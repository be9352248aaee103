---------------------------- MODULE MCSmsOutbox ----------------------------
(* SmsOutbox for TLC: a worker with two runners and a second worker.         *)
EXTENDS SmsOutbox, TLC

CONSTANTS w1, w2, a, b, c

MCWorkerOf == (a :> w1) @@ (b :> w1) @@ (c :> w2)
=============================================================================
