-------------------------- MODULE MCBookingPayment --------------------------
(* BookingPayment for TLC: the customer's request and its retries.           *)
EXTENDS BookingPayment

CONSTANTS r1, r2, w, h
=============================================================================
