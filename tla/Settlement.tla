----------------------------- MODULE Settlement -----------------------------
(***************************************************************************)
(* What a checkout promises about the customer's money, with no attempts,  *)
(* leases, workers or webhooks: a charge is taken once, then either a      *)
(* booking is made for it, or it is given up for good and sent back once;  *)
(* only a refund that arrived is reported as one.                          *)
(***************************************************************************)

VARIABLES charged,    \* the provider took the money
          booked,     \* a booking stands for it
          givenUp,    \* no booking will ever stand for it
          refund,     \* "none", "pending", "succeeded" or "failed"
          reported    \* the customer's checkout says refunded

svars == <<charged, booked, givenUp, refund, reported>>

Init == /\ charged = FALSE /\ booked = FALSE /\ givenUp = FALSE
        /\ refund = "none" /\ reported = FALSE

Take == /\ ~charged /\ charged' = TRUE
        /\ UNCHANGED <<booked, givenUp, refund, reported>>

Book == /\ charged /\ ~givenUp /\ booked' = TRUE
        /\ UNCHANGED <<charged, givenUp, refund, reported>>

GiveUp == /\ charged /\ ~booked /\ givenUp' = TRUE
          /\ UNCHANGED <<charged, booked, refund, reported>>

SendBack == /\ givenUp /\ refund = "none"
            /\ refund' \in {"pending", "succeeded", "failed"}
            /\ UNCHANGED <<charged, booked, givenUp, reported>>

Arrive == /\ refund = "pending" /\ refund' \in {"succeeded", "failed"}
          /\ UNCHANGED <<charged, booked, givenUp, reported>>

Report == /\ refund = "succeeded" /\ reported' = TRUE
          /\ UNCHANGED <<charged, booked, givenUp, refund>>

Next == Take \/ Book \/ GiveUp \/ SendBack \/ Arrive \/ Report

Spec == Init /\ [][Next]_svars
=============================================================================
