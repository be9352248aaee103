-------------------------------- MODULE Fee --------------------------------
(***************************************************************************)
(* What a customer is promised about the fee of a late cancellation or     *)
(* no-show, with no attempts, leases, workers, webhooks or bookings: it is *)
(* asked for once, and only while it is due; it is collected when it was   *)
(* paid, and failed or forgiven only when it was not and will not be.      *)
(***************************************************************************)

VARIABLES fee,      \* "none", "PENDING", "SUCCEEDED", "FAILED" or "FORGIVEN"
          charge    \* "none", "asked", "paid" or "refused"

fvars == <<fee, charge>>

Init == fee = "none" /\ charge = "none"

\* Without a card to charge it fails at once.
Claim == fee = "none" /\ fee' \in {"PENDING", "FAILED"} /\ UNCHANGED charge

Ask == /\ fee = "PENDING" /\ charge = "none"
       /\ charge' \in {"asked", "paid", "refused"} /\ UNCHANGED fee

Answer == charge = "asked" /\ charge' \in {"paid", "refused"} /\ UNCHANGED fee

Collect == fee = "PENDING" /\ charge = "paid" /\ fee' = "SUCCEEDED" /\ UNCHANGED charge

Fail == fee = "PENDING" /\ charge \in {"none", "refused"} /\ fee' = "FAILED" /\ UNCHANGED charge

Forgive == fee \in {"none", "FAILED"} /\ fee' = "FORGIVEN" /\ UNCHANGED charge

Next == Claim \/ Ask \/ Answer \/ Collect \/ Fail \/ Forgive

Spec == Init /\ [][Next]_fvars
=============================================================================
