----------------------------- MODULE Standalone -----------------------------
(***************************************************************************)
(* Five components that share no state: the FIRST relationship of one      *)
(* customer, Bookly's withdrawals, the refresh tokens of one user, the     *)
(* usage of one promo code and one appointment reminder.  A behaviour runs *)
(* one of them; the others rest.                                           *)
(***************************************************************************)
EXTENDS FirstRelationship, CentralPayout, RefreshSession, PromoUsage, AppointmentReminder

VARIABLE part

AllInit == /\ Init /\ PayoutInit /\ SessionInit /\ PromoInit /\ ReminderInit
           /\ part \in {"first", "payout", "session", "promo", "reminder"}
           /\ part # "promo" => promo.total = 0 /\ promo.perUser = 0
           /\ part # "reminder" => kind = "REMINDER_24H"

First == part = "first" /\ Next
         /\ UNCHANGED <<payoutVars, sessionVars, promoVars, reminderVars, part>>
Payout == part = "payout" /\ PayoutNext
          /\ UNCHANGED <<vars, sessionVars, promoVars, reminderVars, part>>
Session == part = "session" /\ SessionNext
           /\ UNCHANGED <<vars, payoutVars, promoVars, reminderVars, part>>
PromoPart == part = "promo" /\ PromoNext
             /\ UNCHANGED <<vars, payoutVars, sessionVars, reminderVars, part>>
ReminderPart == part = "reminder" /\ ReminderNext
                /\ UNCHANGED <<vars, payoutVars, sessionVars, promoVars, part>>

AllNext == First \/ Payout \/ Session \/ PromoPart \/ ReminderPart
AllSpec == AllInit /\ [][AllNext]_<<vars, payoutVars, sessionVars, promoVars, reminderVars, part>>

\* The types of the five, and what goes with them in each module.
TypesOK == TypeOK /\ PayoutTypeOK /\ SessionTypeOK /\ PromoTypeOK /\ ReminderTypeOK
=============================================================================
