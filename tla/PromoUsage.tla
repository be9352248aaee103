----------------------------- MODULE PromoUsage -----------------------------
(***************************************************************************)
(* The usage of one promo code.  A checkout resolves the code and carries  *)
(* its limits; the booking transaction, much later, counts the use against *)
(* them and writes the redemption; a cancellation by the business takes    *)
(* the use back, once.  An administrator changes the limits, and deletes a *)
(* promo nobody used or deactivates it.                                    *)
(*                                                                         *)
(* A transaction is one step: it writes the promo's document, so another   *)
(* that does conflicts with it and runs again.  Zero stands for no limit.  *)
(* Scope, dates and discounts are left out, and redemptions from before    *)
(* userUsageCounted was stored.                                            *)
(***************************************************************************)
EXTENDS Naturals, FiniteSets

CONSTANTS Purchases,    \* bookings that use the code
          Customers,
          Limits        \* values of totalUsageLimit and perUserUsageLimit

ASSUME PromoAssumption == /\ Limits \subseteq Nat /\ IsFiniteSet(Purchases)
                          /\ "none" \notin Customers

VARIABLES promo,        \* PromoCode document
          usage,        \* PromoUserUsage counts
          redemption,   \* PromoRedemption of each purchase
          checkout,     \* what a purchase resolved
          deletion      \* "counted" when an administrator's count found none

promoVars == <<promo, usage, redemption, checkout, deletion>>

Promo == [status : {"ACTIVE", "DEACTIVATED", "deleted"}, total : Limits, perUser : Limits,
          redeemed : Nat]
Redemption == [state : {"none", "used", "restored"}, by : Customers \cup {"none"},
               counted : BOOLEAN]
Checkout == [state : {"none", "resolved", "ended"}, by : Customers \cup {"none"},
             total : Limits \cup {0}, perUser : Limits \cup {0}]

Used == {k \in Purchases : redemption[k].state = "used"}
Exists == promo.status # "deleted"
Below(count, limit) == limit = 0 \/ count < limit

-----------------------------------------------------------------------------
\* resolve: the early check.
Resolve(k) ==
    /\ checkout[k].state = "none" /\ promo.status = "ACTIVE"
    /\ \E c \in Customers :
         /\ Below(promo.redeemed, promo.total) /\ Below(usage[c], promo.perUser)
         /\ checkout' = [checkout EXCEPT ![k] = [state |-> "resolved", by |-> c,
                                                 total |-> promo.total,
                                                 perUser |-> promo.perUser]]
    /\ UNCHANGED <<promo, usage, redemption, deletion>>

\* claimRedemption: both counters against the limits that were resolved, and the row;
\* what does not fit ends the booking's transaction.
CountedForMutated(limit) == TRUE                        \* userUsageCounted always
CountedFor(limit) == limit # 0

Redeem(k) ==
    LET order == checkout[k]
        counted == CountedFor(order.perUser)
        fits == /\ Exists /\ Below(promo.redeemed, order.total)
                /\ Below(usage[order.by], order.perUser)
    IN /\ order.state = "resolved"
       /\ checkout' = [checkout EXCEPT ![k].state = "ended"]
       /\ \/ /\ fits
             /\ promo' = [promo EXCEPT !.redeemed = @ + 1]
             /\ usage' = IF order.perUser # 0 THEN [usage EXCEPT ![order.by] = @ + 1] ELSE usage
             /\ redemption' = [redemption EXCEPT ![k] = [state |-> "used", by |-> order.by,
                                                         counted |-> counted]]
          \/ UNCHANGED <<promo, usage, redemption>>    \* or the booking failed otherwise
       /\ UNCHANGED deletion

\* restoreBusinessCancellation, in the transaction of the cancellation: it must find
\* what it takes back, or nothing is cancelled.
RestorableMutated(k) == redemption[k].state # "none"       \* usageRestoredAt is not looked at
Restorable(k) == redemption[k].state = "used"

RestoreUsage(k) ==
    LET r == redemption[k]
    IN /\ Restorable(k)
       /\ Exists /\ promo.redeemed >= 1 /\ (r.counted => usage[r.by] >= 1)
       /\ promo' = [promo EXCEPT !.redeemed = @ - 1]
       /\ usage' = IF r.counted THEN [usage EXCEPT ![r.by] = @ - 1] ELSE usage
       /\ redemption' = [redemption EXCEPT ![k].state = "restored"]
       /\ UNCHANGED <<checkout, deletion>>

\* update and setStatus: a limit can be set and changed, and not be taken off.
UpdatePromo ==
    /\ Exists
    /\ \E total \in {promo.total} \cup (Limits \ {0}),
          perUser \in {promo.perUser} \cup (Limits \ {0}),
          status \in {"ACTIVE", "DEACTIVATED"} :
         promo' = [promo EXCEPT !.total = total, !.perUser = perUser, !.status = status]
    /\ UNCHANGED <<usage, redemption, checkout, deletion>>

\* delete: the redemptions are counted, then the promo is deactivated or removed.
CountRedemptions ==
    /\ Exists /\ deletion = "none"
    /\ IF \E k \in Purchases : redemption[k].state # "none"
       THEN promo' = [promo EXCEPT !.status = "DEACTIVATED"] /\ UNCHANGED deletion
       ELSE deletion' = "counted" /\ UNCHANGED promo
    /\ UNCHANGED <<usage, redemption, checkout>>

DeletePromo ==
    /\ deletion = "counted" /\ deletion' = "none"
    /\ promo' = [promo EXCEPT !.status = "deleted"]
    /\ UNCHANGED <<usage, redemption, checkout>>

PromoInit ==
    /\ \E total, perUser \in Limits :
         promo = [status |-> "ACTIVE", total |-> total, perUser |-> perUser, redeemed |-> 0]
    /\ usage = [c \in Customers |-> 0]
    /\ redemption = [k \in Purchases |-> [state |-> "none", by |-> "none", counted |-> FALSE]]
    /\ checkout = [k \in Purchases |-> [state |-> "none", by |-> "none",
                                        total |-> 0, perUser |-> 0]]
    /\ deletion = "none"

PromoNext == \/ \E k \in Purchases : Resolve(k) \/ Redeem(k) \/ RestoreUsage(k)
             \/ UpdatePromo \/ CountRedemptions \/ DeletePromo

PromoSpec == PromoInit /\ [][PromoNext]_promoVars

-----------------------------------------------------------------------------
\* Every variable has its type, and a use counts for its customer exactly if its checkout
\* resolved a limit per customer.
PromoTypeOK ==
    /\ promo \in Promo
    /\ usage \in [Customers -> Nat]
    /\ redemption \in [Purchases -> Redemption]
    /\ checkout \in [Purchases -> Checkout]
    /\ deletion \in {"none", "counted"}
    /\ \A k \in Purchases :
         redemption[k].state # "none" =>
           /\ checkout[k].state = "ended" /\ redemption[k].by = checkout[k].by
           /\ redemption[k].counted <=> checkout[k].perUser # 0

\* Both counters say what the redemptions say, so a use is neither counted twice nor
\* given back twice, and a limit that is set between a checkout, its booking and its
\* cancellation does not take a use from another booking.
CountersAgree ==
    /\ Exists => promo.redeemed = Cardinality(Used)
    /\ \A c \in Customers :
         usage[c] = Cardinality({k \in Used : redemption[k].by = c /\ redemption[k].counted})

\* A promo with any redemption is never deleted (rule #17).  No run checks it, as TLC
\* refutes it: a redemption may commit between the count and the removal.
UsedIsKept == ~Exists => \A k \in Purchases : redemption[k].state = "none"
=============================================================================
