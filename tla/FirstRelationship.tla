-------------------------- MODULE FirstRelationship --------------------------
(***************************************************************************)
(* The financial relationship of one customer with one business: which     *)
(* single purchase is the FIRST, whose deposit Bookly charges online.      *)
(* Requests claim it, bind their PaymentAttempt to the claim before they   *)
(* call Stripe, and consume it in the booking transaction; failures, the   *)
(* recovery worker and the webhooks release it; a refunded compensation, a *)
(* business cancellation or an early cancellation by the customer gives it *)
(* back.  Every write to the document is one conditional update, made from *)
(* a row that was read earlier.                                            *)
(*                                                                         *)
(* A key stands for one logical purchase: its idempotency key, its booking *)
(* id and its PaymentAttempt.  What Stripe, the payment worker and the     *)
(* refund worker do to an attempt and a refund is taken from their modules *)
(* as single steps.  A sequence of steps is what a process still has to do; *)
(* a request that dies is one that takes no step again: Next obliges none.  *)
(***************************************************************************)
EXTENDS Integers, Sequences

CONSTANTS Keys,        \* purchases the customer tries at this business
          Requests,    \* API requests
          Sweeps,      \* the worker's relationship pass and the webhooks
          Restorers,   \* ensureBusinessRefundNotification, and customer cancellations
          None,
          MaxCalls     \* bound on the checkout requests

Procs == Requests \cup Sweeps \cup Restorers

ASSUME ProcsAssumption ==
    /\ Requests \cap Sweeps = {} /\ (Requests \cup Sweeps) \cap Restorers = {}
    /\ None \notin Keys /\ MaxCalls \in Nat

VARIABLES rel,        \* BusinessClient.financialRelationship
          claim,      \* per key: the BookingCreationClaim and its contract
          attempt,    \* per key: the PaymentAttempt
          booking,    \* per key: the Booking's status
          refund,     \* per key: the RefundOperation of its cancellation
          proc,       \* what every process has to do, and what it has read
          calls

vars == <<rel, claim, attempt, booking, refund, proc, calls>>

\* A claim without a contract, then the contract's class; a FIRST contract whose
\* upfront is zero has no attempt, and a RETURNING one never has.
Class == {"FIRST", "FREE", "RETURNING"}
ClaimState == {"none", "held"} \cup Class
IsFirst(c) == c \in {"FIRST", "FREE"}

\* The provider statuses between the call and the outcome are one here.  A canceled
\* attempt is one that stays FAILED, a failed refund one that stays REQUIRED or PENDING.
AttemptState == [status : {"none", "NOT_CREATED", "OPEN", "SUCCEEDED", "FAILED"},
                 sent   : BOOLEAN,     \* a PaymentIntent exists
                 failed : BOOLEAN,     \* it was FAILED once
                 comp   : {"NOT_REQUIRED", "REQUIRED", "REFUNDED"}]

\* A booking that was completed, missed or cancelled too late stays UPCOMING here: it
\* counts the same for the relationship and is not given back.
BookingState == {"none", "UPCOMING", "CANCELLED_BY_CUSTOMER", "CANCELLED_BY_BUSINESS"}
RefundState == {"none", "PENDING", "SUCCEEDED", "RECORDED"}

Pending == [key : Keys, bound : BOOLEAN, refund : BOOLEAN]
ASSUME NoneAssumption == None \notin Pending

Relationship == [state : {"ELIGIBLE", "FIRST_PENDING", "RESTORATION_PENDING", "CONSUMED"},
                 revision : Nat,
                 pending : Pending \cup {None},
                 consumed : Keys \cup {None},
                 released : Keys \cup {None}]  \* lastRelease CUSTOMER_EARLY_CANCELLATION

Step == {"terms", "record", "charge", "bind", "dispatch", "persist", "compensate",
         "release", "drop", "row", "booking", "attempt", "unbound", "abandoned",
         "bound", "commit", "consumed", "history", "restore", "recheck", "revert"}

Idle == [todo |-> <<>>, key |-> None, new |-> FALSE, class |-> None, row |-> None]
At(p, s) == proc[p].todo # <<>> /\ Head(proc[p].todo) = s
Key(p) == proc[p].key
Row(p) == proc[p].row

\* Process p has done its step and goes on to steps, with the row it has read, then
\* to what it had left; or it goes on to one step; or it gives up all but steps.
Then(p, steps, row) ==
    LET rest == steps \o Tail(proc[p].todo)
    IN proc' = [proc EXCEPT ![p] = IF rest = <<>> THEN Idle
                                   ELSE [@ EXCEPT !.todo = rest, !.row = row]]
Done(p) == Then(p, <<>>, None)
Goto(p, step) == proc' = [proc EXCEPT ![p].todo = <<step>>]
Leave(p, steps) == proc' = [proc EXCEPT ![p] = IF steps = <<>> THEN Idle
                              ELSE [Idle EXCEPT !.todo = steps, !.key = Key(p)]]

-----------------------------------------------------------------------------
(* FinancialRelationshipRepository: the document after a conditional update; *)
(* one whose filter does not match leaves it alone.                          *)

Owns(k, state) == rel.state = state /\ rel.pending # None /\ rel.pending.key = k

To(state, pending) == [rel EXCEPT !.state = state, !.pending = pending,
                                  !.revision = @ + 1, !.released = None]
Released == To("ELIGIBLE", None)
If(cond, new) == IF cond THEN new ELSE rel

Claimed(k) == [To("FIRST_PENDING", [key |-> k, bound |-> FALSE, refund |-> FALSE])
                 EXCEPT !.released = rel.released]

\* bindPaymentAttempt: a key has one attempt, so a bound claim is bound to it.
MayBind(k) == Owns(k, "FIRST_PENDING")

\* consumeFirst, for a purchase with an attempt or without.
MayConsumeMutated(k, paid) == rel.pending # None => rel.pending.key = k
MayConsume(k, paid) == Owns(k, "FIRST_PENDING") /\ rel.pending.bound = paid
Consumed(k) == [To("CONSUMED", None) EXCEPT !.consumed = k, !.released = rel.released]

\* releaseFirstClaim of a claim no attempt was bound to, and of one whose attempt failed.
MayReleaseUnboundMutated(k) == Owns(k, "FIRST_PENDING")  \* whatever was bound since
MayReleaseUnbound(k) == Owns(k, "FIRST_PENDING") /\ ~rel.pending.bound
MayReleaseBound(k) == Owns(k, "FIRST_PENDING") /\ rel.pending.bound

SameRevision(p) == rel.revision = Row(p).revision

\* markRestorationPending and restoreAfterCompensation.
MayMark(p) == MayReleaseBound(Row(p).pending.key) /\ SameRevision(p)
Marked == [rel EXCEPT !.state = "RESTORATION_PENDING", !.revision = @ + 1]
MayRestore(p) == /\ Owns(Row(p).pending.key, "RESTORATION_PENDING") /\ rel.pending.bound
                 /\ SameRevision(p)

\* beginBusinessRestoration; finishBusinessRestoration.
Restoring(k, paid) ==
    IF paid THEN [rel EXCEPT !.state = "RESTORATION_PENDING", !.revision = @ + 1,
                             !.pending = [key |-> k, bound |-> FALSE, refund |-> TRUE]]
    ELSE Released
MayFinish(p) == /\ Owns(Row(p).pending.key, "RESTORATION_PENDING") /\ rel.pending.refund
                /\ rel.consumed = rel.pending.key /\ SameRevision(p)

-----------------------------------------------------------------------------
(* The checkout request *)

\* finalizeCustomerBooking: a new claim, or the resumption of an attempt.  Every other
\* request of the key waits for the booking.
Begin(p) ==
    /\ proc[p].todo = <<>> /\ calls < MaxCalls /\ calls' = calls + 1
    /\ \E k \in Keys :
         /\ booking[k] = "none"
         /\ \/ claim[k] = "none" /\ claim' = [claim EXCEPT ![k] = "held"]
            \/ claim[k] # "none" /\ attempt[k].status # "none" /\ UNCHANGED claim
         /\ proc' = [proc EXCEPT ![p] = [Idle EXCEPT !.todo = <<"terms">>, !.key = k,
                                                     !.new = claim[k] = "none"]]
    /\ UNCHANGED <<rel, attempt, booking, refund>>

\* What a failure before the booking still owes: the relationship, and the claim if
\* this call made it (releaseUncommitted).
GiveBack(p, class) == (IF IsFirst(class) THEN <<"release">> ELSE <<>>) \o
                      (IF proc[p].new THEN <<"drop">> ELSE <<>>)

\* resolveForFinalize.  A claim lost to another request is read again; the last read or
\* the claim itself is the step.
Classified(p, class) == proc' = [proc EXCEPT ![p].todo = <<"record">>, ![p].class = class]

ResolveForFinalize(p) ==
    LET k == Key(p)
    IN /\ At(p, "terms")
       /\ \/ /\ Owns(k, "FIRST_PENDING") /\ claim[k] # "RETURNING"
             /\ \E c \in {"FIRST", "FREE"} : Classified(p, c)
             /\ UNCHANGED rel
          \/ /\ rel.state = "CONSUMED" /\ ~IsFirst(claim[k])
             /\ Classified(p, "RETURNING")
             /\ UNCHANGED rel
          \/ /\ rel.state = "ELIGIBLE" /\ claim[k] # "RETURNING"
             /\ \E c \in {"FIRST", "FREE"} : Classified(p, c)
             /\ rel' = Claimed(k)
          \/ /\ \/ rel.state \in {"FIRST_PENDING", "RESTORATION_PENDING"}
                   /\ (~Owns(k, "FIRST_PENDING") \/ claim[k] = "RETURNING")
                \/ rel.state = "CONSUMED" /\ IsFirst(claim[k])
                \/ rel.state = "ELIGIBLE" /\ claim[k] = "RETURNING"
             /\ Leave(p, GiveBack(p, "RETURNING"))      \* nothing was claimed here
             /\ UNCHANGED rel
       /\ UNCHANGED <<claim, attempt, booking, refund, calls>>

\* establishFinancialTerms: the terms are recorded and may not change; a promo, a price
\* or a record that does not fit ends the call.
RecordContract(p) ==
    LET k == Key(p)
        class == proc[p].class
    IN /\ At(p, "record")
       /\ \/ /\ claim[k] \in {"held", class}
             /\ claim' = [claim EXCEPT ![k] = class]
             /\ Goto(p, IF class = "FIRST" THEN "charge" ELSE "persist")
          \/ Leave(p, GiveBack(p, class)) /\ UNCHANGED claim
       /\ UNCHANGED <<rel, attempt, booking, refund, calls>>

\* The tax fails (the claim goes too), or the charge is refused before the attempt;
\* otherwise the attempt exists from here on.
Charge(p) ==
    LET k == Key(p)
    IN /\ At(p, "charge")
       /\ \/ Leave(p, GiveBack(p, "FIRST")) /\ UNCHANGED attempt
          \/ Leave(p, <<"release">>) /\ UNCHANGED attempt
          \/ /\ attempt' = IF attempt[k].status = "none"
                           THEN [attempt EXCEPT ![k].status = "NOT_CREATED"] ELSE attempt
             /\ Goto(p, "bind")
       /\ UNCHANGED <<rel, claim, booking, refund, calls>>

\* beforeProviderDispatch
BindPaymentAttempt(p) ==
    /\ At(p, "bind")
    /\ \/ /\ MayBind(Key(p)) /\ rel' = [rel EXCEPT !.pending.bound = TRUE]
          /\ Goto(p, "dispatch")
       \/ ~MayBind(Key(p)) /\ Leave(p, <<"release">>) /\ UNCHANGED rel
    /\ UNCHANGED <<claim, attempt, booking, refund, calls>>

\* recordProviderResult: a success stays.
Recorded(k, s) == IF attempt[k].status = "SUCCEEDED" THEN attempt
                  ELSE [attempt EXCEPT ![k].status = s, ![k].sent = TRUE,
                                       ![k].failed = @ \/ s = "FAILED"]

\* The call to Stripe and its recorded answer; an unclear one leaves the attempt open.
Dispatch(p) ==
    LET k == Key(p)
    IN /\ At(p, "dispatch")
       /\ \E s \in {"OPEN", "SUCCEEDED", "FAILED"} : attempt' = Recorded(k, s)
       /\ CASE attempt'[k].status = "SUCCEEDED" -> Goto(p, "persist")
            [] attempt'[k].status = "OPEN" -> Leave(p, <<>>) \/ Leave(p, <<"release">>)
            [] OTHER -> Leave(p, <<"release">>)
       /\ UNCHANGED <<rel, claim, booking, refund, calls>>

\* persistCustomerBooking is one transaction; the completion of the attempt fences it
\* against the compensation.  It consumes the claim of a FIRST and does not look at the
\* relationship for a RETURNING purchase.  A call whose persistence lease was taken
\* waits for the booking and returns.
Persist(p) ==
    LET k == Key(p)
        class == proc[p].class
        paid == class = "FIRST"
    IN /\ At(p, "persist")
       /\ \/ /\ booking[k] = "none" /\ attempt[k].comp = "NOT_REQUIRED"
             /\ IsFirst(class) => MayConsume(k, paid)
             /\ booking' = [booking EXCEPT ![k] = "UPCOMING"]
             /\ rel' = If(IsFirst(class), Consumed(k))
             /\ Leave(p, <<>>)
          \/ /\ Leave(p, IF paid THEN <<"compensate">>
                        ELSE <<"drop">> \o (IF IsFirst(class) THEN <<"release">> ELSE <<>>))
             /\ UNCHANGED <<rel, booking>>
          \/ paid /\ Leave(p, <<>>) /\ UNCHANGED <<rel, booking>>
       /\ UNCHANGED <<claim, attempt, refund, calls>>

\* markPaymentCompensationRequired, then reconcileQuietly; the refund is the worker's.
RequireCompensation(p) ==
    LET k == Key(p)
    IN /\ At(p, "compensate")
       /\ attempt' = IF booking[k] = "none" /\ attempt[k].comp = "NOT_REQUIRED"
                     THEN [attempt EXCEPT ![k].comp = "REQUIRED"] ELSE attempt
       /\ Leave(p, <<"row">>)
       /\ UNCHANGED <<rel, claim, booking, refund, calls>>

\* releaseAfterPreMoneyFailure: an unbound claim at once, else what is stored decides.
ReleaseAfterFailure(p) ==
    /\ At(p, "release")
    /\ rel' = If(MayReleaseUnbound(Key(p)), Released)
    /\ IF MayReleaseUnbound(Key(p)) THEN Done(p) ELSE Then(p, <<"row">>, None)
    /\ UNCHANGED <<claim, attempt, booking, refund, calls>>

\* releaseUncommitted
DropClaim(p) ==
    /\ At(p, "drop")
    /\ claim' = [claim EXCEPT ![Key(p)] = "none"]
    /\ Done(p)
    /\ UNCHANGED <<rel, attempt, booking, refund, calls>>

Request(p) == \/ Begin(p) \/ ResolveForFinalize(p) \/ RecordContract(p) \/ Charge(p)
              \/ BindPaymentAttempt(p) \/ Dispatch(p) \/ Persist(p)
              \/ RequireCompensation(p) \/ ReleaseAfterFailure(p) \/ DropClaim(p)

-----------------------------------------------------------------------------
(* reconcile: the row, the booking and the attempt are read one after the other; *)
(* a fact that cannot change again is read with the write that needs it.         *)

StartSweep(p) ==
    /\ proc[p].todo = <<>> /\ rel.pending # None
    /\ proc' = [proc EXCEPT ![p].todo = <<"booking">>, ![p].row = rel]
    /\ UNCHANGED <<rel, claim, attempt, booking, refund, calls>>

ReadRow(p) ==
    /\ At(p, "row")
    /\ IF rel.pending = None THEN Done(p) ELSE Then(p, <<"booking">>, rel)
    /\ UNCHANGED <<rel, claim, attempt, booking, refund, calls>>

ReadBooking(p) ==
    LET row == Row(p)
        k == row.pending.key
    IN /\ At(p, "booking")
       /\ IF booking[k] # "none" THEN
            IF row.state = "RESTORATION_PENDING" /\ row.pending.refund
            THEN Then(p, <<"restore">>, row)
            ELSE IF row.state = "FIRST_PENDING" /\ IsFirst(claim[k])
            THEN Then(p, <<"consumed">>, row)
            ELSE Done(p)
          ELSE IF row.state = "FIRST_PENDING" /\ ~row.pending.bound
          THEN Then(p, <<"unbound">>, row)
          ELSE IF row.pending.bound THEN Then(p, <<"attempt">>, row) ELSE Done(p)
       /\ UNCHANGED <<rel, claim, attempt, booking, refund, calls>>

\* A committed booking of a claim that is still pending ("unreachable").
ConsumeForBooking(p) ==
    LET k == Row(p).pending.key
    IN /\ At(p, "consumed")
       /\ rel' = If(MayConsume(k, Row(p).pending.bound), Consumed(k))
       /\ Done(p)
       /\ UNCHANGED <<claim, attempt, booking, refund, calls>>

\* A claim nobody bound: the keyed attempt is read, then the abandoned claim is
\* released if the row is still the one that was read.  Its lease of 15 minutes may be
\* over at any time: a request may be that slow.
ReadKeyedAttempt(p) ==
    /\ At(p, "unbound")
    /\ IF attempt[Row(p).pending.key].status \in {"none", "NOT_CREATED"}
       THEN Then(p, <<"abandoned">>, Row(p)) ELSE Done(p)
    /\ UNCHANGED <<rel, claim, attempt, booking, refund, calls>>

ReleaseAbandoned(p) ==
    /\ At(p, "abandoned")
    /\ rel' = If(MayReleaseUnbound(Row(p).pending.key) /\ SameRevision(p), Released)
    /\ Done(p)
    /\ UNCHANGED <<claim, attempt, booking, refund, calls>>

CompensationRefundedMutated(a) == a.status = "SUCCEEDED" /\ a.comp # "NOT_REQUIRED"
CompensationRefunded(a) == a.status = "SUCCEEDED" /\ a.comp = "REFUNDED"

\* The bound attempt decides: a failure releases; a success to be refunded
\* moves to RESTORATION_PENDING, and its refund releases.
ReadBoundAttempt(p) ==
    LET row == Row(p)
        a == attempt[row.pending.key]
        compensated == a.status = "SUCCEEDED" /\ a.comp # "NOT_REQUIRED"
    IN /\ At(p, "attempt")
       /\ \/ /\ row.state = "FIRST_PENDING" /\ a.status = "FAILED"
             /\ Then(p, <<"bound">>, row) /\ UNCHANGED rel
          \/ /\ row.state = "FIRST_PENDING" /\ compensated
             /\ rel' = If(MayMark(p), Marked)
             /\ IF MayMark(p) THEN Then(p, <<"attempt">>, rel') ELSE Done(p)
          \/ /\ row.state = "RESTORATION_PENDING" /\ CompensationRefunded(a)
             /\ rel' = If(MayRestore(p), Released)
             /\ Done(p)
          \/ /\ \/ row.state = "FIRST_PENDING" /\ ~compensated /\ a.status # "FAILED"
                \/ row.state = "RESTORATION_PENDING" /\ ~CompensationRefunded(a)
             /\ Done(p) /\ UNCHANGED rel
       /\ UNCHANGED <<claim, attempt, booking, refund, calls>>

ReleaseFailed(p) ==
    /\ At(p, "bound")
    /\ rel' = If(MayReleaseBound(Row(p).pending.key) /\ SameRevision(p), Released)
    /\ Done(p)
    /\ UNCHANGED <<claim, attempt, booking, refund, calls>>

\* reconcileBusinessCancellation
FinishBusinessRestoration(p) ==
    /\ At(p, "restore")
    /\ rel' = If(/\ booking[Row(p).pending.key] = "CANCELLED_BY_BUSINESS"
                 /\ refund[Row(p).pending.key] = "SUCCEEDED"
                 /\ MayFinish(p), Released)
    /\ Done(p)
    /\ UNCHANGED <<claim, attempt, booking, refund, calls>>

Reconcile(p) == \/ ReadRow(p) \/ ReadBooking(p) \/ ConsumeForBooking(p)
                \/ ReadKeyedAttempt(p) \/ ReleaseAbandoned(p) \/ ReadBoundAttempt(p)
                \/ ReleaseFailed(p) \/ FinishBusinessRestoration(p)

-----------------------------------------------------------------------------
(* Cancellations and what they give back *)

HasOtherQualifyingHistory(k) ==
    \E other \in Keys \ {k} : booking[other] = "UPCOMING"

\* applyCancellation by the business, one transaction with beginBusinessCancellation:
\* a FIRST purchase must be the one that is consumed, or nothing is cancelled.
MayBeginRestoration(k) == rel.state = "CONSUMED" /\ rel.consumed = k

CancelByBusiness(k) ==
    LET paid == claim[k] = "FIRST"
    IN /\ booking[k] = "UPCOMING"
       /\ IsFirst(claim[k]) => MayBeginRestoration(k)
       /\ booking' = [booking EXCEPT ![k] = "CANCELLED_BY_BUSINESS"]
       /\ rel' = If(IsFirst(claim[k]), Restoring(k, paid))
       /\ refund' = IF paid THEN [refund EXCEPT ![k] = "PENDING"] ELSE refund
       /\ UNCHANGED <<claim, attempt, proc, calls>>

\* The customer cancels more than 24 hours ahead: a paid FIRST waits for its refund.
CancelByCustomer(k) ==
    /\ booking[k] = "UPCOMING" /\ claim[k] # "FREE"
    /\ booking' = [booking EXCEPT ![k] = "CANCELLED_BY_CUSTOMER"]
    /\ refund' = IF claim[k] = "FIRST" THEN [refund EXCEPT ![k] = "PENDING"] ELSE refund
    /\ UNCHANGED <<rel, claim, attempt, proc, calls>>

\* A FIRST that cost nothing is restored in the transaction itself, from the snapshot
\* the transaction began with.
CancelFree(p) ==
    /\ proc[p].todo = <<>>
    /\ \E k \in Keys :
         /\ booking[k] = "UPCOMING" /\ claim[k] = "FREE"
         /\ proc' = [proc EXCEPT ![p] = [@ EXCEPT !.key = k,
                       !.todo = <<"commit">>,
                       !.row = IF MayBeginRestoration(k) /\ ~HasOtherQualifyingHistory(k)
                               THEN rel ELSE None]]
    /\ UNCHANGED <<rel, claim, attempt, booking, refund, calls>>

\* It commits unless a document it writes was written meanwhile.
CommitFree(p) ==
    LET k == Key(p)
        restores == Row(p) # None
    IN /\ At(p, "commit")
       /\ IF booking[k] = "UPCOMING" /\ (restores => rel = Row(p))
          THEN /\ booking' = [booking EXCEPT ![k] = "CANCELLED_BY_CUSTOMER"]
               /\ rel' = If(restores, [Released EXCEPT !.released = k])
          ELSE UNCHANGED <<booking, rel>>
       /\ Leave(p, <<>>)
       /\ UNCHANGED <<claim, attempt, refund, calls>>

\* restoreFirstAfterCustomerCancellation of a refunded deposit: after each decision
\* but NOT_READY the refund's marker is recorded and it is not asked again.
ReadConsumed(p) ==
    /\ proc[p].todo = <<>>
    /\ \E k \in Keys :
         /\ booking[k] = "CANCELLED_BY_CUSTOMER" /\ refund[k] = "SUCCEEDED"
         /\ \/ /\ MayBeginRestoration(k) /\ UNCHANGED refund
               /\ proc' = [proc EXCEPT ![p] = [@ EXCEPT !.key = k, !.todo = <<"history">>,
                                                        !.row = rel]]
            \/ /\ ~MayBeginRestoration(k)      \* restored before, or not applicable
               /\ refund' = [refund EXCEPT ![k] = "RECORDED"] /\ UNCHANGED proc
    /\ UNCHANGED <<rel, claim, attempt, booking, calls>>

Decided(p) == refund' = [refund EXCEPT ![Key(p)] = "RECORDED"] /\ Leave(p, <<>>)

CheckHistory(p) ==
    /\ At(p, "history")
    /\ \/ HasOtherQualifyingHistory(Key(p)) /\ Decided(p)
       \/ /\ ~HasOtherQualifyingHistory(Key(p)) /\ Then(p, <<"restore">>, Row(p))
          /\ UNCHANGED refund
    /\ UNCHANGED <<rel, claim, attempt, booking, calls>>

\* A row that changed is read again.
RestoreEligible(p) ==
    LET unchanged == MayBeginRestoration(Key(p)) /\ SameRevision(p)
    IN /\ At(p, "restore")
       /\ rel' = If(unchanged, [Released EXCEPT !.released = Key(p)])
       /\ IF unchanged THEN Then(p, <<"recheck">>, Row(p)) ELSE Leave(p, <<>>)
       /\ UNCHANGED <<claim, attempt, booking, refund, calls>>

\* A RETURNING purchase does not touch the row, so the history is read again.
RecheckHistory(p) ==
    /\ At(p, "recheck")
    /\ \/ ~HasOtherQualifyingHistory(Key(p)) /\ Decided(p)
       \/ /\ HasOtherQualifyingHistory(Key(p)) /\ Then(p, <<"revert">>, Row(p))
          /\ UNCHANGED refund
    /\ UNCHANGED <<rel, claim, attempt, booking, calls>>

MayRevert(p) == /\ rel.state = "ELIGIBLE" /\ rel.released = Key(p)
                /\ rel.revision = Row(p).revision + 1

RevertRestoration(p) ==
    /\ At(p, "revert")
    /\ rel' = If(MayRevert(p), [To("CONSUMED", rel.pending) EXCEPT !.released = Row(p).released])
    /\ Decided(p)
    /\ UNCHANGED <<claim, attempt, booking, calls>>

\* The process died; the notification of the refund asks again.
Abandon(p) ==
    /\ proc[p].todo # <<>>
    /\ Leave(p, <<>>)
    /\ UNCHANGED <<rel, claim, attempt, booking, refund, calls>>

Restore(p) == \/ CancelFree(p) \/ CommitFree(p) \/ ReadConsumed(p)
              \/ CheckHistory(p) \/ RestoreEligible(p) \/ RecheckHistory(p)
              \/ RevertRestoration(p) \/ Abandon(p)

-----------------------------------------------------------------------------
(* The payment side *)

\* A webhook or the worker learns what became of an open attempt; a failed one may
\* still be confirmed at Stripe.
ProviderReports(k) ==
    /\ attempt[k].sent /\ attempt[k].status # "SUCCEEDED"
    /\ \/ attempt' = Recorded(k, "SUCCEEDED")
       \/ attempt[k].status = "OPEN" /\ attempt' = Recorded(k, "FAILED")
    /\ UNCHANGED <<rel, claim, booking, refund, proc, calls>>

\* resolveStaleFirstUnsent, for an attempt that still owns its claim.
ResolveUnsent(k) ==
    /\ attempt[k].status = "NOT_CREATED" /\ MayReleaseBound(k)
    /\ attempt' = [attempt EXCEPT ![k].status = "FAILED", ![k].failed = TRUE]
    /\ UNCHANGED <<rel, claim, booking, refund, proc, calls>>

\* The worker compensates a charge without a booking; refunds come through.
CompensateOrphan(k) ==
    /\ attempt[k].status = "SUCCEEDED" /\ booking[k] = "none"
    /\ attempt[k].comp = "NOT_REQUIRED"
    /\ attempt' = [attempt EXCEPT ![k].comp = "REQUIRED"]
    /\ UNCHANGED <<rel, claim, booking, refund, proc, calls>>

Compensate(k) ==
    /\ attempt[k].comp = "REQUIRED"
    /\ attempt' = [attempt EXCEPT ![k].comp = "REFUNDED"]
    /\ UNCHANGED <<rel, claim, booking, refund, proc, calls>>

RefundSucceeds(k) ==
    /\ refund[k] = "PENDING"
    /\ refund' = [refund EXCEPT ![k] = "SUCCEEDED"]
    /\ UNCHANGED <<rel, claim, attempt, booking, proc, calls>>

Payment(k) == \/ ProviderReports(k) \/ ResolveUnsent(k) \/ CompensateOrphan(k)
              \/ Compensate(k) \/ RefundSucceeds(k)

Init ==
    /\ rel = [state |-> "ELIGIBLE", revision |-> 0, pending |-> None,
              consumed |-> None, released |-> None]
    /\ claim = [k \in Keys |-> "none"]
    /\ attempt = [k \in Keys |-> [status |-> "none", sent |-> FALSE, failed |-> FALSE,
                                  comp |-> "NOT_REQUIRED"]]
    /\ booking = [k \in Keys |-> "none"]
    /\ refund = [k \in Keys |-> "none"]
    /\ proc = [p \in Procs |-> Idle]
    /\ calls = 0

Next ==
    \/ \E p \in Requests : Request(p) \/ Reconcile(p)
    \/ \E p \in Sweeps : StartSweep(p) \/ Reconcile(p)
    \/ \E p \in Restorers : Restore(p)
    \/ \E k \in Keys : Payment(k) \/ CancelByBusiness(k) \/ CancelByCustomer(k)

Spec == Init /\ [][Next]_vars

-----------------------------------------------------------------------------
\* Every variable has its type, and only a pending relationship has a pending claim.
TypeOK ==
    /\ rel \in Relationship
    /\ rel.pending = None <=> rel.state \in {"ELIGIBLE", "CONSUMED"}
    /\ rel.state = "CONSUMED" => rel.consumed # None
    /\ claim \in [Keys -> ClaimState]
    /\ attempt \in [Keys -> AttemptState]
    /\ booking \in [Keys -> BookingState]
    /\ refund \in [Keys -> RefundState]
    /\ proc \in [Procs -> [todo : Seq(Step), key : Keys \cup {None}, new : BOOLEAN,
                           class : Class \cup {None}, row : Relationship \cup {None}]]
    /\ calls \in 0..MaxCalls

\* A booking sold as FIRST that still stands is the one the relationship was consumed
\* by.  So no two such bookings stand at once, however requests, sweeps, refunds and
\* restorations interleave.
OneFirst ==
    \A k \in Keys : booking[k] = "UPCOMING" /\ IsFirst(claim[k])
                      => rel.state = "CONSUMED" /\ rel.consumed = k

\* Money that Stripe took or may yet take for a purchase keeps the claim away from every
\* other purchase until the booking exists or the money is back, unless Stripe once
\* reported a failure.
Charged(k) == /\ attempt[k].status \in {"OPEN", "SUCCEEDED"} /\ ~attempt[k].failed
              /\ attempt[k].comp # "REFUNDED" /\ booking[k] = "none"

ChargedKeepsClaim ==
    \A k \in Keys : Charged(k) => rel.pending # None /\ rel.pending.key = k /\ rel.pending.bound

\* The claim leaves RESTORATION_PENDING only when the money of that purchase is back.
RestoredIsRefunded ==
    [][rel.state = "RESTORATION_PENDING" /\ rel'.state # "RESTORATION_PENDING"
         => \/ attempt[rel.pending.key].comp = "REFUNDED"
            \/ refund[rel.pending.key] = "SUCCEEDED"]_vars

\* An unbound claim whose attempt has gone on is impossible, says reconcile.  No run checks
\* it, as TLC refutes it: a request that resumes a failed attempt claims the FIRST again.
UnboundIsUnsent ==
    rel.state = "FIRST_PENDING" /\ ~rel.pending.bound => ~attempt[rel.pending.key].sent

\* An early cancellation restores the FIRST only if no other purchase stands, says the
\* comment of restoreFirstAfterCustomerCancellation.  No run checks it, as TLC refutes it: a RETURNING
\* purchase that commits after the second look at the history does not touch the row.
RestoredHasNoHistory ==
    \A k \in Keys : /\ rel.state = "ELIGIBLE" /\ rel.released = k
                    /\ \A p \in Restorers : proc[p].todo = <<>>
                    => ~HasOtherQualifyingHistory(k)
=============================================================================
