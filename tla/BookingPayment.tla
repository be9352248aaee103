--------------------------- MODULE BookingPayment ---------------------------
(***************************************************************************)
(* The money of one customer checkout (one idempotency key): the           *)
(* PaymentAttempt, its Stripe PaymentIntent, the booking transaction, and  *)
(* the compensating RefundOperation.  Requests of the same key, the money  *)
(* recovery worker and the webhook handler run the same repository         *)
(* operations; between two awaits of one, any step of another may happen.  *)
(* Every repository operation is one findOneAndUpdate, so one step.        *)
(*                                                                         *)
(* Leases and grace periods are times that a stalled process can always    *)
(* outlive: LeaseExpires may happen at any moment, and the orphan and      *)
(* unsent cut-offs are taken to have passed whenever the worker looks.     *)
(***************************************************************************)
EXTENDS Integers

CONSTANTS Requests,    \* API requests carrying the idempotency key
          Worker,      \* MoneyRecoveryService.runOnce (one process)
          Hooks,       \* webhook deliveries handled at one time
          Nobody,      \* no lease owner
          Crashing,    \* the processes that may die
          MaxFaults    \* bound on crashes, on provider calls that throw and on
                       \* searches that miss

Procs == Requests \cup Hooks \cup {Worker}

ASSUME ProcsAssumption ==
    /\ Worker \notin Requests \cup Hooks /\ Requests \cap Hooks = {}
    /\ Nobody \notin Procs /\ Crashing \subseteq Procs /\ MaxFaults \in Nat

VARIABLES claim,     \* the BookingCreationClaim of the key exists
          attempt,   \* the PaymentAttempt document
          booking,   \* the Booking (with its ledger row) is committed
          op,        \* the RefundOperation refund:<pi>:compensation
          stripe,    \* what Stripe holds
          proc,      \* the next await of every process and the value it carries
          faults

vars == <<claim, attempt, booking, op, stripe, proc, faults>>

Intent == {"none", "requires_action", "processing", "failed", "succeeded", "canceled"}
Refund == {"none", "pending", "succeeded", "failed"}

ProviderStatus == {"NOT_CREATED", "REQUIRES_ACTION", "PROCESSING", "SUCCEEDED",
                   "FAILED", "CANCELED", "UNKNOWN"}
PersistenceStatus == {"NOT_STARTED", "PERSISTING", "COMPLETED", "FAILED"}
CompensationStatus == {"NOT_REQUIRED", "REQUIRED", "REFUND_PENDING", "REFUNDED", "FAILED"}
OperationStatus == {"NONE", "CREATED", "PROVIDER_PENDING", "SUCCEEDED", "FAILED",
                    "RECONCILIATION_REQUIRED"}

Step == {"idle", "terms", "charge", "retrieve", "search", "create", "unknown", "record",
         "claim", "persist", "compensation", "cancel", "note", "close", "orphan",
         "compensate", "refunds", "refund", "rretrieve", "rlookup", "rsource", "rfail",
         "rcall", "rrecord", "rsync", "rledger", "rreconcile"}

\* Process p goes on to step s carrying value v.
Goto(p, s, v) == proc' = [proc EXCEPT ![p] = [at |-> s, got |-> v]]
Return(p) == Goto(p, "idle", "none")
At(p, s) == proc[p].at = s
Got(p) == proc[p].got

Fault == faults < MaxFaults /\ faults' = faults + 1

-----------------------------------------------------------------------------
(* PaymentAttemptRepository *)

NewAttempt == [exists |-> TRUE, provider |-> "NOT_CREATED", pi |-> FALSE, closed |-> FALSE,
               persist |-> "NOT_STARTED", owner |-> Nobody, live |-> FALSE,
               comp |-> "NOT_REQUIRED"]
NoAttempt == [NewAttempt EXCEPT !.exists = FALSE]

\* toPaymentAttemptStatus
StatusOf(i) == CASE i = "succeeded" -> "SUCCEEDED"
                 [] i = "requires_action" -> "REQUIRES_ACTION"
                 [] i = "processing" -> "PROCESSING"
                 [] i = "canceled" -> "CANCELED"
                 [] OTHER -> "FAILED"

\* recordProviderResult: the states a result may supersede.
AllowedPreviousMutated(s) ==       \* a late result overwrites a success
    ProviderStatus \ {"CANCELED"}
AllowedPrevious(s) ==
    CASE s = "SUCCEEDED" -> ProviderStatus \ {"CANCELED"}
      [] s = "CANCELED" -> ProviderStatus \ {"SUCCEEDED"}
      [] OTHER -> ProviderStatus \ {"SUCCEEDED", "CANCELED"}

\* The attempt after result s; refused results leave it alone.  Only one
\* PaymentIntent exists, so the correlation filter always passes.
Recorded(s) == IF attempt.provider \in AllowedPrevious(s)
               THEN [attempt EXCEPT !.provider = s, !.pi = TRUE] ELSE attempt

Leased(p, persist, comp) ==
    [attempt EXCEPT !.persist = persist, !.comp = comp, !.owner = p, !.live = TRUE]

\* claimPersistence and the first branch of claimCompensation: a success that
\* nobody is persisting, or whose persister's lease ran out.
Unclaimed == /\ attempt.comp = "NOT_REQUIRED"
             /\ \/ attempt.persist \in {"NOT_STARTED", "FAILED"}
                \/ attempt.persist = "PERSISTING" /\ ~attempt.live

MayClaimPersistence == attempt.provider = "SUCCEEDED" /\ Unclaimed

MayClaimCompensationMutated ==     \* does not wait for a booking in progress
    attempt.provider = "SUCCEEDED" /\ attempt.comp \in {"NOT_REQUIRED", "REQUIRED"}
MayClaimCompensation ==
    /\ attempt.provider = "SUCCEEDED"
    /\ Unclaimed \/ (attempt.comp = "REQUIRED" /\ ~attempt.live)

\* markCompleted and markCompensationRequired: only the holder of the lease token,
\* whose session began with the claim.
OwnsPersistenceMutated(p) == attempt.persist # "COMPLETED"     \* forgets the token
OwnsPersistence(p) ==
    /\ attempt.provider = "SUCCEEDED" /\ attempt.persist = "PERSISTING"
    /\ attempt.owner = p /\ attempt.comp = "NOT_REQUIRED"

Completed == [attempt EXCEPT !.persist = "COMPLETED", !.owner = Nobody, !.live = FALSE]

\* syncCompensationStatus: markRefunded, markRefundPending, markCompensationFailed.
Compensated(s) == [attempt EXCEPT !.comp = s, !.owner = Nobody, !.live = FALSE]

SyncedMutated(s) == IF s = "NONE" THEN attempt ELSE Compensated("REFUNDED")
Synced(s) ==
    CASE s = "SUCCEEDED" /\ attempt.comp \in {"REQUIRED", "REFUND_PENDING", "REFUNDED"}
           -> Compensated("REFUNDED")
      [] s = "PROVIDER_PENDING" /\ attempt.comp \in {"REQUIRED", "REFUND_PENDING"}
           -> Compensated("REFUND_PENDING")
      [] s = "FAILED" /\ attempt.comp # "REFUNDED" -> Compensated("FAILED")
      [] OTHER -> attempt

\* listRecoverable
RecoverableMutated ==              \* a crashed persister is not looked for
    /\ attempt.exists
    /\ \/ attempt.provider \in {"NOT_CREATED", "UNKNOWN", "PROCESSING", "REQUIRES_ACTION"}
       \/ attempt.provider = "SUCCEEDED" /\ attempt.persist \in {"NOT_STARTED", "FAILED"}
Recoverable ==
    /\ attempt.exists
    /\ \/ attempt.provider \in {"NOT_CREATED", "UNKNOWN", "PROCESSING", "REQUIRES_ACTION"}
       \/ attempt.provider = "SUCCEEDED" /\ attempt.persist # "COMPLETED"
       \/ attempt.comp \in {"REQUIRED", "REFUND_PENDING"}

\* A lease runs out although its holder may still be at work.
LeaseExpires == /\ attempt.live
                /\ attempt' = [attempt EXCEPT !.live = FALSE]
                /\ UNCHANGED <<claim, booking, op, stripe, proc, faults>>

-----------------------------------------------------------------------------
(* The checkout request *)

\* finalizeCustomerBooking: a request goes on as the winner of the claim, or
\* resumes the attempt an earlier request left, unless that one is still
\* persisting.  Every other request only waits for the booking and returns.
Finalize(p) ==
    /\ At(p, "idle")
    /\ \/ /\ ~claim /\ claim' = TRUE
          /\ Goto(p, "terms", "none")
       \/ /\ claim /\ ~booking /\ attempt.exists
          /\ ~(attempt.persist = "PERSISTING" /\ attempt.live)
          /\ Goto(p, "charge", "none") /\ UNCHANGED claim
    /\ UNCHANGED <<attempt, booking, op, stripe, faults>>

\* establishFinancialTerms and the tax computation; a failure of the claim's own
\* request gives the claim back (releaseUncommitted).
Terms(p) ==
    /\ At(p, "terms")
    /\ \/ Goto(p, "charge", "none") /\ UNCHANGED claim
       \/ Return(p) /\ claim' = FALSE
    /\ UNCHANGED <<attempt, booking, op, stripe, faults>>

\* chargeBookingDeposit refuses when the saved card is gone: the claim stays.
\* executeDurablePayment up to the provider: create or resume the attempt.
CreateOrResume(p) ==
    /\ At(p, "charge")
    /\ \/ Return(p) /\ UNCHANGED attempt
       \/ /\ ~attempt.exists /\ attempt' = NewAttempt
          /\ Goto(p, "create", "none")
       \/ /\ attempt.exists /\ UNCHANGED attempt
          /\ \/ attempt.closed /\ Return(p)        \* isProviderCreationClosed
             \/ attempt.pi /\ Goto(p, "retrieve", "none")
             \/ /\ ~attempt.closed /\ ~attempt.pi
                /\ Goto(p, "search", attempt.provider)
    /\ UNCHANGED <<claim, booking, op, stripe, faults>>

Retrieve(p) ==
    /\ At(p, "retrieve")
    /\ Goto(p, "record", stripe.pi)
    /\ UNCHANGED <<claim, attempt, booking, op, stripe, faults>>

\* findPaymentIntentByMetadata is Stripe's search, which may not have indexed the
\* PaymentIntent yet.  A request that finds none creates it, unless an earlier
\* call's outcome is unknown; the worker never creates one.
Search(p) ==
    /\ At(p, "search")
    /\ \/ /\ stripe.pi # "none" /\ UNCHANGED faults
          /\ Goto(p, "record", stripe.pi)
       \/ /\ IF stripe.pi = "none" THEN UNCHANGED faults ELSE Fault
          /\ IF p = Worker THEN Goto(p, "refunds", "none")
             ELSE IF Got(p) = "UNKNOWN" THEN Return(p)
             ELSE Goto(p, "create", "none")
    /\ UNCHANGED <<claim, attempt, booking, op, stripe>>

\* createAndConfirmPaymentIntent under the key payment-attempt:<id>: a repeated
\* call gets the first answer again.
Confirmed == IF stripe.pi # "none" THEN {stripe}
             ELSE {[stripe EXCEPT !.pi = i, !.first = i] :
                      i \in {"requires_action", "processing", "failed", "succeeded"}}

CreateIntent(p) ==
    /\ At(p, "create")
    /\ \/ /\ \E s \in Confirmed : stripe' = s /\ Goto(p, "record", s.first)
          /\ UNCHANGED faults
       \/ /\ Fault /\ Goto(p, "unknown", "none")
          /\ stripe' \in Confirmed \cup {stripe}
    /\ UNCHANGED <<claim, attempt, booking, op>>

\* markProviderUnknown, then the request fails.
MarkUnknown(p) ==
    /\ At(p, "unknown")
    /\ attempt' = IF attempt.provider \in {"SUCCEEDED", "FAILED", "CANCELED"} THEN attempt
                  ELSE [attempt EXCEPT !.provider = "UNKNOWN"]
    /\ Return(p)
    /\ UNCHANGED <<claim, booking, op, stripe, faults>>

\* The result is recorded; what happens next follows the provider's answer, not the
\* stored status.  The worker may be told to cancel an authentication that waits too long.
Record(p) ==
    /\ At(p, "record")
    /\ attempt' = Recorded(StatusOf(Got(p)))
    /\ \/ /\ Got(p) = "succeeded"
          /\ Goto(p, IF p = Worker THEN "orphan" ELSE "claim", "none")
       \/ /\ Got(p) # "succeeded"
          /\ IF p = Worker THEN Goto(p, "refunds", "none") ELSE Return(p)
       \/ /\ p = Worker /\ Got(p) = "requires_action"
          /\ attempt'.provider = "REQUIRES_ACTION" /\ attempt.persist = "NOT_STARTED"
          /\ attempt.comp = "NOT_REQUIRED"
          /\ Goto(p, "cancel", "none")
    /\ UNCHANGED <<claim, booking, op, stripe, faults>>

ClaimPersistence(p) ==
    /\ At(p, "claim")
    /\ \/ /\ MayClaimPersistence /\ attempt' = Leased(p, "PERSISTING", "NOT_REQUIRED")
          /\ Goto(p, "persist", "none")
       \/ ~MayClaimPersistence /\ Return(p) /\ UNCHANGED attempt
    /\ UNCHANGED <<claim, booking, op, stripe, faults>>

\* persistCustomerBooking is one transaction, which completes the attempt with the
\* lease token.  It commits, or fails: a slot was taken, or the lease was lost.  An
\* unknown commit result leaves everything for the worker, as a crash does.
Persist(p) ==
    /\ At(p, "persist")
    /\ \/ /\ OwnsPersistence(p) /\ booking' = TRUE /\ attempt' = Completed
          /\ Return(p)
       \/ Goto(p, "compensation", "none") /\ UNCHANGED <<booking, attempt>>
    /\ UNCHANGED <<claim, op, stripe, faults>>

\* markPaymentCompensationRequired: the owner of the lease goes on to refund.
RequireCompensation(p) ==
    /\ At(p, "compensation")
    /\ \/ /\ OwnsPersistence(p)
          /\ attempt' = [attempt EXCEPT !.persist = "FAILED", !.comp = "REQUIRED",
                                        !.owner = Nobody, !.live = FALSE]
          /\ Goto(p, "refund", "none")
       \/ ~OwnsPersistence(p) /\ Return(p) /\ UNCHANGED attempt
    /\ UNCHANGED <<claim, booking, op, stripe, faults>>

Request(p) == \/ Finalize(p) \/ Terms(p) \/ CreateOrResume(p)
              \/ CreateIntent(p) \/ MarkUnknown(p)
              \/ ClaimPersistence(p) \/ Persist(p) \/ RequireCompensation(p)

-----------------------------------------------------------------------------
(* The recovery worker: a pass over the attempts, then one over the refunds. *)

Unsettled == {"CREATED", "PROVIDER_PENDING", "RECONCILIATION_REQUIRED"}

\* A succeeded operation is listed until its ledger row and the domain agree
\* (markDomainReconciled); a failed one never is.
OpRecoverable == op.status \in Unsettled \/ (op.status = "SUCCEEDED" /\ op.needed)

\* reconcilePaymentAttempt begins.
PickAttempt ==
    /\ At(Worker, "idle")
    /\ \/ Recoverable /\ Goto(Worker, IF attempt.pi THEN "retrieve" ELSE "search", "none")
       \/ ~Recoverable /\ OpRecoverable /\ Goto(Worker, "refunds", "none")
    /\ UNCHANGED <<claim, attempt, booking, op, stripe, faults>>

\* resolveUnsentPaymentAttempt: the strongly consistent list decides whether the
\* PaymentIntent exists.
Unsent == /\ attempt.provider \in {"NOT_CREATED", "UNKNOWN"} /\ ~attempt.pi
          /\ attempt.persist = "NOT_STARTED" /\ attempt.comp = "NOT_REQUIRED"

ResolveUnsent ==
    /\ At(Worker, "idle") /\ attempt.exists /\ Unsent
    /\ IF stripe.pi = "none" THEN Goto(Worker, "close", "none")
       ELSE Goto(Worker, "note", stripe.pi)
    /\ UNCHANGED <<claim, attempt, booking, op, stripe, faults>>

\* markProviderNotCreated: a result recorded meanwhile wins.
CloseUnsent ==
    /\ At(Worker, "close")
    /\ attempt' = IF Unsent THEN [attempt EXCEPT !.provider = "FAILED", !.closed = TRUE]
                  ELSE attempt
    /\ Return(Worker)
    /\ UNCHANGED <<claim, booking, op, stripe, faults>>

\* reconcileAuthenticationExpiry: cancel at Stripe, or re-read when Stripe refuses.
CancelExpired ==
    /\ At(Worker, "cancel")
    /\ \/ /\ stripe.pi \in {"requires_action", "failed"}
          /\ stripe' = [stripe EXCEPT !.pi = "canceled"]
          /\ Goto(Worker, "note", "canceled")
       \/ /\ stripe.pi \notin {"requires_action", "failed"}
          /\ UNCHANGED stripe /\ Goto(Worker, "retrieve", "none")
    /\ UNCHANGED <<claim, attempt, booking, op, faults>>

\* A success with a booking is completed under a persistence claim; one without
\* is an orphan to compensate.
CheckOrphan ==
    /\ At(Worker, "orphan")
    /\ \/ /\ booking /\ Goto(Worker, "refunds", "none")
          /\ attempt' = IF MayClaimPersistence THEN Completed ELSE attempt
       \/ ~booking /\ Goto(Worker, "compensate", "none") /\ UNCHANGED attempt
    /\ UNCHANGED <<claim, booking, op, stripe, faults>>

ClaimCompensation ==
    /\ At(Worker, "compensate")
    /\ \/ /\ MayClaimCompensation /\ attempt' = Leased(Worker, "FAILED", "REQUIRED")
          /\ Goto(Worker, "refund", "none")
       \/ ~MayClaimCompensation /\ Goto(Worker, "refunds", "none") /\ UNCHANGED attempt
    /\ UNCHANGED <<claim, booking, op, stripe, faults>>

\* The refunds pass takes up whatever operation is unsettled, however young.
PickRefund ==
    /\ At(Worker, "refunds")
    /\ IF OpRecoverable THEN Goto(Worker, "refund", "none") ELSE Return(Worker)
    /\ UNCHANGED <<claim, attempt, booking, op, stripe, faults>>

Recovery == \/ PickAttempt \/ ResolveUnsent \/ CloseUnsent \/ CancelExpired
            \/ CheckOrphan \/ ClaimCompensation \/ PickRefund

-----------------------------------------------------------------------------
(* PaymentService.refund, run by requests and worker alike *)

OpenRefund(p) ==
    /\ At(p, "refund")
    /\ \/ /\ op.status = "NONE" /\ op' = [op EXCEPT !.status = "CREATED"]
          /\ Goto(p, "rsource", "none")
       \/ /\ op.status # "NONE" /\ UNCHANGED op
          /\ IF op.refundId THEN Goto(p, "rretrieve", "none")
             ELSE Goto(p, "rlookup", op.status)
    /\ UNCHANGED <<claim, attempt, booking, stripe, faults>>

RetrieveRefund(p) ==
    /\ At(p, "rretrieve")
    /\ Goto(p, "rrecord", stripe.refund)
    /\ UNCHANGED <<claim, attempt, booking, op, stripe, faults>>

\* findRefundByMetadata lists the intent's refunds: strongly consistent.  A failed
\* operation is never dispatched again.
LookupRefund(p) ==
    /\ At(p, "rlookup")
    /\ IF stripe.refund # "none" THEN Goto(p, "rrecord", stripe.refund)
       ELSE IF Got(p) = "FAILED" THEN Return(p)
       ELSE Goto(p, "rsource", "none")
    /\ UNCHANGED <<claim, attempt, booking, op, stripe, faults>>

\* Is the amount still refundable?  A pending refund counts as refunded.
CheckSource(p) ==
    /\ At(p, "rsource")
    /\ Goto(p, IF stripe.refund \in {"pending", "succeeded"} THEN "rfail" ELSE "rcall", "none")
    /\ UNCHANGED <<claim, attempt, booking, op, stripe, faults>>

\* markFailed
FailRefund(p) ==
    /\ At(p, "rfail")
    /\ op' = IF op.status = "SUCCEEDED" THEN op
             ELSE [op EXCEPT !.status = "FAILED", !.needed = FALSE]
    /\ Return(p)
    /\ UNCHANGED <<claim, attempt, booking, stripe, faults>>

\* createRefund under the key refund-operation:<id>.  (markProviderCallStarted, just
\* before, changes nothing that is read: a resumed operation is always looked up.)
Refunded == IF stripe.refund # "none" THEN {stripe}
            ELSE {[stripe EXCEPT !.refund = r, !.firstRefund = r] :
                     r \in {"pending", "succeeded", "failed"}}

CreateRefund(p) ==
    /\ At(p, "rcall")
    /\ \/ /\ \E s \in Refunded : stripe' = s /\ Goto(p, "rrecord", s.firstRefund)
          /\ UNCHANGED faults
       \/ /\ Fault /\ Goto(p, "rreconcile", "none")
          /\ stripe' \in Refunded \cup {stripe}
    /\ UNCHANGED <<claim, attempt, booking, op>>

\* toRefundOperationStatus, and RefundOperationRepository.recordProviderResult.
OpStatusOf(r) == CASE r = "succeeded" -> "SUCCEEDED" [] r = "failed" -> "FAILED"
                   [] OTHER -> "PROVIDER_PENDING"

OpAllowedPrevious(s) ==
    Unsettled \cup (IF s \in {"SUCCEEDED", "FAILED"} THEN {s} ELSE {})

RecordRefund(p) ==
    /\ At(p, "rrecord")
    /\ LET s == OpStatusOf(Got(p)) IN
         op' = IF op.status \in OpAllowedPrevious(s)
               THEN [status |-> s, refundId |-> TRUE, needed |-> op.needed \/ s # "FAILED"]
               ELSE op
    /\ Goto(p, "rsync", op'.status)
    /\ UNCHANGED <<claim, attempt, booking, stripe, faults>>

SyncCompensation(p) ==
    /\ At(p, "rsync")
    /\ attempt' = Synced(Got(p))
    /\ IF Got(p) = "SUCCEEDED" /\ p \notin Requests THEN Goto(p, "rledger", "none") ELSE Return(p)
    /\ UNCHANGED <<claim, booking, op, stripe, faults>>

\* Worker and webhook book the refund in the ledger and call markDomainReconciled.
ReconcileDomain(p) ==
    /\ At(p, "rledger")
    /\ op' = IF op.status = "SUCCEEDED" THEN [op EXCEPT !.needed = FALSE] ELSE op
    /\ Return(p)
    /\ UNCHANGED <<claim, attempt, booking, stripe, faults>>

\* markReconciliationRequired
ReconcileRefund(p) ==
    /\ At(p, "rreconcile")
    /\ op' = IF op.status \in Unsettled
             THEN [op EXCEPT !.status = "RECONCILIATION_REQUIRED", !.needed = TRUE] ELSE op
    /\ Return(p)
    /\ UNCHANGED <<claim, attempt, booking, stripe, faults>>

RefundStep(p) == \/ OpenRefund(p) \/ RetrieveRefund(p) \/ LookupRefund(p) \/ CheckSource(p)
                 \/ FailRefund(p) \/ CreateRefund(p) \/ ReconcileRefund(p)

-----------------------------------------------------------------------------
(* Webhooks *)

\* A payment_intent event: the handler uses the terminal status of the event, or
\* re-reads the intent.  Events may be repeated, late or out of order.
HookIntent(p) ==
    /\ At(p, "idle") /\ stripe.pi # "none"
    /\ Goto(p, "note", stripe.pi)
    /\ UNCHANGED <<claim, attempt, booking, op, stripe, faults>>

\* A charge.refunded event carries the refund as it was.  (charge.refund.updated,
\* which tells of a later failure, leaves operation and attempt alone.)
HookRefund(p) ==
    /\ At(p, "idle") /\ stripe.refund # "none"
    /\ \E r \in {stripe.firstRefund} \cup ({stripe.refund} \cap {"succeeded"}) : Goto(p, "rrecord", r)
    /\ UNCHANGED <<claim, attempt, booking, op, stripe, faults>>

\* recordProviderResult with nothing to follow.
Note(p) ==
    /\ At(p, "note")
    /\ attempt' = Recorded(StatusOf(Got(p)))
    /\ Return(p)
    /\ UNCHANGED <<claim, booking, op, stripe, faults>>

-----------------------------------------------------------------------------
(* Stripe and the customer at the payment form *)

IntentMoves ==
    /\ \/ /\ stripe.pi = "requires_action"
          /\ \E i \in {"processing", "succeeded", "failed"} : stripe' = [stripe EXCEPT !.pi = i]
       \/ /\ stripe.pi = "processing"
          /\ \E i \in {"succeeded", "failed"} : stripe' = [stripe EXCEPT !.pi = i]
       \/ /\ stripe.pi = "failed"            \* re-confirmed with the client secret
          /\ \E i \in {"requires_action", "succeeded"} : stripe' = [stripe EXCEPT !.pi = i]
    /\ UNCHANGED <<claim, attempt, booking, op, proc, faults>>

RefundSettles ==
    /\ stripe.refund = "pending"
    /\ \E r \in {"succeeded", "failed"} : stripe' = [stripe EXCEPT !.refund = r]
    /\ UNCHANGED <<claim, attempt, booking, op, proc, faults>>

\* A process dies; the lease it holds stays in the document.
Crash(p) ==
    /\ ~At(p, "idle") /\ Return(p) /\ Fault
    /\ UNCHANGED <<claim, attempt, booking, op, stripe>>

-----------------------------------------------------------------------------
Init ==
    /\ claim = FALSE /\ attempt = NoAttempt /\ booking = FALSE
    /\ op = [status |-> "NONE", refundId |-> FALSE, needed |-> FALSE]
    /\ stripe = [pi |-> "none", first |-> "none", refund |-> "none", firstRefund |-> "none"]
    /\ proc = [p \in Procs |-> [at |-> "idle", got |-> "none"]]
    /\ faults = 0

WorkerStep == \/ Recovery \/ RefundStep(Worker) \/ Retrieve(Worker) \/ Search(Worker)
              \/ Record(Worker) \/ RecordRefund(Worker) \/ SyncCompensation(Worker)
              \/ ReconcileDomain(Worker) \/ Note(Worker)

HookStep(p) == \/ HookIntent(p) \/ HookRefund(p) \/ Note(p)
               \/ RecordRefund(p) \/ SyncCompensation(p) \/ ReconcileDomain(p)

RequestStep(p) == \/ Request(p) \/ RefundStep(p) \/ Retrieve(p) \/ Search(p) \/ Record(p)
                  \/ RecordRefund(p) \/ SyncCompensation(p)

Next == \/ \E p \in Requests : RequestStep(p)
        \/ WorkerStep
        \/ \E p \in Hooks : HookStep(p)
        \/ \E p \in Crashing : Crash(p)
        \/ LeaseExpires \/ IntentMoves \/ RefundSettles

Spec == Init /\ [][Next]_vars

\* The worker loops for ever, Stripe settles its refunds and delivers its events
\* until they are handled, leases run out.  A request promises nothing: it may stall
\* at any step.
Fairness == /\ WF_vars(WorkerStep)
            /\ \A p \in Hooks : SF_vars(HookIntent(p)) /\ WF_vars(HookStep(p))
            /\ WF_vars(RefundSettles) /\ WF_vars(LeaseExpires)

FairSpec == Spec /\ Fairness

-----------------------------------------------------------------------------
(* Properties *)

\* The type invariant of the documents, the provider's objects and the processes.
TypeOK ==
    /\ claim \in BOOLEAN /\ booking \in BOOLEAN /\ faults \in 0..MaxFaults
    /\ attempt \in [exists : BOOLEAN, provider : ProviderStatus, pi : BOOLEAN,
                    closed : BOOLEAN, persist : PersistenceStatus,
                    owner : Procs \cup {Nobody}, live : BOOLEAN, comp : CompensationStatus]
    /\ op \in [status : OperationStatus, refundId : BOOLEAN, needed : BOOLEAN]
    /\ stripe \in [pi : Intent, first : Intent, refund : Refund, firstRefund : Refund]
    /\ proc \in [Procs -> [at : Step, got : Intent \cup Refund \cup ProviderStatus
                                              \cup OperationStatus]]

\* A charge is settled one way only: with a booking it is never given back, and
\* what is given back has no booking, however requests, worker and webhooks
\* interleave and whoever's lease runs out (claimPersistence against
\* claimCompensation, markCompleted inside the booking transaction).
SettledOneWay == /\ booking => stripe.pi = "succeeded" /\ stripe.refund = "none"
                 /\ booking => attempt.comp = "NOT_REQUIRED" /\ op.status = "NONE"
                 /\ stripe.refund # "none" => stripe.pi = "succeeded"

\* The attempt says COMPLETED exactly when its booking is committed: no crash, lost
\* lease or unknown commit leaves the one without the other.
CompletedIsBooked == (attempt.persist = "COMPLETED") = booking

\* What the documents say for good is what Stripe did: a recorded success or
\* cancellation of the intent, a succeeded refund, a compensation REFUNDED.
ProviderTruth ==
    /\ attempt.provider = "SUCCEEDED" => stripe.pi = "succeeded"
    /\ attempt.provider = "CANCELED" => stripe.pi = "canceled"
    /\ op.status = "SUCCEEDED" \/ attempt.comp = "REFUNDED" => stripe.refund = "succeeded"

\* Success and cancellation are never lost to a late or repeated result
\* (recordProviderResult: "SUCCEEDED and CANCELED are provider-terminal").
TerminalStays ==
    [][attempt.provider \in {"SUCCEEDED", "CANCELED"}
         => attempt'.provider = attempt.provider]_attempt

\* Every charge that Stripe took ends as a booking, as a refund the attempt knows
\* of, or as a refund operation that failed and is left for people: nothing is taken
\* and forgotten, whichever process died where (money-recovery.service.ts).
ChargeSettles ==
    stripe.pi = "succeeded" ~> (booking \/ attempt.comp = "REFUNDED" \/ op.status = "FAILED")

\* A refund that failed is in the end a failed compensation of the attempt: "Provider
\* or local persistence ambiguity remains recoverable by the money-recovery worker"
\* (compensateFailedBookingAfterPayment).
FailureReported == op.status = "FAILED" ~> attempt.comp = "FAILED"

\* compensationStatus FAILED carries the message "The provider reported a terminal
\* refund failure" (markCompensationFailed): the refund has failed at Stripe.
FailedMeansRefundFailed == attempt.comp = "FAILED" => stripe.refund = "failed"

\* A claim that outlives its request is there for the same-key retry to resume the
\* PaymentAttempt (BookingCreationClaimRepository.release: "Charge-bearing failures
\* retain their claim as part of PaymentAttempt resume/compensation correlation").
RetainedClaimResumes ==
    claim /\ (\A p \in Requests : At(p, "idle")) => attempt.exists

Settled == INSTANCE Settlement
             WITH charged <- stripe.pi = "succeeded", booked <- booking,
                  givenUp <- attempt.comp # "NOT_REQUIRED", refund <- stripe.refund,
                  reported <- attempt.comp = "REFUNDED"

\* The documents and their writers implement the settlement of one charge.
ImplementsSettlement == Settled!Spec
=============================================================================
