-------------------------- MODULE PenaltyCollection --------------------------
(***************************************************************************)
(* The late-cancellation or no-show fee of one booking: the obligation in  *)
(* the ledger, its one PaymentAttempt, the off-session charge at Stripe,   *)
(* and the businesses that waive the fee or reverse the no-show meanwhile. *)
(* The obligation is written with the booking's transition; the charge is  *)
(* sent after the commit, by the process that wrote it and by nobody else; *)
(* that process, the webhooks, the recovery worker and a waiver's own gate *)
(* converge the recorded result.                                           *)
(*                                                                         *)
(* Rows and ledger keys from before P5, notices and amounts are left out.  *)
(***************************************************************************)
EXTENDS Integers

CONSTANTS Collectors,  \* cancelling requests and no-show workers
          Admins,      \* requests of the business
          Recovery,    \* money recovery workers
          Hooks,       \* webhook deliveries
          Nobody,
          MaxFaults    \* bound on crashes, lost answers and leases outlived

Procs == Collectors \cup Admins \cup Recovery \cup Hooks

ASSUME PenaltyAssumption == Nobody \notin Procs /\ MaxFaults \in Nat

VARIABLES booking, obligation, attempt, stripe, proc, faults

vars == <<booking, obligation, attempt, stripe, proc, faults>>

\* due: the shortfall is positive and the booking is one whose card may be charged.
Booking == [status : {"UPCOMING", "PENDING", "LATE_CANCELLATION", "NO_SHOW_CHARGED",
                      "NO_SHOW_WAIVED", "NO_SHOW_CANCELLED"},
            claimed : BOOLEAN,     \* noShowChargeClaimedAt
            settlement : {"NOT_APPLICABLE", "PENDING", "SUCCEEDED", "FAILED", "WAIVED"},
            due : BOOLEAN]
Obligation == {"none", "PENDING", "SUCCEEDED", "FAILED", "WAIVED"}

\* A Stripe status goes by the name toPaymentAttemptStatus gives it.
StripeStatus == {"none", "PROCESSING", "REQUIRES_ACTION", "FAILED", "CANCELED", "SUCCEEDED"}
AttemptStatus == StripeStatus \cup {"NOT_CREATED", "UNKNOWN"}
Attempt == [status : AttemptStatus,
            intent : BOOLEAN,      \* providerPaymentIntentId
            persist : {"NOT_STARTED", "PERSISTING", "COMPLETED"},
            owner : Procs \cup {Nobody},   \* whose lease token it is
            live : BOOLEAN]

\* isDefinitivePenaltyFailure
DefinitiveMutated(s) == s \in {"FAILED", "CANCELED", "REQUIRES_ACTION", "UNKNOWN"}
Definitive(s) == s \in {"FAILED", "CANCELED", "REQUIRES_ACTION"}

\* What a process does next, what it has read, and what a business request wants.
Idle == [at |-> "idle", got |-> "none", want |-> "none", again |-> FALSE, regate |-> FALSE]
Step == {"idle", "collect", "dispatch", "unknown", "lookup", "close", "record",
         "attempt", "judge", "settle", "fail",
         "gate", "key", "insert", "convert", "reverse"}

At(p, step) == proc[p].at = step
Took(p, read, step) == proc' = [proc EXCEPT ![p].at = step, ![p].got = read]
Goto(p, step) == Took(p, "none", step)
Leave(p) == proc' = [proc EXCEPT ![p] = Idle]

\* The end of convergeAttempt: a gate is read again, whatever came of it.
Converged(p) == IF proc[p].want = "none" THEN Leave(p)
                ELSE proc' = [proc EXCEPT ![p].at = "gate", ![p].got = "none",
                                           ![p].regate = TRUE]

-----------------------------------------------------------------------------
(* The repositories: a row after a conditional update *)

\* recordProviderResult
Superseded(s) == CASE s = "SUCCEEDED" -> AttemptStatus \ {"CANCELED"}
                   [] s = "CANCELED"  -> AttemptStatus \ {"SUCCEEDED"}
                   [] OTHER           -> AttemptStatus \ {"SUCCEEDED", "CANCELED"}
Recorded(s) == IF attempt.status \in Superseded(s)
               THEN [attempt EXCEPT !.status = s, !.intent = TRUE] ELSE attempt

\* markProviderUnknown; markProviderNotCreated
MarkedUnknown == IF attempt.status \in {"SUCCEEDED", "FAILED", "CANCELED"} THEN attempt
                 ELSE [attempt EXCEPT !.status = "UNKNOWN"]
IsUnsent == /\ attempt.status \in {"NOT_CREATED", "UNKNOWN"} /\ ~attempt.intent
            /\ attempt.persist = "NOT_STARTED"

\* claimPersistence, markCompleted and markPenaltyFailureConverged
MayLease == /\ attempt.status = "SUCCEEDED"
            /\ \/ attempt.persist = "NOT_STARTED"
               \/ attempt.persist = "PERSISTING" /\ ~attempt.live
Leased(p) == [attempt EXCEPT !.persist = "PERSISTING", !.owner = p, !.live = TRUE]
Holds(p) == attempt.persist = "PERSISTING" /\ attempt.owner = p
CompletedMutated == [attempt EXCEPT !.persist = "COMPLETED"]
Completed == [attempt EXCEPT !.persist = "COMPLETED", !.owner = Nobody, !.live = FALSE]
Absorbed == IF Definitive(attempt.status) /\ attempt.persist = "NOT_STARTED"
            THEN Completed ELSE attempt

\* settlePenaltyObligation
MaySettle == obligation = "PENDING"

\* settleCancellationPenalty
LateSettledMutated(s) == booking
LateSettled(s) == IF booking.status = "LATE_CANCELLATION" /\ booking.settlement = "PENDING"
                  THEN [booking EXCEPT !.settlement = s] ELSE booking

\* finalizeBookingSuccess
Finalized == IF booking.status = "PENDING"
             THEN [booking EXCEPT !.status = "NO_SHOW_CHARGED"] ELSE LateSettled("SUCCEEDED")

\* The resolutions of a no-show that no claim has reached, and of any.
Unclaimed == booking.status = "PENDING" /\ ~booking.claimed
MayReverseMutated(p) == booking.status = "PENDING"
MayReverse(p) == booking.status = "PENDING" /\ (proc[p].got = "none" => ~booking.claimed)
MayWaive == \/ booking.status = "PENDING"
            \/ /\ booking.status = "LATE_CANCELLATION"
               /\ booking.settlement \in {"PENDING", "FAILED"}
Waived == IF booking.status = "PENDING" THEN [booking EXCEPT !.status = "NO_SHOW_WAIVED"]
          ELSE [booking EXCEPT !.settlement = "WAIVED"]

-----------------------------------------------------------------------------
(* The transitions that make a fee due *)

\* markNoShow; the deadline passes at any time after.
MarkNoShow ==
    /\ booking.status = "UPCOMING"
    /\ booking' = [booking EXCEPT !.status = "PENDING"]
    /\ UNCHANGED <<obligation, attempt, stripe, proc, faults>>

\* prepareObligation, in the caller's transaction: without a usable card the obligation
\* is FAILED at once and there is nothing to send.
Prepare(p, card) ==
    /\ obligation = "none"
    /\ obligation' = IF card THEN "PENDING" ELSE "FAILED"
    /\ attempt' = IF card THEN [attempt EXCEPT !.status = "NOT_CREATED"] ELSE attempt
    /\ IF card THEN Goto(p, "collect") ELSE UNCHANGED proc

\* cancelByCustomer, late; the transaction of applyCancellation and its penalty.
CancelLate(p) ==
    /\ At(p, "idle") /\ booking.status = "UPCOMING"
    /\ \/ /\ booking.due
          /\ \E card \in BOOLEAN :
               /\ Prepare(p, card)
               /\ booking' = [booking EXCEPT !.status = "LATE_CANCELLATION",
                                !.settlement = IF card THEN "PENDING" ELSE "FAILED"]
       \/ /\ ~booking.due
          /\ booking' = [booking EXCEPT !.status = "LATE_CANCELLATION"]
          /\ UNCHANGED <<obligation, attempt, proc>>
    /\ UNCHANGED <<stripe, faults>>

\* autoResolve of an overdue no-show: claimNoShowPenalty, or a waiver if nothing is due.
ClaimNoShow(p) ==
    /\ At(p, "idle") /\ Unclaimed /\ booking.due
    /\ \E card \in BOOLEAN : Prepare(p, card)
    /\ booking' = [booking EXCEPT !.claimed = TRUE]
    /\ UNCHANGED <<stripe, faults>>

AutoWaive(p) ==
    /\ At(p, "idle") /\ Unclaimed /\ ~booking.due
    /\ booking' = Waived
    /\ UNCHANGED <<obligation, attempt, stripe, proc, faults>>

-----------------------------------------------------------------------------
(* The charge *)

\* collect and the checks of dispatchPenaltyAttempt; the card may be gone by now.
Collect(p) ==
    /\ At(p, "collect")
    /\ \/ obligation # "PENDING" /\ Leave(p)
       \/ /\ obligation = "PENDING"
          /\ \/ attempt.status = "NOT_CREATED" /\ ~attempt.intent /\ Goto(p, "dispatch")
             \/ Goto(p, "attempt")
    /\ UNCHANGED <<booking, obligation, attempt, stripe, faults>>

\* createAndConfirmPaymentIntent.  The answer of a call that reached Stripe, or did not,
\* may be lost.
Dispatch(p) ==
    /\ At(p, "dispatch") /\ stripe = "none"
    /\ \/ /\ \E s \in {"PROCESSING", "REQUIRES_ACTION", "FAILED", "SUCCEEDED"} :
               /\ stripe' = s
               /\ \/ Took(p, s, "record") /\ UNCHANGED faults
                  \/ /\ faults < MaxFaults /\ faults' = faults + 1
                     /\ Goto(p, "unknown")
       \/ /\ faults < MaxFaults /\ faults' = faults + 1
          /\ Goto(p, "unknown") /\ UNCHANGED stripe
    /\ UNCHANGED <<booking, obligation, attempt>>

MarkUnknown(p) ==
    /\ At(p, "unknown")
    /\ attempt' = MarkedUnknown
    /\ Goto(p, "attempt")
    /\ UNCHANGED <<booking, obligation, stripe, faults>>

\* Every result but a webhook's goes on to convergeAttempt; a webhook's only if it is
\* final and is what the row now says.
Record(p) ==
    LET s == proc[p].got
        stored == Recorded(s).status = s
    IN /\ At(p, "record")
       /\ attempt' = Recorded(s)
       /\ IF p \in Hooks => stored /\ s \in {"SUCCEEDED", "FAILED", "CANCELED"}
          THEN Goto(p, "attempt") ELSE Leave(p)
       /\ UNCHANGED <<booking, obligation, stripe, faults>>

\* A delivery about the PaymentIntent, in any order, any number of times; what Stripe says
\* of it is read first.
Deliver(p) ==
    /\ At(p, "idle") /\ stripe # "none" /\ attempt.status # "none"
    /\ Took(p, stripe, "record")
    /\ UNCHANGED <<booking, obligation, attempt, stripe, faults>>

\* Nobody can complete a PaymentIntent that failed or asks for an action, as no client
\* secret is handed out; the dashboard may cancel it.
StripeSettles ==
    /\ stripe = "PROCESSING"
    /\ stripe' \in {"SUCCEEDED", "FAILED"}
    /\ UNCHANGED <<booking, obligation, attempt, proc, faults>>

StripeCancels ==
    /\ stripe \in {"REQUIRES_ACTION", "FAILED"}
    /\ stripe' = "CANCELED"
    /\ UNCHANGED <<booking, obligation, attempt, proc, faults>>

-----------------------------------------------------------------------------
(* convergeAttempt: the attempt is read, then the obligation *)

ReadAttempt(p) ==
    /\ At(p, "attempt")
    /\ IF attempt.status = "SUCCEEDED" \/ Definitive(attempt.status)
       THEN Took(p, attempt.status, "judge") ELSE Converged(p)
    /\ UNCHANGED <<booking, obligation, attempt, stripe, faults>>

\* A success goes on with the persistence lease.  An obligation that contradicts the
\* result is an error: nothing is written.  One that is decided stays, so that it is
\* read with the write that follows.
Judge(p) ==
    LET success == proc[p].got = "SUCCEEDED"
        leases == success /\ obligation \in {"PENDING", "SUCCEEDED"} /\ MayLease
        absorbs == ~success /\ obligation \in {"FAILED", "WAIVED"}
    IN /\ At(p, "judge")
       /\ \/ leases /\ attempt' = Leased(p) /\ Goto(p, "settle")
          \/ ~success /\ obligation = "PENDING" /\ Goto(p, "fail") /\ UNCHANGED attempt
          \/ absorbs /\ attempt' = Absorbed /\ Converged(p)
          \/ /\ ~leases /\ ~absorbs /\ (success \/ obligation # "PENDING")
             /\ Converged(p) /\ UNCHANGED attempt
       /\ UNCHANGED <<booking, obligation, stripe, faults>>

\* The transaction of convergeSuccess, fenced by the lease token.
SettleSuccess(p) ==
    /\ At(p, "settle")
    /\ \/ /\ Holds(p) /\ MaySettle
          /\ obligation' = "SUCCEEDED" /\ booking' = Finalized
          /\ attempt' = Completed
       \/ /\ Holds(p) /\ ~MaySettle /\ obligation = "SUCCEEDED"
          /\ attempt' = Completed /\ UNCHANGED <<booking, obligation>>
       \/ /\ ~Holds(p) \/ obligation \in {"FAILED", "WAIVED"}
          /\ UNCHANGED <<booking, obligation, attempt>>
    /\ Converged(p)
    /\ UNCHANGED <<stripe, faults>>

\* The transaction of convergeFailure; a no-show stays PENDING and claimed.
SettleFailure(p) ==
    /\ At(p, "fail")
    /\ \/ /\ MaySettle
          /\ obligation' = "FAILED" /\ booking' = LateSettled("FAILED")
          /\ attempt' = Absorbed
       \/ /\ ~MaySettle
          /\ attempt' = IF obligation = "SUCCEEDED" THEN attempt ELSE Absorbed
          /\ UNCHANGED <<booking, obligation>>
    /\ Converged(p)
    /\ UNCHANGED <<stripe, faults>>

Converge(p) == ReadAttempt(p) \/ Judge(p) \/ SettleSuccess(p) \/ SettleFailure(p)

-----------------------------------------------------------------------------
(* The passes of the money recovery worker *)

\* listRecoverable
NeedsReconcileMutated == \/ attempt.status \in {"NOT_CREATED", "UNKNOWN", "PROCESSING",
                                                "SUCCEEDED"}
                            /\ attempt.persist # "COMPLETED"
NeedsReconcile == \/ attempt.status \in {"NOT_CREATED", "UNKNOWN", "PROCESSING"}
                  \/ attempt.status = "SUCCEEDED" /\ attempt.persist # "COMPLETED"

\* reconcilePaymentAttempt: retrievePaymentIntent or the lookup by metadata
PickReconcile(p) ==
    /\ At(p, "idle") /\ NeedsReconcile /\ stripe # "none"
    /\ Took(p, stripe, "record")
    /\ UNCHANGED <<booking, obligation, attempt, stripe, faults>>

\* listStalePenaltyUnsent.  An attempt is this old only when the request that was to
\* send it is over: the 15 minutes exceed any request in flight, says the constant.
ResolvableMutated == IsUnsent /\ attempt.status = "NOT_CREATED"
Resolvable == IsUnsent

PickUnsent(p) ==
    /\ At(p, "idle") /\ Resolvable
    /\ \A c \in Collectors : proc[c].at \notin {"collect", "dispatch", "unknown"}
    /\ Goto(p, "lookup")
    /\ UNCHANGED <<booking, obligation, attempt, stripe, faults>>

\* resolveUnsentPaymentAttempt: the list of the customer's PaymentIntents decides.
Lookup(p) ==
    /\ At(p, "lookup")
    /\ \/ ~IsUnsent /\ Goto(p, "attempt")
       \/ IsUnsent /\ stripe # "none" /\ Took(p, stripe, "record")
       \/ IsUnsent /\ stripe = "none" /\ Goto(p, "close")
    /\ UNCHANGED <<booking, obligation, attempt, stripe, faults>>

CloseUnsent(p) ==
    /\ At(p, "close")
    /\ attempt' = IF IsUnsent THEN [attempt EXCEPT !.status = "FAILED"] ELSE attempt
    /\ Goto(p, "attempt")
    /\ UNCHANGED <<booking, obligation, stripe, faults>>

\* listPenaltyFailureConvergencePending
PickFailed(p) ==
    /\ At(p, "idle") /\ Definitive(attempt.status) /\ attempt.persist = "NOT_STARTED"
    /\ Goto(p, "attempt")
    /\ UNCHANGED <<booking, obligation, attempt, stripe, faults>>

-----------------------------------------------------------------------------
(* waiveFee and resolveNoShowByBusiness *)

\* Nothing was due and nothing was claimed.
WaiveNothing(p) ==
    /\ At(p, "idle") /\ Unclaimed /\ ~booking.due
    /\ booking' = Waived
    /\ UNCHANGED <<obligation, attempt, stripe, proc, faults>>

Ask(p) ==
    /\ At(p, "idle")
    /\ \E want \in {"waive", "reverse"} :
         /\ want = "waive" => MayWaive /\ booking.due
         /\ want = "reverse" => booking.status = "PENDING"
         /\ proc' = [proc EXCEPT ![p] = [Idle EXCEPT !.at = "gate", !.want = want]]
    /\ UNCHANGED <<booking, obligation, attempt, stripe, faults>>

\* inspectGate: the obligation, then its attempt.  A terminal result not yet converged is
\* converged here, once.  A reversal goes on from WAIVED, a waiver has its answer.
ReadGate(p) ==
    LET reverse == proc[p].want = "reverse"
    IN /\ At(p, "gate")
       /\ \/ obligation = "none" /\ Took(p, "none", IF reverse THEN "reverse" ELSE "insert")
          \/ obligation = "WAIVED" /\ reverse /\ Took(p, "WAIVED", "reverse")
          \/ obligation = "WAIVED" /\ ~reverse /\ Leave(p)
          \/ obligation = "SUCCEEDED" /\ Leave(p)
          \/ obligation \in {"PENDING", "FAILED"} /\ Took(p, obligation, "key")
       /\ UNCHANGED <<booking, obligation, attempt, stripe, faults>>

ReadGateAttempt(p) ==
    LET failed == proc[p].got = "FAILED" /\ (attempt.status = "none" \/ Definitive(attempt.status))
        converges == /\ ~failed /\ Definitive(attempt.status) /\ ~proc[p].regate
    IN /\ At(p, "key")
       /\ \/ failed /\ Took(p, "FAILED", IF proc[p].want = "waive" THEN "convert" ELSE "reverse")
          \/ converges /\ Goto(p, "attempt")
          \/ ~failed /\ ~converges /\ Leave(p)    \* charged, or in progress
       /\ UNCHANGED <<booking, obligation, attempt, stripe, faults>>

Retry(p) == IF proc[p].again THEN Leave(p)
            ELSE proc' = [proc EXCEPT ![p] = [Idle EXCEPT !.at = "gate", !.again = TRUE,
                                                          !.want = proc[p].want]]

\* insertFeeWaiver; a late cancellation has its obligation from the start.
InsertWaiver(p) ==
    /\ At(p, "insert")
    /\ \/ obligation # "none" /\ Retry(p) /\ UNCHANGED <<booking, obligation>>
       \/ /\ obligation = "none" /\ Unclaimed
          /\ obligation' = "WAIVED" /\ booking' = Waived
          /\ Leave(p)
       \/ /\ obligation = "none" /\ ~Unclaimed /\ Leave(p)
          /\ UNCHANGED <<booking, obligation>>
    /\ UNCHANGED <<attempt, stripe, faults>>

\* convertFailedFeeToWaiver
ConvertFailed(p) ==
    LET applies == obligation = "FAILED" /\ MayWaive
    IN /\ At(p, "convert")
       /\ obligation' = IF applies THEN "WAIVED" ELSE obligation
       /\ booking' = IF applies THEN Waived ELSE booking
       /\ Leave(p)
       /\ UNCHANGED <<attempt, stripe, faults>>

ReverseNoShow(p) ==
    /\ At(p, "reverse")
    /\ booking' = IF MayReverse(p) THEN [booking EXCEPT !.status = "NO_SHOW_CANCELLED"]
                  ELSE booking
    /\ IF ~MayReverse(p) /\ proc[p].got = "none" THEN Retry(p) ELSE Leave(p)
    /\ UNCHANGED <<obligation, attempt, stripe, faults>>

-----------------------------------------------------------------------------
(* A process dies or gives up; a lease runs out, of a dead holder or a slow one *)

Crash(p) ==
    /\ ~At(p, "idle") /\ faults < MaxFaults
    /\ faults' = faults + 1 /\ Leave(p)
    /\ UNCHANGED <<booking, obligation, attempt, stripe>>

HolderWorks == attempt.owner # Nobody /\ At(attempt.owner, "settle")

LeaseExpires ==
    /\ attempt.live
    /\ \/ ~HolderWorks /\ UNCHANGED faults
       \/ HolderWorks /\ faults < MaxFaults /\ faults' = faults + 1
    /\ attempt' = [attempt EXCEPT !.live = FALSE]
    /\ UNCHANGED <<booking, obligation, stripe, proc>>

-----------------------------------------------------------------------------
Init == /\ \E due \in BOOLEAN : booking = [status |-> "UPCOMING", claimed |-> FALSE,
                                           settlement |-> "NOT_APPLICABLE", due |-> due]
        /\ obligation = "none"
        /\ attempt = [status |-> "none", intent |-> FALSE, persist |-> "NOT_STARTED",
                      owner |-> Nobody, live |-> FALSE]
        /\ stripe = "none"
        /\ proc = [p \in Procs |-> Idle]
        /\ faults = 0

\* What a process that has begun does next.
Continue(p) == \/ Collect(p) \/ Dispatch(p) \/ MarkUnknown(p) \/ Record(p)
               \/ Lookup(p) \/ CloseUnsent(p) \/ Converge(p)
               \/ ReadGate(p) \/ ReadGateAttempt(p) \/ InsertWaiver(p)
               \/ ConvertFailed(p) \/ ReverseNoShow(p)

Next == \/ MarkNoShow \/ StripeSettles \/ StripeCancels \/ LeaseExpires
        \/ \E p \in Collectors : CancelLate(p) \/ ClaimNoShow(p) \/ AutoWaive(p)
        \/ \E p \in Admins : WaiveNothing(p) \/ Ask(p)
        \/ \E p \in Recovery : PickReconcile(p) \/ PickUnsent(p) \/ PickFailed(p)
        \/ \E p \in Hooks : Deliver(p)
        \/ \E p \in Procs : Continue(p) \/ Crash(p)

\* A process goes on unless it dies; each pass of the worker is run in every loop, and
\* its candidates rotate; Stripe decides; a lease ends.
Fairness == /\ \A p \in Procs : WF_vars(Continue(p))
            /\ \A p \in Recovery : /\ SF_vars(PickReconcile(p)) /\ SF_vars(PickUnsent(p))
                                   /\ SF_vars(PickFailed(p))
            /\ WF_vars(StripeSettles) /\ WF_vars(LeaseExpires)

Spec == Init /\ [][Next]_vars /\ Fairness

-----------------------------------------------------------------------------
\* Every variable has its type; a lease token exists only while an attempt is persisted,
\* and an attempt only for an obligation that was made with a card.
TypeOK ==
    /\ booking \in Booking /\ obligation \in Obligation /\ attempt \in Attempt
    /\ stripe \in StripeStatus /\ faults \in 0..MaxFaults
    /\ proc \in [Procs -> [at : Step, got : AttemptStatus \cup Obligation, again : BOOLEAN,
                           want : {"none", "waive", "reverse"}, regate : BOOLEAN]]
    /\ attempt.owner # Nobody <=> attempt.persist = "PERSISTING"
    /\ attempt.status # "none" => obligation # "none"

\* A fee the business forgave was not paid and will not be: Stripe has no charge that
\* succeeded or may yet succeed, and nobody is about to make one, whichever of the claim,
\* the waiver, the reversal and the answer of Stripe came first.
Forgiven == \/ obligation = "WAIVED" \/ booking.settlement = "WAIVED"
            \/ booking.status \in {"NO_SHOW_WAIVED", "NO_SHOW_CANCELLED"}

ForgivenUnpaid ==
    Forgiven => /\ stripe \notin {"PROCESSING", "SUCCEEDED"}
                /\ \A p \in Procs : ~At(p, "dispatch")

\* The booking tells what the ledger tells: a late cancellation is settled as its
\* obligation is, a no-show is CHARGED just when the fee was collected, WAIVED when it was
\* waived, and is left open or reversed otherwise.
LedgerAgrees ==
    /\ booking.status = "LATE_CANCELLATION" /\ booking.due => booking.settlement = obligation
    /\ booking.status = "PENDING" => booking.claimed = (obligation # "none")
    /\ booking.status = "NO_SHOW_CHARGED" => obligation = "SUCCEEDED"
    /\ booking.status = "NO_SHOW_WAIVED" => obligation = IF booking.due THEN "WAIVED" ELSE "none"
    /\ booking.status = "NO_SHOW_CANCELLED" => obligation \in {"none", "FAILED"}
    /\ booking.status = "PENDING" => obligation \in {"none", "PENDING", "FAILED"}

\* What the ledger settled is what Stripe did: a collected fee was paid and its attempt is
\* done with; a failed one has no charge that succeeded or still may.  So no convergence
\* meets the contradiction it would stop at for good.
OutcomeIsStripes ==
    /\ obligation = "SUCCEEDED" => stripe = "SUCCEEDED" /\ attempt.persist = "COMPLETED"
    /\ obligation = "FAILED" => stripe \notin {"PROCESSING", "SUCCEEDED"}

\* No obligation stays PENDING, though the request died, the answer was lost or a lease
\* was left behind.  With ForgivenUnpaid and OutcomeIsStripes, which leave no other end:
\* a fee Stripe took is in the ledger in the end.
Decided == obligation = "PENDING" ~> obligation # "PENDING"

\* A failed fee can be waived in the end: a stale result recorded after the failure does
\* not leave the gate at IN_PROGRESS for good.
GateOpens ==
    []<>(obligation = "FAILED" => attempt.status = "none" \/ Definitive(attempt.status))

Charge == CASE stripe = "none"       -> "none"
            [] stripe = "PROCESSING" -> "asked"
            [] stripe = "SUCCEEDED"  -> "paid"
            [] OTHER                 -> "refused"

Promised == INSTANCE Fee WITH fee <- IF Forgiven THEN "FORGIVEN" ELSE obligation,
                              charge <- Charge

\* Ledger, booking, Stripe and all their writers implement the fee as the customer knows it.
ImplementsFee == Promised!Spec
=============================================================================
