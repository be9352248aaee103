# Verification of the Bookly API

TLA+ models of the parts of the Bookly API where several processes meet over
shared documents: reserving a staff member's time, taking and giving back a
customer's money, deciding which purchase is a customer's first, sending e-mail and
text messages, handling Stripe events, withdrawing Bookly's own money, rotating
refresh tokens, counting the uses of a promo code, collecting the fee of a late
cancellation or no-show and reminding a customer of an appointment. TLC checks each model on a small
instance; TLAPS proves their safety properties and refinements for every value of their parameters. Every definition is translated from the code under `src/`; `PROJECT.json` maps each to its lines.

The API is an Express server over MongoDB, run as several processes, with
separate worker processes that poll the same collections. Nothing is locked in
memory: what processes owe each other is in document filters
(`findOneAndUpdate`), unique indexes, leases and Mongo transactions. That is
what is modelled. A repository call that is one Mongo operation is one step;
between two awaits of a process any step of another may happen.

## Inventory

| Component | State | Operations | Hard behaviour | What makes it correct |
|---|---|---|---|---|
| Slot reservation (`booking-slot-reservation`) | day document per staff member with intervals; idempotency claims | `reserveOrJoin`, `release` in a transaction | concurrent transactions, aborts, replays, rows older than the claims | no overlap, seats exact, a party acts once |
| Booking payment (`booking-creation.service`, `payment`) | creation claim, PaymentAttempt, RefundOperation, Booking; Stripe's objects | `finalizeCustomerBooking`, `executeDurablePayment`, `persistCustomerBooking`, `refund` | crash between charge and booking, lost provider answers, leases that run out, same-key retries | one charge, a booking or a refund for it and never both |
| Money recovery worker (`money-recovery.service`) | the same documents | `runOnce` | races requests and webhooks | every charge is settled in the end |
| Stripe webhook events (`stripe-webhook`) | one event row with status, lease, attempts | claim, handle, mark, retry, replay | duplicate and overlapping deliveries, handlers that die or overrun | only the holder decides; processed is final; nothing is lost |
| E-mail outbox | one row per message | enqueue, claim, send, settle, sweep | stale claims, ambiguous sends, failed writes | at least once while attempts last, never left pending |
| SMS outbox | the same, plus `providerStarted` | the same, plus the permission to call | the same | at most once |
| FIRST financial relationship (`client`) | revisioned state of a customer with a business | claim, bind, consume, release, restore | recovery sweep against the owner | the first-booking deposit is taken once and restored only after an exact refund |
| Penalty collection and the no-show (`booking-lifecycle`, `no-show-resolution`, `penalty-collection`) | booking status and settlement, the obligation in the ledger, its PaymentAttempt | claim, collect, converge, waive, reverse, recover | the charge is sent after the commit; worker against business against webhooks | a forgiven fee is never paid, a paid one is recorded, booking and ledger agree |
| Booking lifecycle, the rest | booking status | cancel, reschedule, complete | single transactions | one terminal status |
| Packages (checkout, batch, lifecycle, progress) | batch and progress documents | purchase, schedule, cancel sessions | the charge and persist protocol over several slots | sessions used equal sessions booked |
| Calendar journal | journal of calendar mutations | append, dispatch | order per booking, provider errors | last mutation wins |
| Appointment reminders | reminder row with a lease, one decision and one frozen address per channel | schedule, claim, freeze, enqueue, decide, retire | rescheduling, a lost claim, a crash or a changed address while being processed | at most one message per channel and schedule; decisions stay |
| Sessions | refresh-token rows in families | rotate, revoke | rotation against revocation | no live token after a revocation |
| Central payouts | one operation row | initiate, refresh, webhook | resend window, events out of order | one payout per operation |
| Promo redemption | counters and redemption rows | redeem, restore | limits under concurrency | counters equal redemptions |
| Ledger and finance views, provider reversals, availability, marketing, identity and onboarding, catalogue, providers, HTTP shell | mostly single documents, queries, I/O | CRUD and reporting | little or none | not a protocol |

Interactions: a request of `finalizeCustomerBooking` inserts the creation claim,
charges through the payment service (PaymentAttempt, then Stripe), and persists
the booking in one Mongo transaction that also reserves the slot, writes the
ledger, completes the attempt and enqueues the outbox rows. If that fails, it
records that a compensation is required and refunds. The recovery worker and
the webhook handlers run the same payment and refund operations on the same
documents. Outbox workers and the webhook recovery poll their own collections.
`PROJECT.json` lists under `hazards` where each of these can go wrong.

## Modules

**SlotReservation** (with **Occupancy**). `claims` is the claim collection,
`days` the day documents, `txn` the open transactions, each with the snapshot it
reads (`claims`, `days`), what it wrote (`wKeys`, `wDays`), and what others
committed since (`sKeys`, `sDays`). A write to a document that another
transaction has written aborts with a conflict (`CanWrite`), as in MongoDB. `Call` is
one call of the service: `CreateInterval`, `JoinCapacity`, `Replay`,
`ReleaseApplied`, `AlreadyReleased`, `ReleaseHistorical`, or a refusal that ends
the transaction (`Abort`). The callers (creation, lifecycle, packages) are
reduced to which calls they may make in which order: any. `Historical` rows are
reservations from before the claims. `Occupancy` is the abstract calendar: a set
of seated parties, consistent at every moment, none of which returns once it
has left.

**BookingPayment** (with **Settlement**). `claim`, `attempt`, `op` and `booking` are the
documents of one idempotency key, `stripe` what Stripe holds (the first answers
too, which its idempotency keys replay), `proc` the next await of each process and
the value it carries across it. Requests run Finalize, Terms, CreateOrResume,
Retrieve or Search, CreateIntent, Record, ClaimPersistence, Persist,
RequireCompensation and the refund steps; the worker runs PickAttempt,
ResolveUnsent, CancelExpired, CheckOrphan, ClaimCompensation, PickRefund and the
refund steps; webhook handlers run HookIntent and HookRefund. The filters of the
repositories are operators of their own (MayClaimPersistence,
MayClaimCompensation, OwnsPersistence, AllowedPrevious, Recoverable). `Settlement`
is the promise to the customer: charge, then a booking or a refund.

**EmailOutbox**, **SmsOutbox** (with **Delivery**). One row, worker processes with
several runners each (the concurrent loop of a pass), the provider as two
counters. A pass sweeps stale claims, then claims until nothing is due. `Delivery`
is one message with a limit on provider calls: the attempts for e-mail, one for
SMS.

**WebhookEvent**. One event row, the deliveries that carry it, the recovery worker
and an operator's replay. Handle stands for the dispatch to a handler, whose
outcome may be success, a failure that needs investigation, a retryable error, or
a crash. The handlers of payment and refund events are in BookingPayment, that of
payouts in CentralPayout.

**FirstRelationship**. `rel` is the financial relationship inside the customer's client
document, with its revision; `claim`, `attempt`, `booking` and `refund` are what a
purchase (a key) has in the other collections; `proc` is, per process, the steps it still
has to do and the row it has read. A request runs Begin, ResolveForFinalize,
RecordContract, Charge, BindPaymentAttempt, Dispatch, Persist, and on a failure
RequireCompensation, ReleaseAfterFailure and DropClaim. The sweep (also run by webhooks and at
the end of a failed request) reads the row, the booking and the attempt in turn and then
writes, guarded by the revision it read. A restorer is either the early cancellation of
a free FIRST, a transaction with a snapshot, or the restoration after a refund, with its
two looks at the history around the write. One operator stands for each filter of the
repository (`May...`) and one for each update. Attempts and refunds move as the models
of the payment say (`Payment`).

**CentralPayout**. `operation` is the collection, `payout` what Stripe made of each
idempotency key, `notices` the events it still delivers, `actor` a call or delivery with
the document it read. A call initiates or refreshes, looks the payout up, sends or
closes (SendOrBlock), hears from Stripe or does not (CreatePayout, RecordFailure). Stripe may pay
and the call hear nothing, and it may refuse a request whatever an earlier one did: rate limits, secret
keys and permissions are checked before the idempotency key. Calls
and deliveries alike apply a status, read again when another writer won, and
apply again (Apply, Reread). Restart drops every process and may change the settings.

**RefreshSession**. `row` is the session collection, `client` a request with the rows its open
transaction wrote and whether another write has made it stale. Rotation and revokeFamily
commit only if they are not; revokeAllForUser is an update that finds rows and then
writes those that are still live.

**PromoUsage**. `promo`, `usage` and `redemption` are the three collections, `checkout` the limits
a purchase resolved. The booking transaction and the cancellation are one step each:
they write the promo document, so two of them conflict and one runs again. Deletion is
two steps, as in the code.

**PenaltyCollection** (with **Fee**). `booking` is what the fee depends on, `obligation` its row in the
ledger, `attempt` the one PaymentAttempt of the obligation, `stripe` the PaymentIntent,
`proc` the next await of each process and what it has read. A collector is the cancelling request
(CancelLate) or the overdue no-show worker (ClaimNoShow, AutoWaive): it writes booking,
obligation and attempt in one transaction and then sends the charge (Collect, Dispatch). A request of the
business waives the fee or reverses the no-show: the gate (ReadGate, ReadGateAttempt) converges a
terminal result first, and InsertWaiver, ConvertFailed or ReverseNoShow write under their
own filters, once again from the gate if another was faster. The recovery worker
(PickReconcile, PickUnsent, PickFailed) and the webhooks (Deliver) record what Stripe says.
All of them converge alike (ReadAttempt, Judge, SettleSuccess, SettleFailure): a
success under the persistence lease, each in a transaction that settles the
obligation and the booking together. Fee is what the customer is promised: the fee is asked for once and only
while it is due, collected when it was paid, and failed or forgiven only when it was not and will not be.
Its `fee` is the obligation, or FORGIVEN once the booking says so; its `charge` is Stripe's PaymentIntent.

**AppointmentReminder**. `reminder` is one row (a kind of reminder for one start of one booking),
`appointment` where its booking is, `outbox` the addresses a message was enqueued for on each channel,
`runner` the next await of each runner of the worker and what it carries: the channels left,
the addresses on the row it claimed, the one it uses. The scheduler runs BookHere, MoveAway and, after
the commit of whatever ends the booking, RetireReminders. A runner claims the row, checks the booking and then
takes the channels in turn: ChooseRecipient, FreezeRecipient, EnqueueMessage,
RecordDecision, for a text message after an e-mail also RecheckBooking. HoldsReminder and MayDecide are the
filters of its writes. A write whose answer is lost counts as failed for the runner and is done for the row.

**Standalone** composes FirstRelationship, CentralPayout, RefreshSession, PromoUsage and
AppointmentReminder: they share no state, so a behaviour runs one
of them and leaves the others at their start. MCStandalone adds the instance, a
symmetry and a view.

Each `MC*` module adds the model values and the small data of its `.cfg`.

## Runs

| Run | Instance | Shows |
|---|---|---|
| `slot_reservation` | 3 keys, 2 transactions of 2 calls, 2 days, an exclusive service and a class of three | no double booking, exact seats, effects backed and applied once, implements Occupancy |
| `booking_payment` | 1 request, worker, 1 webhook; each may die; 1 fault, fair | never a booking and a compensation, records never ahead of Stripe, terminal records stay, every charge settles |
| `booking_payment_pair` | 2 requests of one key, worker; one of the requests and the worker may die; 2 faults | COMPLETED means booked; implements Settlement (charged once, settled one way) |
| `email_outbox` | 2 workers, 3 runners, 3 attempts, 2 faults, fair | a fresh claim is its owner's, implements Delivery, rows drain |
| `sms_outbox` | the same | at most one call, FAILED was never sent, rows settle |
| `webhook_event` | 2 deliveries, recovery, 1 replay, 3 attempts, 3 faults, fair | holder decides, ends kept, retryable is claimable, event settles |
| `standalone` | FIRST: 2 keys, 2 requests, 2 calls, a sweep, a restorer. Payout: 2 withdrawals, 2 administrators, 1 delivery, 1 retry. Sessions: 3 tokens, 2 families, 2 requests. Promo: 2 purchases, 2 customers, limits 1, 2 and none. Reminder: 1 row of either kind, 2 runners, 2 addresses, 2 attempts | one FIRST at a time, a charged claim is kept, restored only when refunded; closed as not sent is unpaid, acknowledged is kept, no status goes back; one live token per family, none in an ended one; counters equal uses; one message per channel, decisions stay; the types of all five (`TypesOK`) |
| `penalty_collection` | 1 collector, worker, 1 request of the business, 1 webhook; each may die; 1 fault, fair | a forgiven fee is not paid nor about to be, the booking tells what the ledger tells, the ledger what Stripe did; implements Fee; every obligation is decided, a failed one can be waived |
| `refund_race`, `retained_claim`, `failure_reported`, `payout_rejected` | small | four disagreements between code and documentation, below |

Bounds. Two transactions suffice for every conflict, and two calls each for
releasing and reserving in one transaction (rescheduling). Three keys fill the
class of three with parties of one and two, beside an exclusive slot that
overlaps it and one that only touches it. One key of checkout is enough because keys share no
document of the payment; two requests are the retry that overtakes the first
attempt, and the worker is a third party to every race. MaxFaults counts
crashes, provider calls that throw and searches that miss: one is needed for each
recovery path, and a second, in the pair, for a failure of the recovery itself. Three attempts
give an outbox row a first, a middle and a last one. The code's limits (5 e-mail
attempts, 8 webhook attempts) only repeat the middle.

In `standalone` two purchases are what a FIRST can be disputed by, and each may be the first,
the second or (the same key again) the retry; revisions are only ever compared, so its
view keeps how far behind the row is that a process has read, not the number, and the
row itself only where its contents can still matter. Larger instances were run once without an
error: three calls in FirstRelationship (2.2 million states), and a payout that is paid
and then fails (2.4 million). Two administrators and a delivery are the three
writers that can meet on an operation, one more than a compare-and-set can lose to, and
one retry is enough for the loop to run out. Three tokens are a login and two
rotations; two families a second login, or a second device. Two runners are the one that lost its
claim and the one that took over, two attempts the first and the last, two addresses a change of one; three attempts
were run once without an error (344 thousand states).

In the penalty one collector suffices: whoever makes a fee due does so in one transaction
guarded by the booking's status, so a second one finds it made. The request of the
business starts again whenever it is done, so a waiver meets what an earlier reversal or waiver
left; two of them at once (a waiver against a reversal), with two faults and without the
temporal properties, were run once without an error (77 seconds with a state
constraint that left out deliveries while both were under way). The fault is a lost answer, a crash or
an outlived lease.

Every type invariant is proved. Those of SlotReservation, the outboxes, WebhookEvent and
BookingPayment are in no run any more. `TypesOK` of `standalone` is the conjunction of its five components' type invariants, which also say that one
withdrawal holds the slot and which uses of a promo are counted.

Deadlock is checked except in BookingPayment, PenaltyCollection and `standalone`: there a checkout can rightly
stop for good (and the retained claim below stops one wrongly), tokens and purchases are
used up, and once a fee is decided nothing is left to do. The other models have workers that poll for ever.

Time. Leases, claim timeouts and retry delays are flags that an action may set at
any moment (`LeaseExpires`, `GoesStale`, `FallsDue`): a process may stall for any
time, so a lease may always run out before its holder goes on.

Fairness. The workers loop for ever under a supervisor, so a step of theirs that
stays possible happens (weak fairness of `WorkerStep`, `Proceed`). Provider calls have
timeouts and end. Stripe settles a refund and redelivers an event until it is
handled, hence strong fairness of HookIntent: between deliveries the worker may
disable it. A request is given no fairness: it may stop anywhere, which makes its
crash and its stall the same. No fairness is asked of Enqueue, of a customer, of
replays or of faults.

In PenaltyCollection a process that has begun goes on unless it dies (weak fairness of
`Continue`), and each pass of the worker is strongly fair: `runOnce` runs every pass in every
loop and its candidates rotate, while another pass, or a request, may disable one between two loops. Two
assumptions come from the code. No client secret of a penalty charge is handed out, so
nobody completes one that failed or asks for an action. And an attempt counts as stale and unsent
only when the request that was to send it is over: `STALE_FIRST_UNSENT_MS` (15
minutes, `money-recovery.service.ts:32-35`) is said to exceed any request in flight. Nothing else
excludes a slower one: without that guard of `PickUnsent`, TLC finds the collector
passing its checks, the worker finding no charge and closing the attempt as FAILED, and then
the collector sending it, which refutes `OutcomeIsStripes`.

## Findings

* `refund_race`: the request and the worker run one compensation refund at once.
  The second reads a source whose refundable amount the first has used up and
  marks the shared operation FAILED (`payment.service.ts:498`); the customer is
  refunded and the checkout says the refund failed.
* `retained_claim`: a first booking without a saved card throws before a
  PaymentAttempt exists, and its creation claim is kept. Every later call with
  that key waits for a booking nobody makes.
* `failure_reported`: a refund operation can become FAILED without its attempt
  learning it (the throw after `payment.service.ts:498`, or a crash before the
  copy), and an attempt that is REFUND_PENDING by then is never closed.
* `payout_rejected`: a withdrawal whose first answer was lost is sent again and refused for
  its rate, its key or a permission, which `stripe-central-payout-gateway.ts:15-21` counts
  among the errors "that prove no object was created". It is closed as REJECTED although Stripe pays it, the slot is
  free for a second withdrawal of the same money, and the payout's events are acknowledged and not stored. The
  run has `Repeating` FALSE; with the retries of the Stripe client itself (`stripe-client.ts` leaves its
  default) one call of `createPayout` is enough.

## Disagreements without a run

Met while modelling, each against what a comment of the code says. The first seven are
stated as definitions in their modules; TLC refutes each when it is added to the
invariants of `Standalone.cfg` (the first to those of `SmsOutbox.cfg`), in which no run lists them.

* `PendingIsClaimable` (SmsOutbox): the stale sweep (`sms-outbox.repository.ts:227`) returns a row to
  PENDING after its last attempt, and no claim takes it again; `:18` resets a row "for another claim", and
  the e-mail sweep fails such rows. The liveness property of `sms_outbox` names this case and the row that
  was issued and whose worker died (held for people on purpose) as the only two that do not settle.
* `RestoredHasNoHistory` (FirstRelationship): the comment of
  `customer-refund-first-restoration.ts:25-39` restores the FIRST only if no other purchase
  qualifies, and checks the history again after the write. A RETURNING booking that
  resolved its terms earlier may commit after that second look; the cancellation of a
  free FIRST looks at its own snapshot only; a process that dies between the write and the
  second look is answered ALREADY_RESTORED from then on; and another purchase may claim
  the FIRST before the revert, which then does not match.
* `UnboundIsUnsent` (FirstRelationship): `financial-relationship.service.ts:528-531` takes
  an unbound claim whose attempt has progressed for impossible. After a failed attempt
  released the claim, a request of the same key claims it again, unbound; if it dies
  there, the sweep leaves FIRST_PENDING for ever.
* `UsedIsKept` (PromoUsage): `promo.service.ts:130-146` (rule #17) never deletes a promo with a redemption,
  but counts and deletes in two steps, and a booking may commit between them. A
  cancellation of that booking by the business then always fails
  (`promo-redemption.repository.ts:82-84`).
* `UnsentIsUnsent` (AppointmentReminder): a row is SKIPPED, and a channel SKIPPED_INELIGIBLE, only
  before anything was enqueued (`appointment-reminder.types.ts:43-46`, `:82-83`). A runner that dies
  between the outbox and the row leaves the channel PENDING; the next one finds the booking cancelled, or the
  preference off, and decides SKIPPED or SUPPRESSED for a message that is on its way.
* `PendingHasAttempts` (AppointmentReminder): `resetStaleProcessing` returns a row to PENDING after
  its last attempt (`appointment-reminder.repository.ts:256-262`), where it is never claimed; `:50` of the
  types says that it fails after `maxAttempts`. It is the disagreement of `PendingIsClaimable` in another table.
* `CurrentIsKept` (AppointmentReminder): a booking moved away and back finds the CANCELLED row
  of its first start under the same key (`appointment-reminder.repository.ts:103-106`), takes it as scheduled, and its
  customer gets no reminder; `appointment-reminder-scheduler.ts:75-77` schedules one for every upcoming booking of an account.
* A stale request of a key whose booking the business has cancelled can claim the FIRST
  again; the sweep, which does not look at the booking's status
  (`financial-relationship.service.ts:505-520`), consumes it for the cancelled booking.
* `revokeAllForUser` and `revokeAllForUserExcept` (`session.repository.ts:66-88`) are plain
  updates: a successor that a rotation inserts between the match and the write stays
  live. `EndedStaysEnded` is about revokeFamily, which is a transaction for this reason.
* `dispatch` marks the operation as sent with no filter on its state
  (`central-payout.service.ts:317-324`). With two deployments of different settings side by side
  one may close a withdrawal as never sent and the other send it. The model has one
  deployment at a time, and there `NotSentUnpaid` holds.

## Proofs

`SlotReservationProofs` proves for any sets of keys, days, services and slots, any number
of transactions and calls, from `IntentsAssumption` and `HistoricalAssumption` alone (what the
route schemas validate; that historical rows do not overlap to begin with):
`TypeCorrect`, `NeverDoubleBooked`, `CapacityCounted`, `PartiesBacked`, `EffectsOnce` and
`ImplementsTheCalendar`.

The store's properties are not inductive: a commit writes what a transaction
computed on its snapshot. `Inv` therefore says of every *view* (the store and each open
transaction) that each day in it is sound (`DayOK`: no overlap, seats counted,
parties seated in intervals of their slot), and of each transaction that its view
differs from the store only in what it wrote or what has gone stale (`FrameOK`),
that a claim it wrote lies in a day it wrote, and that two transactions wrote
different documents (`WritersApart`). A commit then replaces whole days, together
with all the claims of those days. One lemma per operation
(`CreateKeepsDay`, `JoinKeepsDay`, `ReleaseKeepsDay`, `ReleaseHistoricalKeepsDay`) shows that it keeps a day
sound; `CapacityExact` is about the cardinality of the seats, so those use the
finite-set library. `LocalStep` and `WriteStep` carry a step of one transaction to
`Inv'`, `CommitStep` does the commit, `StepMaps` maps each step to the calendar.

`SmsOutboxProofs` proves `TypeCorrect`, `FailedWasNeverSent` and
`DeliversAtMostOnce` (the refinement of Delivery with a limit of one) from
`WorkersAssumption` and `BoundsAssumption`. The invariant has three parts: runners
that hold a claim hold different attempts, because attemptCount grows with each
claim and no count is given twice; at most one of them ever has the permission
(`providerStarted` is set once and never cleared); and who is about to call, or
knows the answer, has it. Hence at most one call, and a row that fails has none.

`EmailOutboxProofs` proves `TypeCorrect`, `FreshClaimIsKept` and
`DeliversWithinAttempts` from the same assumptions; `WorkersAssumption` also says
that there are finitely many runners. There is no permission here: a stale claim may
still call. The invariant says that attempts are distinct, that a sweep's cut-off
only names claims that are stale, and `Budget`: the calls made and the runners that
still may call are together no more than the claims made. The last is a
fact about cardinalities, with one lemma for taking a claim, one for paying with it
and one for all other steps.

`WebhookEventProofs` proves `TypeCorrect`, `RetryLeft`, `HolderAlone` and `EndsStay`
from `ProcsAssumption` and `BoundsAssumption`. `RetryableIsClaimable` is not
inductive: markRetryable reads the attempts and writes later. The invariant carries
across that gap that whoever still holds the token holds a row below the limit,
since only a claim changes the attempts and a claim changes the token.

`FirstRelationshipProofs` proves `TypesHold`, `OneFirstAtATime`, `ChargedKeepsTheClaim` and
`WaitsForTheMoney` from `ProcsAssumption` and `NoneAssumption`. A request, a sweep and a
restoration decide on what they read some steps earlier; the invariant says what of it still
holds. `Alone`: until there is an attempt one request at a time decides about a key, so a
purchase is never both FIRST and RETURNING. `KeyFit`: an attempt exists only for a FIRST, and one that
is charged has the bound claim. `Fit` says of each process, by the step it is at, what it may rely
on: a request that is about to call Stripe has the bound claim unless the attempt is settled (`CallFit`),
a sweep that releases a bound claim does so for an attempt that failed (`PassFit`), a restoration works on a
booking that is cancelled, and commits an early one only on the snapshot that was CONSUMED by it
(`RestFit`). Steps of others keep this because what it rests on only moves one way (`Stable`): a
failure stays recorded, a booking made stays made, an attempt is not undone. `StepInv` and `StayInv`
carry a step of one process over all the others; then there is one lemma per action.

`StandaloneProofs` proves the other four components of `standalone`, one section each, and then
the composition. The sections are independent of each other and of TLC's instance.

* Sessions: `SessionsTyped`, `OneLivePerFamily` and `EndedIsFinal`, from
  `SessionAssumption`. The invariant adds what the transactions rely on: a request works on rows
  of the family it was given (`Given`); a revocation that is not stale covers every live row of its
  family (`Covers`: whoever adds a row to a family also writes the row it consumes, which
  the revocation has written too); and an ended family has rows, so no login starts it anew.
* Payouts: `PayoutsTyped`, `NotSentIsUnpaid`, `AcknowledgedIsKept` and
  `StatusNeverBack`, from `PayoutAssumption`. `Sound` says of each operation what its document tells of
  Stripe: unsent means Stripe has made nothing of it, what was closed as not sent has no call left that
  could send it, and a status that was acknowledged is no later than the stored one, unless a refusal has closed
  the withdrawal (`GivenUp`), which may then be paid all the same: `RejectedUnpaid` is no theorem but the property that
  `payout_rejected` refutes.
  `KnownOf` says of each process what it has read: a document that the stored one has only
  gone on from, and a status that Stripe reached. A write from a read that is out of date
  is then either refused by its filter or goes on. One lemma (`Onward`) carries what a process knows
  over any step of another.
* Promos: `PromoTyped` and `CountersCountUses`, from `PromoAssumption`. Both counters
  are cardinalities; two lemmas say what one more and one less redemption does to them.
* Reminders: `ReminderTyped`, `OneMessagePerChannel` and `DecisionsAreFinal`, from
  `ReminderAssumption`. The address of a channel is frozen on the row before anything is enqueued
  and never changes, so whoever enqueues, however late, uses the same one: `RowAndOutbox` says that
  the outbox holds no other, `Relies` that a runner past the freeze carries it. `HoldsOpen` says that a
  runner whose claim still stands works on channels that are undecided.
* `AllTyped`: the composition implements the specification of each component (lemma `Apart`: a
  step of one leaves the variables of the others), so `TypesOK` holds of all five together.

`BookingPaymentProofs` proves `TypeCorrect`, `ChargeSettledOneWay`, `CompletedExactlyBooked`,
`DocumentsTellTheTruth`, `TerminalForGood` and `SettlesTheCharge` (the refinement of Settlement) from
`ProcsAssumption`, for any number of requests, workers, deliveries and faults. None of the properties is inductive: a
process writes what it learned several awaits ago. The argument rests on one field. The write that gives the charge up
makes `persist` FAILED, and a booking commits in the transaction that makes it COMPLETED; both are
conditional, and neither value is ever left, so the field says which way the charge went (`Documents`).
Who runs the steps of a refund therefore works on a charge that is given up and can have no booking, whether or not its
lease still stands (`Carried`). The second half of `Carried` is about answers of Stripe: a success or a cancellation that
was read is still true when it is written, while a result that may change
is refused by `AllowedPrevious` if a final one came first. `Stripes` ties Stripe's first answers, which its idempotency keys
replay, to its present state. `Kept` names the four things no step takes back, and `StepInv` with it carries
a step of one process over all the others; there is one lemma per action.

`PenaltyCollectionProofs` proves `PenaltyTyped`, `ForgivenIsUnpaid`, `BookingTellsLedger`,
`LedgerTellsStripe` and `KeepsTheFee` from `PenaltyAssumption`, for any number of collectors, requests of the business, workers, deliveries and faults,
and `SentOnce`: whoever is about to call Stripe is the only one that may, and finds no charge there. The argument:

* Whoever writes the obligation is the one sender, and while there is one nothing was sent
  and nothing is decided (`OneSender`). Once the sender has left, nobody sends any more (`Sent`).
* A charge that is `Sent` and is neither under way nor paid is `Dead`, and stays so: what failed is
  never completed. A result that counts as a definitive failure is only ever read of a dead charge, and an attempt is closed
  as unsent only when nobody can send it (here the guard of `PickUnsent` is needed). So what a process read before it
  settles the obligation as FAILED, and what a gate answers before a waiver or a reversal is written, still holds at
  the write (`Carries`).
* The lease is only given on a success, so its holder settles what Stripe took, even one whose lease
  has run out (`RowFits`).
* The booking is written in the transaction that writes the obligation, from the obligation's state (`Ledger`).
* So each action maps to a step of Fee or a stutter (`StepMaps`, one lemma per action that writes one of the
  mapped parts): a charge is sent from no charge and a PENDING fee (`OneSender`), a result is settled
  with the charge in the state it tells (`Carries`, `RowFits`), and a fee is forgiven only from no fee or a failed one.

Model-checked only: liveness under fairness (`ChargeSettles`, `Drains`, `Settles`, `EventSettles`, `Decided`,
`GateOpens`), which needs ENABLED and is out of the prover's reach, and the four properties that the code
does not have. Nothing here needs induction over data or RECURSIVE definitions. The inductive invariants of
BookingPayment, AppointmentReminder and PenaltyCollection were checked by TLC before they were proved, the last also with two
collectors and two faults (1.3 million states).

## Not modelled

Tax, promo discounts, price and package computation inside a checkout; splitting a slot at
local midnight (a slot that ends on another day is refused, as the code does);
message content and attachments; dispute and account webhooks; admin
actions on refund incidents. Packages and the calendar journal (which
`ordinary-calendar-journal-authority.ts` keeps switched off) are not modelled as components, nor is the rest of the booking lifecycle (rescheduling, completion, other cancellations): their transitions are single
compare-and-set transactions, or claim protocols of the shape of the outboxes, and what they do to the
shared documents is in the models of those (releases in SlotReservation, cancellations
in FirstRelationship and PromoUsage). Of the penalties, those of package operations, the
obligations from before P5 with their other keys, and the settlement notices are left out; of the reminders, what an account's closure retires and rows from before text messages. The rest of the inventory is CRUD, reporting or
I/O; `PROJECT.json` gives each reason.

## What could be added

1. The package batch, whose resume runs the charge protocol over several
   slots and claims the FIRST for the whole batch.
2. The composition of AppointmentReminder with the two outboxes.
3. The order of one booking's mutations in the calendar journal.
