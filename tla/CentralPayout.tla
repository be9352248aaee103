---------------------------- MODULE CentralPayout ----------------------------
(***************************************************************************)
(* Withdrawals from Bookly's own Stripe account.  An administrator starts  *)
(* or refreshes a withdrawal, Stripe tells its progress in webhooks that   *)
(* come late and out of order, and every write to the operation is one     *)
(* conditional update made from a document that was read earlier.          *)
(*                                                                         *)
(* Stripe makes at most one payout for an idempotency key and repeats it   *)
(* for 24 hours; refresh sends for 23.  A refusal need not be its answer   *)
(* to the key: requests over the rate, with another secret key or without  *)
(* the permission are refused whatever came of the key before.             *)
(***************************************************************************)
EXTENDS Naturals

CONSTANTS Withdrawals,   \* operations, each with its request key
          Admins,        \* API calls
          Deliveries,    \* webhook deliveries
          Lifecycle,     \* per operation, the statuses Stripe moves its payout through
          MaxRetries,    \* retriesRemaining
          Repeating      \* the Stripe client repeats a request that got no answer

Status == {"pending", "in_transit", "paid", "failed", "canceled"}
Rank == [pending |-> 0, in_transit |-> 1, paid |-> 2, failed |-> 3, canceled |-> 3]

ASSUME PayoutAssumption == /\ Admins \cap Deliveries = {} /\ MaxRetries \in Nat
                           /\ "none" \notin Withdrawals
                           /\ Lifecycle \in [Withdrawals -> SUBSET Status]
                           /\ Repeating \in BOOLEAN

VARIABLES operation,     \* CentralPayoutOperation documents
          payout,        \* what Stripe made of each key, if anything
          notices,       \* payout events Stripe still delivers
          acknowledged,  \* those the program has processed
          actor,         \* calls and deliveries under way
          allowed        \* the deployment's settings let payouts be sent

payoutVars == <<operation, payout, notices, acknowledged, actor, allowed>>

\* dispatchCount only tells a withdrawal that was never sent from one that was; slot is
\* the activeSlot, which a unique index gives to one document; notSent is a failureMessage
\* that begins "Not sent".
Operation == [state : {"absent", "PREPARED", "UNKNOWN", "SUBMITTED", "REJECTED"},
              status : Status \cup {"none"}, sent : BOOLEAN, slot : BOOLEAN,
              notSent : BOOLEAN]
Absent == [state |-> "absent", status |-> "none", sent |-> FALSE, slot |-> FALSE,
           notSent |-> FALSE]

Actor == [at : {"idle", "look", "dispatch", "send", "refused", "unclear", "apply",
                "reread", "ack"},
          of : Withdrawals \cup {"none"}, doc : Operation, status : Status \cup {"none"},
          retries : 0..MaxRetries]
Free == [at |-> "idle", of |-> "none", doc |-> Absent, status |-> "none", retries |-> 0]

Doc(a) == actor[a].doc
Stored(a) == operation[actor[a].of]
Move(a, at) == actor' = [actor EXCEPT ![a].at = at]
Stop(a) == actor' = [actor EXCEPT ![a] = Free]
ToApply(a, status) == actor' = [actor EXCEPT ![a].at = "apply", ![a].status = status,
                                           ![a].retries = MaxRetries]
Finish(a) == IF a \in Deliveries THEN Move(a, "ack") ELSE Stop(a)

Unconfirmed(o) == operation[o].state \in {"PREPARED", "UNKNOWN"}
Store(o, changes) == operation' = [operation EXCEPT ![o] = changes]
Closed(doc, notSent) == [doc EXCEPT !.state = "REJECTED", !.slot = FALSE, !.notSent = notSent]

-----------------------------------------------------------------------------
\* initiate: a request key has one operation, and one operation has the slot.
Initiate(a) ==
    /\ actor[a].at = "idle" /\ allowed
    /\ \E o \in Withdrawals :
         /\ operation[o].state = "absent"
         /\ \A other \in Withdrawals : ~operation[other].slot
         /\ Store(o, [Absent EXCEPT !.state = "PREPARED", !.slot = TRUE])
         /\ actor' = [actor EXCEPT ![a] = [Free EXCEPT !.at = "dispatch", !.of = o,
                                                       !.doc = operation'[o]]]
    /\ UNCHANGED <<payout, notices, acknowledged, allowed>>

\* refresh: the document, then Stripe.
Refresh(a) ==
    /\ actor[a].at = "idle"
    /\ \E o \in Withdrawals :
         /\ Unconfirmed(o) \/ operation[o].state = "SUBMITTED"
         /\ actor' = [actor EXCEPT ![a] = [Free EXCEPT !.at = "look", !.of = o,
                                                       !.doc = operation[o]]]
    /\ UNCHANGED <<operation, payout, notices, acknowledged, allowed>>

\* A payout is retrieved, or found in the recent ones; an unconfirmed one that is not
\* among them is sent again, unless it is too old or the request fails.
LookUp(a) ==
    /\ actor[a].at = "look"
    /\ \/ payout[actor[a].of] \in Status /\ ToApply(a, payout[actor[a].of])
       \/ Doc(a).state # "SUBMITTED" /\ Move(a, "dispatch")
       \/ Stop(a)
    /\ UNCHANGED <<operation, payout, notices, acknowledged, allowed>>

NeverSentMutated(doc) == doc.state = "PREPARED"     \* its first answer may be on the way
NeverSent(doc) == ~doc.sent

\* dispatch, up to the request.  Settings that forbid it close a withdrawal that was
\* never sent.
SendOrBlock(a) ==
    LET o == actor[a].of
    IN /\ actor[a].at = "dispatch"
       /\ \/ allowed /\ Store(o, [Stored(a) EXCEPT !.sent = TRUE]) /\ Move(a, "send")
          \/ /\ ~allowed /\ NeverSent(Doc(a))
             /\ operation' = IF Stored(a).state = "PREPARED" /\ NeverSent(Stored(a))
                             THEN [operation EXCEPT ![o] = Closed(@, TRUE)] ELSE operation
             /\ Stop(a)
          \/ ~allowed /\ ~NeverSent(Doc(a)) /\ Stop(a) /\ UNCHANGED operation
       /\ UNCHANGED <<payout, notices, acknowledged, allowed>>

\* createPayout: Stripe pays, once, or does nothing; its answer may be lost, and that of a
\* repeated request may be a refusal although the first one paid.
CreatePayout(a) ==
    LET o == actor[a].of
    IN /\ actor[a].at = "send"
       /\ \/ /\ payout[o] = "none"
             /\ payout' = [payout EXCEPT ![o] = "pending"]
             /\ notices' = [notices EXCEPT ![o] = {"pending"}]
          \/ UNCHANGED <<payout, notices>>
       /\ \/ payout'[o] \in Status /\ ToApply(a, "pending")
          \/ (payout'[o] = payout[o] \/ Repeating) /\ Move(a, "refused")
          \/ Move(a, "unclear")
       /\ UNCHANGED <<operation, acknowledged, allowed>>

\* A definitive refusal closes an unconfirmed operation; an unclear outcome keeps it.
RecordFailure(a) ==
    /\ actor[a].at \in {"refused", "unclear"}
    /\ operation' =
         IF ~Unconfirmed(actor[a].of) THEN operation
         ELSE [operation EXCEPT ![actor[a].of] =
                 IF actor[a].at = "refused" THEN Closed(@, FALSE)
                 ELSE [@ EXCEPT !.state = "UNKNOWN"]]
    /\ Stop(a)
    /\ UNCHANGED <<payout, notices, acknowledged, allowed>>

-----------------------------------------------------------------------------
(* applyProviderPayout *)

\* syncFromWebhook
Deliver(a) ==
    /\ actor[a].at = "idle"
    /\ \E o \in Withdrawals : \E s \in notices[o] :
         actor' = [actor EXCEPT ![a] = [at |-> "apply", of |-> o, doc |-> operation[o],
                                        status |-> s, retries |-> MaxRetries]]
    /\ UNCHANGED <<operation, payout, notices, acknowledged, allowed>>

\* What was read is not older than what Stripe says, and has not changed since.
Outdated(doc, s) == doc.state = "SUBMITTED" /\ (Rank[s] < Rank[doc.status] \/ s = doc.status)

MayApplyMutated(stored, doc) == stored.state # "REJECTED"
MayApply(stored, doc) ==
    IF doc.state = "SUBMITTED" THEN stored.state = "SUBMITTED" /\ stored.status = doc.status
    ELSE stored.state \in {"PREPARED", "UNKNOWN"}

Apply(a) ==
    LET o == actor[a].of
        s == actor[a].status
    IN /\ actor[a].at = "apply"
       /\ \/ Outdated(Doc(a), s) /\ Finish(a) /\ UNCHANGED operation
          \/ /\ ~Outdated(Doc(a), s) /\ MayApply(Stored(a), Doc(a))
             /\ Store(o, [Stored(a) EXCEPT !.state = "SUBMITTED", !.status = s,
                                           !.slot = FALSE])
             /\ Finish(a)
          \/ /\ ~Outdated(Doc(a), s) /\ ~MayApply(Stored(a), Doc(a))
             /\ Move(a, "reread") /\ UNCHANGED operation
       /\ UNCHANGED <<payout, notices, acknowledged, allowed>>

\* Another writer won: a newer status is applied again, a few times.
MustReapplyMutated(stored, s) == FALSE
MustReapply(stored, s) == stored.state = "SUBMITTED" /\ Rank[stored.status] < Rank[s]

Reread(a) ==
    /\ actor[a].at = "reread"
    /\ \/ ~MustReapply(Stored(a), actor[a].status) /\ Finish(a)
       \/ /\ MustReapply(Stored(a), actor[a].status)
          /\ IF actor[a].retries = 0 THEN Stop(a)
             ELSE actor' = [actor EXCEPT ![a].at = "apply", ![a].doc = Stored(a),
                                         ![a].retries = @ - 1]
    /\ UNCHANGED <<operation, payout, notices, acknowledged, allowed>>

\* markProcessed; a delivery that ends before it is repeated.
Acknowledge(a) ==
    LET o == actor[a].of
        s == actor[a].status
    IN /\ actor[a].at = "ack"
       /\ acknowledged' = [acknowledged EXCEPT ![o] = @ \cup {s}]
       /\ notices' = [notices EXCEPT ![o] = @ \ {s}]
       /\ Stop(a)
       /\ UNCHANGED <<operation, payout, allowed>>

-----------------------------------------------------------------------------
\* Stripe moves a payout on.
Moves(from) == CASE from = "pending" -> Status \ {"pending"}
                 [] from = "in_transit" -> {"paid", "failed"}
                 [] from = "paid" -> {"failed"}
                 [] OTHER -> {}
Progress(o) ==
    /\ \E s \in Moves(payout[o]) \cap Lifecycle[o] : /\ payout' = [payout EXCEPT ![o] = s]
                                   /\ notices' = [notices EXCEPT ![o] = @ \cup {s}]
    /\ UNCHANGED <<operation, acknowledged, actor, allowed>>

\* The process stops, at any point, and starts again, perhaps with other settings.
Restart ==
    /\ actor' = [a \in Admins \cup Deliveries |-> Free]
    /\ allowed' \in BOOLEAN
    /\ UNCHANGED <<operation, payout, notices, acknowledged>>

PayoutInit ==
    /\ operation = [o \in Withdrawals |-> Absent]
    /\ payout = [o \in Withdrawals |-> "none"]
    /\ notices = [o \in Withdrawals |-> {}]
    /\ acknowledged = [o \in Withdrawals |-> {}]
    /\ actor = [a \in Admins \cup Deliveries |-> Free]
    /\ allowed = TRUE

Act(a) == \/ SendOrBlock(a) \/ CreatePayout(a) \/ RecordFailure(a)
          \/ Apply(a) \/ Reread(a) \/ Acknowledge(a)

PayoutNext ==
    \/ \E a \in Admins : Initiate(a) \/ Refresh(a) \/ LookUp(a)
    \/ \E a \in Deliveries : Deliver(a)
    \/ \E a \in Admins \cup Deliveries : Act(a)
    \/ \E o \in Withdrawals : Progress(o)
    \/ Restart

PayoutSpec == PayoutInit /\ [][PayoutNext]_payoutVars

-----------------------------------------------------------------------------
\* Every variable has its type, and the slot is held exactly while Stripe's answer is
\* not known, by one operation.
PayoutTypeOK ==
    /\ operation \in [Withdrawals -> Operation]
    /\ payout \in [Withdrawals -> Status \cup {"none"}]
    /\ notices \in [Withdrawals -> SUBSET Status]
    /\ acknowledged \in [Withdrawals -> SUBSET Status]
    /\ actor \in [Admins \cup Deliveries -> Actor]
    /\ allowed \in BOOLEAN
    /\ \A o \in Withdrawals : operation[o].slot <=> Unconfirmed(o)
    /\ \A o, other \in Withdrawals : operation[o].slot /\ operation[other].slot => o = other

\* A withdrawal that was closed as "Not sent" has made no payout and never will: whoever
\* reads that message may withdraw the same money again.
NotSentUnpaid == \A o \in Withdrawals : operation[o].notSent => payout[o] = "none"

\* A status the program has acknowledged to Stripe is not lost: what is stored is at
\* least as late, in whatever order answers, retrievals and events came.  The events of a
\* withdrawal that was closed on a refusal, although it was paid, are acknowledged and
\* lost (RejectedUnpaid).
GivenUp(o) == operation[o].state = "REJECTED" /\ ~operation[o].notSent
AcknowledgedKept ==
    \A o \in Withdrawals : \A s \in acknowledged[o] :
        \/ operation[o].state = "SUBMITTED" /\ Rank[operation[o].status] >= Rank[s]
        \/ GivenUp(o)

\* What the model of the document says of REJECTED (central-payout-operation.model.ts:19): Stripe
\* certainly created nothing.  The slot is free then for another withdrawal.
RejectedUnpaid == \A o \in Withdrawals : operation[o].state = "REJECTED" => payout[o] = "none"

\* A stored status never goes back, and a confirmed or a rejected withdrawal stays so.
StatusForward ==
    [][\A o \in Withdrawals :
         /\ operation[o].state \in {"SUBMITTED", "REJECTED"}
              => operation'[o].state = operation[o].state
         /\ operation[o].state = "SUBMITTED"
              => Rank[operation[o].status] <= Rank[operation'[o].status]]_payoutVars
=============================================================================
