---------------------------- MODULE WebhookEvent ----------------------------
(***************************************************************************)
(* The life of one Stripe event in StripeWebhookEventRepository: the       *)
(* deliveries that Stripe makes and repeats, the recovery worker and the   *)
(* administrators' replays claim it, run its handler and record the        *)
(* outcome.  Each repository call is one findOneAndUpdate or updateOne:    *)
(* one step; markRetryable reads first.  What a handler does to payments   *)
(* and refunds is in BookingPayment.                                       *)
(*                                                                         *)
(* The lease token of a claim is new, and a process holds one claim at a   *)
(* time: the process stands for it.  attemptCount matters only against     *)
(* its limit, so it is kept up to one above.                               *)
(***************************************************************************)
EXTENDS Naturals

CONSTANTS Deliveries,    \* HTTP deliveries handled at one time
          Recovery,      \* the recovery worker
          Replays,       \* administrators
          Nobody,
          MaxAttempts,   \* MAX_ATTEMPTS
          MaxReplays,    \* bound on replays
          MaxFaults      \* bound on crashes, slow handlers and failed writes

Procs == Deliveries \cup Replays \cup {Recovery}

ASSUME ProcsAssumption == Nobody \notin Procs
ASSUME BoundsAssumption ==
    MaxAttempts \in Nat \ {0} /\ MaxReplays \in Nat /\ MaxFaults \in Nat

VARIABLES event,     \* the event document; expired: its lease has run out
          proc,      \* the next await of every process
          applied,   \* the handler has run to its end at least once
          replayed, faults

vars == <<event, proc, applied, replayed, faults>>

Status == {"ABSENT", "RECEIVED", "PROCESSING", "RETRYABLE", "PROCESSED", "FAILED"}
Step == {"idle", "claim", "handle", "processed", "investigate", "retryable", "requeue", "giveup"}

Goto(p, s) == proc' = [proc EXCEPT ![p] = s]
Return(p) == Goto(p, "idle")
Fault == faults < MaxFaults /\ faults' = faults + 1

-----------------------------------------------------------------------------
(* Claims *)

\* The filter of claim, claimNextDue and claimStoredEvent.  An expired lease is taken
\* over whatever the attempts.
ClaimableMutated ==                \* does not take over the lease of a dead process
    \/ event.status = "RECEIVED"
    \/ event.status = "RETRYABLE" /\ event.attempts < MaxAttempts /\ event.due
ReenteredMutated ==                \* a delivery takes up a failed event again
    \/ event.status \in {"RECEIVED", "FAILED"}
    \/ event.status = "RETRYABLE" /\ event.attempts < MaxAttempts /\ event.due
    \/ event.status = "PROCESSING" /\ event.expired
Claimable ==
    \/ event.status = "RECEIVED"
    \/ event.status = "RETRYABLE" /\ event.attempts < MaxAttempts /\ event.due
    \/ event.status = "PROCESSING" /\ event.expired

Claimed(p) ==
    [event EXCEPT !.status = "PROCESSING", !.token = p, !.expired = FALSE,
                  !.attempts = IF @ > MaxAttempts THEN @ ELSE @ + 1]

\* claim inserts the event first; a duplicate key is no error.
Receive(p) ==
    /\ p \in Deliveries /\ proc[p] = "idle"
    /\ event' = IF event.status = "ABSENT" THEN [event EXCEPT !.status = "RECEIVED"] ELSE event
    /\ Goto(p, "claim")
    /\ UNCHANGED <<applied, replayed, faults>>

\* A delivery that gets no claim is acknowledged and not repeated.
Claim(p) ==
    /\ proc[p] = "claim" \/ (p = Recovery /\ proc[p] = "idle" /\ Claimable)
    /\ \/ Claimable /\ event' = Claimed(p) /\ Goto(p, "handle")
       \/ ~Claimable /\ UNCHANGED event /\ Return(p)
    /\ UNCHANGED <<applied, replayed, faults>>

\* resetFailedForReplay, before claimStoredEvent.
Replay(p) ==
    /\ p \in Replays /\ proc[p] = "idle" /\ event.status = "FAILED" /\ replayed < MaxReplays
    /\ event' = [event EXCEPT !.status = "RETRYABLE", !.attempts = 0, !.due = TRUE]
    /\ replayed' = replayed + 1 /\ Goto(p, "claim")
    /\ UNCHANGED <<applied, faults>>

-----------------------------------------------------------------------------
(* processClaimed *)

\* The handler ends, finds a contradiction that people must look at, or throws.
Handle(p) ==
    /\ proc[p] = "handle"
    /\ \/ applied' = TRUE /\ Goto(p, "processed")
       \/ UNCHANGED applied /\ (Goto(p, "investigate") \/ Goto(p, "retryable"))
    /\ UNCHANGED <<event, replayed, faults>>

\* Every outcome is recorded under the token of its claim.
HoldsMutated(p) == event.status = "PROCESSING"         \* whoever holds it now
Holds(p) == event.status = "PROCESSING" /\ event.token = p

Settled(s) == [event EXCEPT !.status = s, !.token = Nobody, !.expired = FALSE]

MarkProcessed(p) ==
    /\ proc[p] = "processed" /\ Return(p)
    /\ event' = IF Holds(p) THEN Settled("PROCESSED") ELSE event
    /\ UNCHANGED <<applied, replayed, faults>>

MarkFailed(p) ==
    /\ proc[p] \in {"investigate", "giveup"} /\ Return(p)
    /\ event' = IF Holds(p) THEN Settled("FAILED") ELSE event
    /\ UNCHANGED <<applied, replayed, faults>>

\* markRetryable reads the row it still holds ...
SpentMutated == event.attempts = MaxAttempts           \* a take-over may skip the limit
Spent == event.attempts >= MaxAttempts

ReadRetryable(p) ==
    /\ proc[p] = "retryable"
    /\ IF ~Holds(p) THEN Return(p)
       ELSE IF Spent THEN Goto(p, "giveup") ELSE Goto(p, "requeue")
    /\ UNCHANGED <<event, applied, replayed, faults>>

\* ... and then writes.
Requeued == [Settled("RETRYABLE") EXCEPT !.due = FALSE]

Requeue(p) ==
    /\ proc[p] = "requeue" /\ Return(p)
    /\ event' = IF Holds(p) THEN Requeued ELSE event
    /\ UNCHANGED <<applied, replayed, faults>>

\* A write throws, applied or not: markProcessed's failure is handled as the
\* handler's; the others leave the lease to run out.
WriteFails(p) ==
    /\ Fault
    /\ \/ /\ proc[p] = "processed" /\ Goto(p, "retryable")
          /\ event' \in {event} \cup (IF Holds(p) THEN {Settled("PROCESSED")} ELSE {})
       \/ proc[p] \in {"investigate", "requeue", "giveup"} /\ Return(p) /\ UNCHANGED event
    /\ UNCHANGED <<applied, replayed>>

Crash(p) == /\ proc[p] # "idle" /\ Return(p) /\ Fault
            /\ UNCHANGED <<event, applied, replayed>>

\* Sixty seconds after the claim; while its holder is still at work, too.
LeaseExpires ==
    /\ event.status = "PROCESSING" /\ ~event.expired
    /\ IF proc[event.token] \in {"idle", "claim"} THEN UNCHANGED faults ELSE Fault
    /\ event' = [event EXCEPT !.expired = TRUE]
    /\ UNCHANGED <<proc, applied, replayed>>

FallsDue == /\ event.status = "RETRYABLE" /\ ~event.due
            /\ event' = [event EXCEPT !.due = TRUE]
            /\ UNCHANGED <<proc, applied, replayed, faults>>

Init ==
    /\ event = [status |-> "ABSENT", attempts |-> 0, token |-> Nobody,
                expired |-> FALSE, due |-> TRUE]
    /\ proc = [p \in Procs |-> "idle"]
    /\ applied = FALSE /\ replayed = 0 /\ faults = 0

\* What a process does once it has begun; the recovery worker begins by itself.
Proceed(p) == \/ Claim(p) \/ Handle(p) \/ MarkProcessed(p) \/ MarkFailed(p)
              \/ ReadRetryable(p) \/ Requeue(p)

Next == \/ \E p \in Procs : Receive(p) \/ Replay(p) \/ Proceed(p) \/ WriteFails(p) \/ Crash(p)
        \/ LeaseExpires \/ FallsDue

Spec == Init /\ [][Next]_vars

\* The recovery worker polls, what has begun ends unless it dies, time passes.
\* Nothing is assumed of Stripe and of the administrators.
FairSpec == /\ Spec /\ WF_vars(LeaseExpires) /\ WF_vars(FallsDue)
            /\ \A p \in Procs : WF_vars(Proceed(p))

-----------------------------------------------------------------------------
(* Properties *)

\* The type invariant of the event and of its processors.
TypeOK ==
    /\ event \in [status : Status, attempts : 0..(MaxAttempts + 1), token : Procs \cup {Nobody},
                  expired : BOOLEAN, due : BOOLEAN]
    /\ proc \in [Procs -> Step]
    /\ applied \in BOOLEAN /\ replayed \in 0..MaxReplays /\ faults \in 0..MaxFaults

\* While a claim's lease is running, the event is taken from its holder or settled by
\* nobody else: not by deliveries, recovery and replays that also want it, nor by the
\* late outcome of an earlier holder (processingLeaseToken).
HolderDecides ==
    [][event.status = "PROCESSING" /\ ~event.expired
         /\ (event'.status # "PROCESSING" \/ event'.token # event.token)
           => proc'[event.token] # proc[event.token]]_vars

\* The event's two ends: a processed event is never touched again and its handler has
\* run to its end; a failed one comes back only through a replay, with a new budget.
EndsKept ==
    [][/\ event.status = "PROCESSED" => event' = event
       /\ event.status = "FAILED" /\ event' # event => replayed' = replayed + 1 /\ event'.attempts = 0
       /\ event'.status = "PROCESSED" => applied']_vars

\* An event waiting for a retry has attempts left, although take-overs of expired
\* leases count past the limit: it can always be claimed once it is due.
RetryableIsClaimable == event.status = "RETRYABLE" => event.attempts < MaxAttempts

\* Every event that was stored ends processed or failed, whichever process died: the
\* recovery worker takes up what deliveries leave behind (recoverDue).
EventSettles == event.status = "RECEIVED" ~> event.status \in {"PROCESSED", "FAILED"}
=============================================================================
