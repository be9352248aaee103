------------------------ MODULE AppointmentReminder ------------------------
(***************************************************************************)
(* One reminder of one booking: the row of one kind and of one start the   *)
(* booking has had, and in it a decision for each channel.  A booking that *)
(* moves away retires the row, one that moves to its start schedules it;   *)
(* runners of the reminder worker claim it, decide the channels one after  *)
(* the other and enqueue a message into the outbox of each.                *)
(*                                                                         *)
(* When a row falls due, an appointment begins, or the customer changes an *)
(* address or a preference, is left open.  The outboxes deliver what is    *)
(* enqueued (EmailOutbox, SmsOutbox).                                      *)
(***************************************************************************)
EXTENDS Naturals, FiniteSets

CONSTANTS Runners,      \* the concurrent runners of all worker processes
          Addresses,    \* what the customer's address or phone may be
          Unset,        \* no address, no runner
          MaxAttempts

ASSUME ReminderAssumption == /\ Unset \notin Runners \cup Addresses
                             /\ MaxAttempts \in Nat \ {0}

VARIABLES kind,         \* of the reminder
          appointment,  \* Booking: UPCOMING, at the start of the row or elsewhere, or over
          reminder,     \* AppointmentReminder
          outbox,       \* the addresses a message was enqueued for, on each channel
          runner

reminderVars == <<kind, appointment, reminder, outbox, runner>>

Channels == {"email", "sms"}
Decision == {"PENDING", "ENQUEUED", "SUPPRESSED", "SKIPPED", "NOT_APPLICABLE"}
Reminder == [status : {"absent", "PENDING", "PROCESSING", "COMPLETED", "SKIPPED", "CANCELLED",
                       "FAILED"},
             attempts : 0..MaxAttempts, claimedBy : Runners \cup {Unset}, stale : BOOLEAN,
             decision : [Channels -> Decision],
             frozen : [Channels -> Addresses \cup {Unset}]]

\* left: channels not yet gone through; seen: the addresses on the row that was claimed;
\* enqueued: the e-mail was, in this attempt; failed: a channel had an infra error.
Rest == [at |-> "idle", left |-> {}, seen |-> [ch \in Channels |-> Unset],
         to |-> Unset, decides |-> "PENDING", enqueued |-> FALSE, failed |-> FALSE]

Does(p, step) == runner[p].at = step
Turn(p, step) == runner' = [runner EXCEPT ![p].at = step]
ClaimOver(p) == runner' = [runner EXCEPT ![p] = Rest]
Channel(p) == IF "email" \in runner[p].left THEN "email" ELSE "sms"
Undecided(row) == {ch \in Channels : row.decision[ch] = "PENDING"}
Active == reminder.status \in {"PENDING", "PROCESSING"}

-----------------------------------------------------------------------------
(* The scheduler, in the transaction of the booking or after its commit *)

\* schedule: the row that exists, or a new one; one that is late already is skipped.
Fresh(late) ==
    LET first == IF late THEN "SKIPPED" ELSE "PENDING"
    IN  [reminder EXCEPT !.status = first,
           !.decision = [email |-> first,
                         sms |-> IF kind = "SESSION_END_REMINDER" THEN "NOT_APPLICABLE"
                                 ELSE first]]
Scheduled == IF reminder.status = "absent" THEN {Fresh(late) : late \in BOOLEAN}
             ELSE {reminder}

\* retireActiveForBooking, whoever claims the row
Retired == IF Active THEN [reminder EXCEPT !.status = "CANCELLED", !.claimedBy = Unset,
                                           !.stale = FALSE]
           ELSE reminder

\* onBookingCreatedInTransaction and onBookingRescheduledInTransaction
BookHere ==
    /\ appointment \in {"none", "elsewhere"}
    /\ appointment' = "here" /\ reminder' \in Scheduled
    /\ UNCHANGED <<kind, outbox, runner>>

MoveAway ==
    /\ appointment = "here"
    /\ appointment' = "elsewhere" /\ reminder' = Retired
    /\ UNCHANGED <<kind, outbox, runner>>

\* A cancellation, a completion or a no-show ...
LeaveUpcoming ==
    /\ appointment \in {"here", "elsewhere"} /\ appointment' = "over"
    /\ UNCHANGED <<kind, reminder, outbox, runner>>

\* ... and onBookingRetired, after its commit, if the process lives that long.
RetireReminders ==
    /\ appointment = "over" /\ Active
    /\ reminder' = Retired
    /\ UNCHANGED <<kind, appointment, outbox, runner>>

-----------------------------------------------------------------------------
(* Claims *)

ClaimableReminder ==
    /\ reminder.attempts < MaxAttempts
    /\ reminder.status = "PENDING" \/ (reminder.status = "PROCESSING" /\ reminder.stale)

\* claimNext; the claim token is the runner's, who has one claim at a time.
ClaimReminder(p) ==
    /\ Does(p, "idle") /\ ClaimableReminder
    /\ reminder' = [reminder EXCEPT !.status = "PROCESSING", !.claimedBy = p, !.stale = FALSE,
                                    !.attempts = @ + 1]
    /\ runner' = [runner EXCEPT ![p] = [Rest EXCEPT !.at = "check", !.left = Undecided(reminder),
                                                    !.seen = reminder.frozen]]
    /\ UNCHANGED <<kind, appointment, outbox>>

\* claimTimeoutMs passes, whether the runner is alive or not.
ClaimGoesStale ==
    /\ reminder.status = "PROCESSING" /\ ~reminder.stale
    /\ reminder' = [reminder EXCEPT !.stale = TRUE]
    /\ UNCHANGED <<kind, appointment, outbox, runner>>

\* resetStaleProcessing, at the start of a pass
ResetStale ==
    /\ reminder.status = "PROCESSING" /\ reminder.stale
    /\ reminder' = [reminder EXCEPT !.status = "PENDING", !.claimedBy = Unset, !.stale = FALSE]
    /\ UNCHANGED <<kind, appointment, outbox, runner>>

\* What the filters of the row's writes ask for.
HoldsReminderMutated(p) == reminder.status = "PROCESSING"        \* whoever claimed it
HoldsReminder(p) == reminder.status = "PROCESSING" /\ reminder.claimedBy = p

-----------------------------------------------------------------------------
(* processOne *)

Eligible == appointment = "here"

\* The booking, its purchase, the business: what is not eligible ends the row, or the
\* channel that is left.  The appointment may have begun by now.
CheckBooking(p) ==
    /\ Does(p, "check")
    /\ \/ Eligible /\ Turn(p, "channel")
       \/ Turn(p, IF runner[p].left = Channels THEN "skip" ELSE "close")
    /\ UNCHANGED <<kind, appointment, reminder, outbox>>

\* markSkipped
MarkSkipped(p) ==
    /\ Does(p, "skip") /\ ClaimOver(p)
    /\ reminder' = IF HoldsReminder(p)
                   THEN [reminder EXCEPT !.status = "SKIPPED", !.claimedBy = Unset, !.stale = FALSE,
                                         !.decision = [ch \in Channels |-> "SKIPPED"]]
                   ELSE reminder
    /\ UNCHANGED <<kind, appointment, outbox>>

\* recordChannelDecision: the last one completes the row.
MayDecide(p) == HoldsReminder(p) /\ reminder.decision[Channel(p)] = "PENDING"
WithDecision(p, decision) ==
    LET row == [reminder EXCEPT !.decision[Channel(p)] = decision]
    IN  IF Undecided(row) = {}
        THEN [row EXCEPT !.status = "COMPLETED", !.claimedBy = Unset, !.stale = FALSE] ELSE row

CloseChannel(p) ==
    /\ Does(p, "close") /\ ClaimOver(p)
    /\ reminder' = IF MayDecide(p) THEN WithDecision(p, "SKIPPED") ELSE reminder
    /\ UNCHANGED <<kind, appointment, outbox>>

\* The channel is through; after the last one a failure releases the row.
Through(p, failed) ==
    LET left == runner[p].left \ {Channel(p)}
        bad == failed \/ runner[p].failed
    IN  IF left = {} /\ ~bad THEN ClaimOver(p)
        ELSE runner' = [runner EXCEPT ![p].left = left, ![p].failed = bad, ![p].to = Unset,
                          ![p].decides = "PENDING",
                          ![p].at = IF left = {} THEN "release" ELSE "channel",
                          ![p].enqueued = @ \/ (~failed /\ runner[p].decides = "ENQUEUED")]

Decide(p, decision) == runner' = [runner EXCEPT ![p].at = "record", ![p].decides = decision]

\* Preference, address, provider.  The text message asks once more for the booking if the
\* e-mail has just been enqueued.
ChooseRecipient(p) ==
    LET ch == Channel(p)
        known == runner[p].seen[ch]
    IN /\ Does(p, "channel")
       /\ \/ kind = "REMINDER_24H" /\ Decide(p, "SUPPRESSED")
          \/ (ch = "sms" \/ known = Unset) /\ Decide(p, "SKIPPED")
          \/ \E a \in IF known = Unset THEN Addresses ELSE {known} :
               runner' = [runner EXCEPT ![p].to = a,
                            ![p].at = IF ch = "sms" /\ runner[p].enqueued THEN "recheck"
                                      ELSE IF known = Unset THEN "freeze" ELSE "enqueue"]
       /\ UNCHANGED <<kind, appointment, reminder, outbox>>

RecheckBooking(p) ==
    /\ Does(p, "recheck")
    /\ IF Eligible THEN Turn(p, IF runner[p].seen["sms"] = Unset THEN "freeze" ELSE "enqueue")
       ELSE Decide(p, "SKIPPED")
    /\ UNCHANGED <<kind, appointment, reminder, outbox>>

\* freezeChannelRecipient: set once.  Of this write and the next two the answer may be lost.
FrozenMutated(ch, a) == reminder                 \* kept in memory only
Frozen(ch, a) == [reminder EXCEPT !.frozen[ch] = a]

FreezeRecipient(p) ==
    LET ch == Channel(p)
        a == IF reminder.frozen[ch] = Unset THEN runner[p].to ELSE reminder.frozen[ch]
    IN /\ Does(p, "freeze")
       /\ \/ /\ HoldsReminder(p)
             /\ reminder' = Frozen(ch, a)
             /\ \/ runner' = [runner EXCEPT ![p].at = "enqueue", ![p].to = a]
                \/ Through(p, TRUE)
          \/ ~HoldsReminder(p) /\ ClaimOver(p) /\ UNCHANGED reminder
       /\ UNCHANGED <<kind, appointment, outbox>>

\* The outbox row's unique key holds the reminder, the channel and the address.
EnqueueMessage(p) ==
    /\ Does(p, "enqueue")
    /\ outbox' = [outbox EXCEPT ![Channel(p)] = @ \cup {runner[p].to}]
    /\ Decide(p, "ENQUEUED") \/ Through(p, TRUE)
    /\ UNCHANGED <<kind, appointment, reminder>>

RecordDecision(p) ==
    /\ Does(p, "record")
    /\ \/ /\ MayDecide(p)
          /\ reminder' = WithDecision(p, runner[p].decides)
          /\ \E failed \in BOOLEAN : Through(p, failed)
       \/ ~MayDecide(p) /\ ClaimOver(p) /\ UNCHANGED reminder
    /\ UNCHANGED <<kind, appointment, outbox>>

\* A call of a channel throws with nothing done.
InfraError(p) ==
    /\ runner[p].at \in {"recheck", "freeze", "enqueue", "record"}
    /\ Through(p, TRUE)
    /\ UNCHANGED <<kind, appointment, reminder, outbox>>

\* releaseForRetryOrFail
ReleaseReminder(p) ==
    /\ Does(p, "release") /\ ClaimOver(p)
    /\ reminder' = IF HoldsReminder(p)
                   THEN [reminder EXCEPT !.claimedBy = Unset, !.stale = FALSE,
                           !.status = IF reminder.attempts >= MaxAttempts THEN "FAILED"
                                      ELSE "PENDING"]
                   ELSE reminder
    /\ UNCHANGED <<kind, appointment, outbox>>

\* The process dies, or an error outside the channels ends the pass.
RunnerDies(p) ==
    /\ ~Does(p, "idle") /\ ClaimOver(p)
    /\ UNCHANGED <<kind, appointment, reminder, outbox>>

-----------------------------------------------------------------------------
ReminderInit ==
    /\ kind \in {"REMINDER_24H", "SESSION_END_REMINDER"}
    /\ appointment = "none"
    /\ reminder = [status |-> "absent", attempts |-> 0, claimedBy |-> Unset, stale |-> FALSE,
                   decision |-> [ch \in Channels |-> "PENDING"],
                   frozen |-> [ch \in Channels |-> Unset]]
    /\ outbox = [ch \in Channels |-> {}]
    /\ runner = [p \in Runners |-> Rest]

ReminderNext ==
    \/ BookHere \/ MoveAway \/ LeaveUpcoming \/ RetireReminders
    \/ ClaimGoesStale \/ ResetStale
    \/ \E p \in Runners : \/ ClaimReminder(p)
                          \/ CheckBooking(p) \/ MarkSkipped(p) \/ CloseChannel(p)
                          \/ ChooseRecipient(p) \/ RecheckBooking(p) \/ FreezeRecipient(p)
                          \/ EnqueueMessage(p) \/ RecordDecision(p) \/ InfraError(p)
                          \/ ReleaseReminder(p) \/ RunnerDies(p)

ReminderSpec == ReminderInit /\ [][ReminderNext]_reminderVars

-----------------------------------------------------------------------------
\* Every variable has its type; a row is claimed just while it is PROCESSING, and it has
\* ended as COMPLETED or SKIPPED just when no decision is open.
ReminderTypeOK ==
    /\ kind \in {"REMINDER_24H", "SESSION_END_REMINDER"}
    /\ appointment \in {"none", "here", "elsewhere", "over"}
    /\ reminder \in Reminder
    /\ outbox \in [Channels -> SUBSET Addresses]
    /\ reminder.claimedBy # Unset <=> reminder.status = "PROCESSING"
    /\ reminder.status \in {"COMPLETED", "SKIPPED"} <=> Undecided(reminder) = {}

\* A reminder sends one message at most on each channel, though runners lose their claims
\* to others, die between the outbox and the row, and the customer's address changes; what
\* the row calls ENQUEUED was enqueued, for the address on the row.
OneMessage ==
    \A ch \in Channels :
      /\ Cardinality(outbox[ch]) <= 1
      /\ reminder.decision[ch] = "ENQUEUED" => outbox[ch] = {reminder.frozen[ch]}

\* A decision is final: whoever else claims, skips, retires or releases the row, it stays,
\* and a row that has ended is never taken up again.
DecisionKept ==
    [][/\ \A ch \in Channels \ Undecided(reminder) : reminder'.decision[ch] = reminder.decision[ch]
       /\ Active \/ reminder.status = "absent" \/ reminder'.status = reminder.status]_reminderVars

\* What the comments promise and the code does not: a decision not to send was made before
\* anything was enqueued; a row waits only for a claim that can come; the reminder of the
\* current start is not retired.
UnsentIsUnsent ==
    \A ch \in Channels : reminder.decision[ch] \in {"SUPPRESSED", "SKIPPED"} => outbox[ch] = {}
PendingHasAttempts == reminder.status = "PENDING" => reminder.attempts < MaxAttempts
CurrentIsKept == appointment = "here" => reminder.status # "CANCELLED"
=============================================================================
