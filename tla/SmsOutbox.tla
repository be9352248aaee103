----------------------------- MODULE SmsOutbox -----------------------------
(***************************************************************************)
(* One row of the SMS outbox and the workers that drain it.  Unlike the    *)
(* email outbox it consumes a durable permission (providerStarted) before  *)
(* it calls the provider, and never takes it back: a text message that may *)
(* have been issued is not issued again.                                   *)
(*                                                                         *)
(* The flag stale says that the claim is older than the claim timeout.     *)
(* The branch of processOne that would call scheduleRetry is never taken:  *)
(* the only call that throws an SmsError has its own catch.                *)
(***************************************************************************)
EXTENDS Naturals

CONSTANTS Workers, Runners,
          WorkerOf,      \* the worker a runner belongs to: its claimedBy
          Nobody,
          MaxAttempts,
          MaxFaults      \* bound on crashes and failed reads or writes

ASSUME WorkersAssumption == WorkerOf \in [Runners -> Workers] /\ Nobody \notin Workers
ASSUME BoundsAssumption == MaxAttempts \in Nat \ {0} /\ MaxFaults \in Nat

VARIABLES row,       \* the outbox document; started is providerStarted
          run,       \* runner: its next await and the attempt it claimed
          pass,      \* worker: where its pass is
          provider,  \* calls made, calls accepted
          faults

vars == <<row, run, pass, provider, faults>>

Status == {"ABSENT", "PENDING", "PROCESSING", "SENT", "FAILED", "UNKNOWN_OUTCOME"}
Step == {"idle", "check", "start", "send", "sent", "unknown", "caught", "fail"}

Team(w) == {r \in Runners : WorkerOf[r] = w}
Fault == faults < MaxFaults /\ faults' = faults + 1

Goto(r, s) == run' = [run EXCEPT ![r].at = s]
Return(r) == run' = [run EXCEPT ![r] = [at |-> "idle", attempt |-> 0]]

-----------------------------------------------------------------------------
(* SmsOutboxRepository *)

\* The unique dedupeKey makes a repeated enqueue a no-op.
Enqueue == /\ row.status = "ABSENT" /\ row' = [row EXCEPT !.status = "PENDING"]
           /\ UNCHANGED <<run, pass, provider, faults>>

\* claimNext takes only what was never issued.
Claimable == row.status = "PENDING" /\ ~row.started /\ row.attempts < MaxAttempts

ClaimNext(r) ==
    /\ run[r].at = "idle" /\ pass[WorkerOf[r]] = "run" /\ Claimable
    /\ row' = [row EXCEPT !.status = "PROCESSING", !.by = WorkerOf[r], !.stale = FALSE,
                          !.attempts = @ + 1]
    /\ run' = [run EXCEPT ![r] = [at |-> "check", attempt |-> row.attempts + 1]]
    /\ UNCHANGED <<pass, provider, faults>>

\* Every write of a processor is fenced with its claim.
OwnedBy(r) == /\ row.status = "PROCESSING" /\ row.by = WorkerOf[r]
              /\ row.attempts = run[r].attempt

\* markProviderStarted's fence, and that of the writes that follow the call.
MayStart(r) == OwnedBy(r) /\ ~row.started
MaySettle(r) == OwnedBy(r) /\ row.started
MayFail(r) == OwnedBy(r) /\ ~row.started

StartedMutated == row                                  \* a permission in memory only
Started == [row EXCEPT !.started = TRUE]
Settled(s) == [row EXCEPT !.status = s, !.by = Nobody]

\* Without the permission the provider is not called.
MarkProviderStarted(r) ==
    /\ run[r].at = "start"
    /\ \/ MayStart(r) /\ row' = Started /\ Goto(r, "send")
       \/ ~MayStart(r) /\ UNCHANGED row /\ Goto(r, "caught")
    /\ UNCHANGED <<pass, provider, faults>>

MarkSent(r) ==
    /\ run[r].at = "sent"
    /\ \/ MaySettle(r) /\ row' = Settled("SENT") /\ Return(r)
       \/ ~MaySettle(r) /\ UNCHANGED row /\ Goto(r, "caught")
    /\ UNCHANGED <<pass, provider, faults>>

\* After a call that threw (unknown), and first thing in the outer catch (caught),
\* which goes on to markFailed when the row is not an issued one of its claim.
MarkUnknown(r) ==
    /\ run[r].at \in {"unknown", "caught"}
    /\ row' = IF MaySettle(r) THEN Settled("UNKNOWN_OUTCOME") ELSE row
    /\ IF run[r].at = "caught" /\ ~MaySettle(r) THEN Goto(r, "fail") ELSE Return(r)
    /\ UNCHANGED <<pass, provider, faults>>

MarkFailed(r) ==
    /\ run[r].at = "fail" /\ Return(r)
    /\ row' = IF MayFail(r) THEN Settled("FAILED") ELSE row
    /\ UNCHANGED <<pass, provider, faults>>

\* resetStaleProcessing: a stale claim that was never issued is undone, whatever
\* attempts it has left.
ResettableMutated == FALSE                             \* stale claims stay
Resettable == row.status = "PROCESSING" /\ ~row.started /\ row.stale

SweepStale(w) ==
    /\ pass[w] = "sweep"
    /\ row' = IF Resettable THEN Settled("PENDING") ELSE row
    /\ pass' = [pass EXCEPT ![w] = "run"]
    /\ UNCHANGED <<run, provider, faults>>

-----------------------------------------------------------------------------
(* SmsOutboxWorker *)

EndPass(w) ==
    /\ pass[w] = "run" /\ ~Claimable /\ \A r \in Team(w) : run[r].at = "idle"
    /\ pass' = [pass EXCEPT ![w] = "sweep"]
    /\ UNCHANGED <<row, run, provider, faults>>

\* The eligibility check: a changed booking retires the message, and so does a
\* check that throws.
Check(r) ==
    /\ run[r].at = "check"
    /\ \/ (Goto(r, "start") \/ Goto(r, "fail")) /\ UNCHANGED faults
       \/ Goto(r, "caught") /\ Fault
    /\ UNCHANGED <<row, pass, provider>>

\* The provider call; one that throws may have been accepted.
Send(r) ==
    /\ run[r].at = "send"
    /\ \E took \in {0, 1} :
         /\ provider' = [calls |-> provider.calls + 1, taken |-> provider.taken + took]
         /\ \/ took = 1 /\ Goto(r, "sent")
            \/ Goto(r, "unknown")
    /\ UNCHANGED <<row, pass, faults>>

\* A write throws, whether or not the database applied it.
WriteFails(r) ==
    /\ Fault
    /\ \/ /\ run[r].at = "start" /\ Goto(r, "caught")
          /\ row' \in {row} \cup (IF MayStart(r) THEN {Started} ELSE {})
       \/ /\ run[r].at = "sent" /\ Goto(r, "caught")
          /\ row' \in {row} \cup (IF MaySettle(r) THEN {Settled("SENT")} ELSE {})
       \/ run[r].at = "unknown" /\ Goto(r, "caught") /\ UNCHANGED row
       \/ run[r].at \in {"caught", "fail"} /\ Return(r) /\ UNCHANGED row
    /\ UNCHANGED <<pass, provider>>

\* A worker process dies and starts again.
Crash(w) ==
    /\ Fault
    /\ run' = [r \in Runners |-> IF r \in Team(w) THEN [at |-> "idle", attempt |-> 0] ELSE run[r]]
    /\ pass' = [pass EXCEPT ![w] = "sweep"]
    /\ UNCHANGED <<row, provider>>

GoesStale == /\ row.status = "PROCESSING" /\ ~row.stale
             /\ row' = [row EXCEPT !.stale = TRUE]
             /\ UNCHANGED <<run, pass, provider, faults>>

Init ==
    /\ row = [status |-> "ABSENT", attempts |-> 0, by |-> Nobody, started |-> FALSE, stale |-> FALSE]
    /\ run = [r \in Runners |-> [at |-> "idle", attempt |-> 0]]
    /\ pass = [w \in Workers |-> "sweep"]
    /\ provider = [calls |-> 0, taken |-> 0]
    /\ faults = 0

RunnerStep(r) == \/ ClaimNext(r) \/ Check(r) \/ MarkProviderStarted(r) \/ Send(r)
                 \/ MarkSent(r) \/ MarkUnknown(r) \/ MarkFailed(r)

WorkerStep(w) == SweepStale(w) \/ EndPass(w) \/ \E r \in Team(w) : RunnerStep(r)

Next == \/ Enqueue \/ GoesStale
        \/ \E w \in Workers : WorkerStep(w) \/ Crash(w)
        \/ \E r \in Runners : WriteFails(r)

Spec == Init /\ [][Next]_vars

\* Workers poll for ever, a provider call ends, time passes.
FairSpec == Spec /\ WF_vars(GoesStale) /\ \A w \in Workers : WF_vars(WorkerStep(w))

-----------------------------------------------------------------------------
(* Properties *)

\* The type invariant of the row and of its processors.
TypeOK ==
    /\ row \in [status : Status, attempts : 0..MaxAttempts, by : Workers \cup {Nobody},
                started : BOOLEAN, stale : BOOLEAN]
    /\ run \in [Runners -> [at : Step, attempt : 0..MaxAttempts]]
    /\ pass \in [Workers -> {"sweep", "run"}]
    /\ provider \in [calls : 0..MaxAttempts, taken : 0..MaxAttempts]
    /\ faults \in 0..MaxFaults

\* A message recorded as FAILED was not and will not be handed to the provider, not
\* even by a worker whose claim was reset meanwhile (providerStarted against
\* markFailed and the claim fence).
FailedNeverSent == row.status = "FAILED" => /\ provider.calls = 0
                                            /\ \A r \in Runners : run[r].at # "send"

\* An enqueued message is settled, or was issued, or has burned its attempts before
\* any call: nothing else keeps it (resetStaleProcessing).
Settles == row.status = "PENDING"
             ~> \/ row.status \in {"SENT", "FAILED", "UNKNOWN_OUTCOME"}
                \/ row.started \/ row.attempts = MaxAttempts

\* A row that is reset is there to be claimed again: "Only a stale pre-dispatch
\* PROCESSING row may be reset for another claim" (ClaimSmsOptions).
PendingIsClaimable == row.status = "PENDING" => Claimable

\* The row as the abstract message sees it.
MessageState == CASE row.status = "ABSENT" -> "none"
                  [] row.status = "SENT" -> "sent"
                  [] row.status = "FAILED" -> "dead"
                  [] row.status = "UNKNOWN_OUTCOME" -> "unknown"
                  [] OTHER -> "queued"

Message == INSTANCE Delivery
             WITH Limit <- 1, state <- MessageState,
                  calls <- provider.calls, taken <- provider.taken

\* At most once: whatever claims are lost, reset and taken again, the provider is
\* called once for a message, and SENT is only written after it accepted.
ImplementsDelivery == Message!Spec
=============================================================================
