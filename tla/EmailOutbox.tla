---------------------------- MODULE EmailOutbox ----------------------------
(***************************************************************************)
(* One row of the email outbox and the worker processes that drain it.     *)
(* Rows do not share state (one per dedupe key), so one row is enough.  A  *)
(* worker makes one pass after another: it sweeps stale claims, then its   *)
(* concurrent runners claim and process the row until nothing is due.      *)
(* Each repository call is one findOneAndUpdate or updateMany: one step.   *)
(*                                                                         *)
(* Time is in two flags of the row: due (nextAttemptAt has come) and stale *)
(* (the claim is older than the claim timeout, however its holder fares).  *)
(***************************************************************************)
EXTENDS Naturals, FiniteSets

CONSTANTS Workers, Runners,
          WorkerOf,      \* the worker a runner belongs to: its claimedBy
          Nobody,
          MaxAttempts,
          MaxFaults      \* bound on crashes and failed writes

ASSUME WorkersAssumption ==
    WorkerOf \in [Runners -> Workers] /\ Nobody \notin Workers /\ IsFiniteSet(Runners)
ASSUME BoundsAssumption == MaxAttempts \in Nat \ {0} /\ MaxFaults \in Nat

VARIABLES row,       \* the outbox document
          run,       \* runner: its next await and the attempt it claimed
          pass,      \* worker: where its pass is, and the claim its sweep found stale
          provider,  \* calls made, calls accepted
          faults

vars == <<row, run, pass, provider, faults>>

Status == {"ABSENT", "PENDING", "PROCESSING", "SENT", "FAILED"}
Step == {"idle", "prepare", "send", "sent", "retry", "fail"}

Team(w) == {r \in Runners : WorkerOf[r] = w}
Resting(w) == \A r \in Team(w) : run[r].at = "idle"
Fault == faults < MaxFaults /\ faults' = faults + 1

Goto(r, s) == run' = [run EXCEPT ![r].at = s]
Return(r) == run' = [run EXCEPT ![r] = [at |-> "idle", attempt |-> 0]]

-----------------------------------------------------------------------------
(* EmailOutboxRepository *)

\* The unique dedupeKey makes a repeated enqueue a no-op.
Enqueue == /\ row.status = "ABSENT" /\ row' = [row EXCEPT !.status = "PENDING"]
           /\ UNCHANGED <<run, pass, provider, faults>>

\* claimNext's filter.
Claimable ==
    /\ row.attempts < MaxAttempts
    /\ (row.status = "PENDING" /\ row.due) \/ (row.status = "PROCESSING" /\ row.stale)

ClaimNext(r) ==
    /\ run[r].at = "idle" /\ pass[WorkerOf[r]].at = "run" /\ Claimable
    /\ row' = [row EXCEPT !.status = "PROCESSING", !.by = WorkerOf[r], !.stale = FALSE,
                          !.attempts = @ + 1]
    /\ run' = [run EXCEPT ![r] = [at |-> "prepare", attempt |-> row.attempts + 1]]
    /\ UNCHANGED <<pass, provider, faults>>

\* The claim fence of scheduleRetry and markFailed.
OwnedByMutated(r) == row.status = "PROCESSING" /\ row.by = WorkerOf[r]     \* claimedBy only
OwnedBy(r) == /\ row.status = "PROCESSING" /\ row.by = WorkerOf[r]
              /\ row.attempts = run[r].attempt

Settled(s) == [row EXCEPT !.status = s, !.by = Nobody]

\* markSent is not fenced: an acceptance is a fact.
MayMarkSentMutated == row.status # "ABSENT"
MayMarkSent == row.status \in {"PROCESSING", "PENDING"}

MarkSent(r) ==
    /\ run[r].at = "sent" /\ Return(r)
    /\ row' = IF MayMarkSent THEN Settled("SENT") ELSE row
    /\ UNCHANGED <<pass, provider, faults>>

ScheduleRetry(r) ==
    /\ run[r].at = "retry" /\ Return(r)
    /\ row' = IF OwnedBy(r) THEN [Settled("PENDING") EXCEPT !.due = FALSE] ELSE row
    /\ UNCHANGED <<pass, provider, faults>>

MarkFailed(r) ==
    /\ run[r].at = "fail" /\ Return(r)
    /\ row' = IF OwnedBy(r) THEN Settled("FAILED") ELSE row
    /\ UNCHANGED <<pass, provider, faults>>

\* resetStaleProcessing, first update: a row without attempts left that is PENDING or
\* whose claim is stale is given up.  The cut-off is fixed here: the second update
\* sees only the claim that is stale now.
ExhaustedMutated == FALSE          \* gives nothing up
Exhausted == /\ row.attempts >= MaxAttempts
             /\ row.status = "PENDING" \/ (row.status = "PROCESSING" /\ row.stale)

SweepExhausted(w) ==
    /\ pass[w].at = "sweep"
    /\ row' = IF Exhausted THEN Settled("FAILED") ELSE row
    /\ pass' = [pass EXCEPT ![w] = [at |-> "reset",
                                    cutoff |-> IF row.stale THEN row.attempts ELSE 0]]
    /\ UNCHANGED <<run, provider, faults>>

\* Second update: the stale claim is undone.
SweepStale(w) ==
    /\ pass[w].at = "reset"
    /\ row' = IF row.status = "PROCESSING" /\ row.attempts = pass[w].cutoff
              THEN Settled("PENDING") ELSE row
    /\ pass' = [pass EXCEPT ![w] = [at |-> "run", cutoff |-> 0]]
    /\ UNCHANGED <<run, provider, faults>>

-----------------------------------------------------------------------------
(* EmailOutboxWorker *)

\* A runner that claims nothing ends the pass, once all its runners are done.
EndPass(w) ==
    /\ pass[w].at = "run" /\ Resting(w) /\ ~Claimable
    /\ pass' = [pass EXCEPT ![w].at = "sweep"]
    /\ UNCHANGED <<row, run, provider, faults>>

\* Rendering and the eligibility check: an email that cannot be rendered, or whose
\* booking has changed, is failed without a call.
Prepare(r) ==
    /\ run[r].at = "prepare" /\ (Goto(r, "send") \/ Goto(r, "fail"))
    /\ UNCHANGED <<row, pass, provider, faults>>

\* The provider call.  A call that throws may have been accepted; it is retried when
\* the error says so and attempts are left.
Send(r) ==
    /\ run[r].at = "send"
    /\ \E took \in {0, 1} :
         /\ provider' = [calls |-> provider.calls + 1, taken |-> provider.taken + took]
         /\ \/ took = 1 /\ Goto(r, "sent")
            \/ run[r].attempt < MaxAttempts /\ Goto(r, "retry")
            \/ Goto(r, "fail")
    /\ UNCHANGED <<row, pass, faults>>

\* The write that records an outcome fails; the row keeps its claim.
WriteFails(r) ==
    /\ run[r].at \in {"sent", "retry", "fail"} /\ Return(r) /\ Fault
    /\ UNCHANGED <<row, pass, provider>>

\* A worker process dies and starts again.
Crash(w) ==
    /\ Fault
    /\ run' = [r \in Runners |-> IF r \in Team(w) THEN [at |-> "idle", attempt |-> 0] ELSE run[r]]
    /\ pass' = [pass EXCEPT ![w] = [at |-> "sweep", cutoff |-> 0]]
    /\ UNCHANGED <<row, provider>>

FallsDue == /\ ~row.due /\ row' = [row EXCEPT !.due = TRUE]
            /\ UNCHANGED <<run, pass, provider, faults>>

GoesStale == /\ row.status = "PROCESSING" /\ ~row.stale
             /\ row' = [row EXCEPT !.stale = TRUE]
             /\ UNCHANGED <<run, pass, provider, faults>>

Init ==
    /\ row = [status |-> "ABSENT", attempts |-> 0, by |-> Nobody, due |-> TRUE, stale |-> FALSE]
    /\ run = [r \in Runners |-> [at |-> "idle", attempt |-> 0]]
    /\ pass = [w \in Workers |-> [at |-> "sweep", cutoff |-> 0]]
    /\ provider = [calls |-> 0, taken |-> 0]
    /\ faults = 0

RunnerStep(r) == \/ ClaimNext(r) \/ Prepare(r) \/ Send(r)
                 \/ MarkSent(r) \/ ScheduleRetry(r) \/ MarkFailed(r)

WorkerStep(w) == \/ SweepExhausted(w) \/ SweepStale(w) \/ EndPass(w)
                 \/ \E r \in Team(w) : RunnerStep(r)

Next == \/ Enqueue \/ FallsDue \/ GoesStale
        \/ \E w \in Workers : WorkerStep(w) \/ Crash(w)
        \/ \E r \in Runners : WriteFails(r)

Spec == Init /\ [][Next]_vars

\* Workers poll for ever, a provider call ends (the transports have timeouts), time passes.
FairSpec == /\ Spec /\ WF_vars(FallsDue) /\ WF_vars(GoesStale)
            /\ \A w \in Workers : WF_vars(WorkerStep(w))

-----------------------------------------------------------------------------
(* Properties *)

\* The type invariant of the row and of its processors.
TypeOK ==
    /\ row \in [status : Status, attempts : 0..MaxAttempts, by : Workers \cup {Nobody},
                due : BOOLEAN, stale : BOOLEAN]
    /\ run \in [Runners -> [at : Step, attempt : 0..MaxAttempts]]
    /\ pass \in [Workers -> [at : {"sweep", "reset", "run"}, cutoff : 0..MaxAttempts]]
    /\ provider \in [calls : 0..MaxAttempts, taken : 0..MaxAttempts]
    /\ faults \in 0..MaxFaults

\* Whoever else is at work on the row, the holder of a claim that has not timed out
\* keeps it: only an earlier sender's acceptance may end it (the claim fence of
\* scheduleRetry and markFailed, the cut-off of resetStaleProcessing).
FreshClaimKept ==
    \A r \in Runners :
        run[r].at # "idle" /\ run[r].attempt = row.attempts /\ ~row.stale
          => row.status = "SENT" \/ (row.status = "PROCESSING" /\ row.by = WorkerOf[r])

\* An enqueued email ends sent or failed, whatever dies on the way: a row that has
\* burned its attempts is not left PENDING for ever (resetStaleProcessing).
Drains == row.status = "PENDING" ~> row.status \in {"SENT", "FAILED"}

\* The row as the abstract message sees it.
MessageState == CASE row.status = "ABSENT" -> "none"
                  [] row.status = "SENT" -> "sent"
                  [] row.status = "FAILED" -> "dead"
                  [] OTHER -> "queued"

Message == INSTANCE Delivery
             WITH Limit <- MaxAttempts, state <- MessageState,
                  calls <- provider.calls, taken <- provider.taken

\* At least once and at most MaxAttempts times: SENT only after an acceptance, a
\* settled row never changes, and every call burns an attempt, those of workers that
\* lost their claim included.
ImplementsDelivery == Message!Spec
=============================================================================
