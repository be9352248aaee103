------------------------- MODULE WebhookEventProofs -------------------------
(***************************************************************************)
(* Proofs about WebhookEvent: types, that a retryable event has attempts   *)
(* left, that a running lease is decided by its holder, and that the two   *)
(* ends of an event are kept, for any number of deliveries, administrators *)
(* and attempts.  Only the first needs more than the steps themselves: the *)
(* limit is read in one step and relied on in a later one.                 *)
(***************************************************************************)
EXTENDS WebhookEvent, TLAPS

EventType == [status : Status, attempts : 0..(MaxAttempts + 1), token : Procs \cup {Nobody},
              expired : BOOLEAN, due : BOOLEAN]

\* What a process remembers of the reads and the handler before its next write: the
\* limit was not reached while it holds the event, and the handler ran to its end.
Remembered ==
    \A p \in Procs : /\ proc[p] = "requeue" /\ Holds(p) => event.attempts < MaxAttempts
                     /\ proc[p] = "processed" => applied

Inv == TypeOK /\ Remembered /\ RetryableIsClaimable

LEMMA Facts == Inv => /\ event \in EventType /\ proc \in [Procs -> Step]
                      /\ applied \in BOOLEAN /\ replayed \in 0..MaxReplays
                      /\ faults \in 0..MaxFaults
                      /\ MaxReplays \in Nat /\ MaxFaults \in Nat /\ MaxAttempts \in Nat \ {0}
BY BoundsAssumption DEF Inv, TypeOK, EventType

LEMMA InitInv == Init => Inv
<1> SUFFICES ASSUME Init PROVE Inv
  OBVIOUS
<1>1. /\ 0 \in 0..(MaxAttempts + 1) /\ 0 \in 0..MaxReplays /\ 0 \in 0..MaxFaults
  BY BoundsAssumption
<1>2. event \in EventType
  BY <1>1 DEF Init, EventType, Status
<1>3. TypeOK
  BY <1>1, <1>2 DEF Init, TypeOK, EventType, Step
<1>4. Remembered /\ RetryableIsClaimable
  BY DEF Init, Remembered, RetryableIsClaimable
<1> QED
  BY <1>3, <1>4 DEF Inv

LEMMA ReceiveInv == ASSUME Inv, NEW p \in Procs, Receive(p) PROVE Inv'
<1>1. /\ event \in EventType /\ proc \in [Procs -> Step]
  BY Facts
<1>2. /\ event' = event \/ (event.status = "ABSENT" /\ event' = [event EXCEPT !.status = "RECEIVED"])
      /\ proc' = [proc EXCEPT ![p] = "claim"] /\ UNCHANGED <<applied, replayed, faults>>
  BY DEF Receive, Goto
<1>3. TypeOK'
  BY <1>1, <1>2 DEF Inv, TypeOK, EventType, Status, Step
<1>4. Remembered' /\ RetryableIsClaimable'
  BY <1>1, <1>2 DEF Inv, Remembered, RetryableIsClaimable, Holds, EventType
<1> QED
  BY <1>3, <1>4 DEF Inv

LEMMA ClaimInv == ASSUME Inv, NEW p \in Procs, Claim(p) PROVE Inv'
<1>1. /\ event \in EventType /\ proc \in [Procs -> Step] /\ MaxAttempts \in Nat \ {0}
  BY Facts
<1>2. proc[p] \in {"claim", "idle"} /\ UNCHANGED <<applied, replayed, faults>>
  BY DEF Claim
<1>3. CASE Claimable /\ event' = Claimed(p) /\ Goto(p, "handle")
  <2>1. event' \in EventType /\ event'.status = "PROCESSING" /\ event'.token = p
    <3>1. (IF event.attempts > MaxAttempts THEN event.attempts ELSE event.attempts + 1)
             \in 0..(MaxAttempts + 1)
      BY <1>1 DEF EventType
    <3> QED
      BY <1>1, <1>3, <3>1 DEF Claimed, EventType, Status
  <2>2. TypeOK'
    BY <1>1, <1>2, <1>3, <2>1 DEF Inv, TypeOK, EventType, Goto, Step
  <2>3. Remembered' /\ RetryableIsClaimable'
    BY <1>1, <1>2, <1>3, <2>1 DEF Inv, Remembered, RetryableIsClaimable, Holds, Goto
  <2> QED
    BY <2>2, <2>3 DEF Inv
<1>4. CASE UNCHANGED event /\ Return(p)
  BY <1>1, <1>2, <1>4
  DEF Inv, TypeOK, Remembered, RetryableIsClaimable, Holds, Return, Goto, Step
<1> QED
  BY <1>3, <1>4 DEF Claim

LEMMA ReplayInv == ASSUME Inv, NEW p \in Procs, Replay(p) PROVE Inv'
<1>1. /\ event \in EventType /\ proc \in [Procs -> Step] /\ replayed \in 0..MaxReplays
      /\ MaxReplays \in Nat /\ MaxAttempts \in Nat \ {0}
  BY Facts
<1>2. /\ 0 \in 0..(MaxAttempts + 1)
      /\ replayed < MaxReplays => replayed + 1 \in 0..MaxReplays
  BY <1>1
<1>3. /\ event' = [event EXCEPT !.status = "RETRYABLE", !.attempts = 0, !.due = TRUE]
      /\ proc' = [proc EXCEPT ![p] = "claim"] /\ replayed' \in 0..MaxReplays
      /\ UNCHANGED <<applied, faults>>
  BY <1>2 DEF Replay, Goto
<1>4. event' \in EventType /\ event'.status = "RETRYABLE" /\ event'.attempts = 0
  BY <1>1, <1>2, <1>3 DEF EventType, Status
<1>5. TypeOK'
  BY <1>1, <1>3, <1>4 DEF Inv, TypeOK, EventType, Step
<1>6. Remembered' /\ RetryableIsClaimable'
  BY <1>1, <1>3, <1>4 DEF Inv, Remembered, RetryableIsClaimable, Holds
<1> QED
  BY <1>5, <1>6 DEF Inv

LEMMA HandleInv == ASSUME Inv, NEW p \in Procs, Handle(p) PROVE Inv'
BY Facts
DEF Inv, Handle, TypeOK, Remembered, RetryableIsClaimable, Holds, Goto, Step

LEMMA ReadInv == ASSUME Inv, NEW p \in Procs, ReadRetryable(p) PROVE Inv'
<1>1. /\ event \in EventType /\ proc \in [Procs -> Step] /\ MaxAttempts \in Nat \ {0}
  BY Facts
<1>2. TypeOK' /\ RetryableIsClaimable'
  BY <1>1 DEF Inv, ReadRetryable, TypeOK, RetryableIsClaimable, Goto, Return, Step
<1>3. Remembered'
  BY <1>1 DEF Inv, ReadRetryable, Remembered, Holds, Spent, Goto, Return, EventType
<1> QED
  BY <1>2, <1>3 DEF Inv

\* A write under the token of a claim ends the claim.
LEMMA SettleInv ==
    ASSUME Inv, NEW p \in Procs, NEW s \in {"idle", "retryable"}, Goto(p, s),
           \/ UNCHANGED event
           \/ Holds(p) /\ event' = Settled("PROCESSED")
           \/ Holds(p) /\ event' = Settled("FAILED")
           \/ Holds(p) /\ proc[p] = "requeue" /\ event' = Requeued,
           UNCHANGED <<applied, replayed>>, faults' \in 0..MaxFaults
    PROVE  Inv'
<1>1. /\ event \in EventType /\ proc \in [Procs -> Step]
  BY Facts
<1>2. /\ event' \in EventType /\ event'.attempts = event.attempts
      /\ event' = event \/ event'.status # "PROCESSING"
  BY <1>1 DEF Settled, Requeued, EventType, Status
<1>3. TypeOK'
  BY <1>1, <1>2 DEF Inv, TypeOK, EventType, Goto, Step
<1>4. Remembered'
  BY <1>1, <1>2 DEF Inv, Remembered, Holds, Goto
<1>5. RetryableIsClaimable'
  BY <1>1, <1>2 DEF Inv, Remembered, RetryableIsClaimable, Settled, Requeued, EventType
<1> QED
  BY <1>3, <1>4, <1>5 DEF Inv

LEMMA WritesInv ==
    ASSUME Inv, NEW p \in Procs,
           MarkProcessed(p) \/ MarkFailed(p) \/ Requeue(p) \/ WriteFails(p) \/ Crash(p)
    PROVE  Inv'
<1>0. faults \in 0..MaxFaults /\ MaxFaults \in Nat
  BY Facts
<1>1. CASE MarkProcessed(p)
  BY <1>0, <1>1, SettleInv DEF MarkProcessed, Return
<1>2. CASE MarkFailed(p)
  BY <1>0, <1>2, SettleInv DEF MarkFailed, Return
<1>3. CASE Requeue(p)
  BY <1>0, <1>3, SettleInv DEF Requeue, Return
<1>4. CASE WriteFails(p)
  <2>1. faults' \in 0..MaxFaults
    BY <1>0, <1>4 DEF WriteFails, Fault
  <2> QED
    BY <1>4, <2>1, SettleInv DEF WriteFails, Return
<1>5. CASE Crash(p)
  <2>1. faults' \in 0..MaxFaults
    BY <1>0, <1>5 DEF Crash, Fault
  <2> QED
    BY <1>5, <2>1, SettleInv DEF Crash, Return
<1> QED
  BY <1>1, <1>2, <1>3, <1>4, <1>5

LEMMA TimeInv == Inv /\ (LeaseExpires \/ FallsDue \/ UNCHANGED vars) => Inv'
<1> SUFFICES ASSUME Inv, LeaseExpires \/ FallsDue \/ UNCHANGED vars PROVE Inv'
  OBVIOUS
<1>1. /\ event \in EventType /\ faults \in 0..MaxFaults /\ MaxFaults \in Nat
  BY Facts
<1>2. /\ event' \in EventType /\ event'.status = event.status
      /\ event'.attempts = event.attempts /\ event'.token = event.token
      /\ UNCHANGED <<proc, applied, replayed>>
  BY <1>1 DEF LeaseExpires, FallsDue, vars, EventType
<1>3. faults' \in 0..MaxFaults
  BY <1>1 DEF LeaseExpires, FallsDue, vars, Fault
<1> QED
  BY <1>2, <1>3 DEF Inv, TypeOK, EventType, Remembered, RetryableIsClaimable, Holds

LEMMA InvInductive == Inv /\ [Next]_vars => Inv'
<1> SUFFICES ASSUME Inv, [Next]_vars PROVE Inv'
  OBVIOUS
<1>1. CASE LeaseExpires \/ FallsDue \/ UNCHANGED vars
  BY <1>1, TimeInv
<1>2. ASSUME NEW p \in Procs,
             Receive(p) \/ Replay(p) \/ Proceed(p) \/ WriteFails(p) \/ Crash(p)
      PROVE  Inv'
  BY <1>2, ReceiveInv, ReplayInv, ClaimInv, HandleInv, ReadInv, WritesInv DEF Proceed
<1> QED
  BY <1>1, <1>2 DEF Next

\* The strengthened invariant of the event and its processors.
THEOREM Invariance == Spec => []Inv
<1> QED
  BY InitInv, InvInductive, PTL DEF Spec

\* The event and its processors always have their types.
THEOREM TypeCorrect == Spec => []TypeOK
<1>1. Inv => TypeOK
  BY DEF Inv
<1> QED
  BY <1>1, Invariance, PTL

\* Whoever takes leases over in between, an event that waits for a retry has one left.
THEOREM RetryLeft == Spec => []RetryableIsClaimable
<1>1. Inv => RetryableIsClaimable
  BY DEF Inv
<1> QED
  BY <1>1, Invariance, PTL

LEMMA HolderStep ==
    ASSUME Inv, [Next]_vars, event.status = "PROCESSING", ~event.expired,
           event'.status # "PROCESSING" \/ event'.token # event.token
    PROVE  proc'[event.token] # proc[event.token]
<1>1. event \in EventType /\ proc \in [Procs -> Step]
  BY Facts
<1>2. ASSUME NEW p \in Procs, Receive(p) \/ Replay(p) \/ Claim(p) PROVE FALSE
  BY <1>1, <1>2 DEF Receive, Replay, Claim, Claimable
<1>3. ASSUME NEW p \in Procs, Handle(p) \/ ReadRetryable(p) \/ Crash(p) PROVE FALSE
  BY <1>3 DEF Handle, ReadRetryable, Crash
<1>4. CASE LeaseExpires \/ FallsDue \/ UNCHANGED vars
  BY <1>1, <1>4 DEF LeaseExpires, FallsDue, vars, EventType
<1>5. ASSUME NEW p \in Procs, MarkProcessed(p) \/ MarkFailed(p) \/ Requeue(p) \/ WriteFails(p)
      PROVE  proc'[event.token] # proc[event.token]
  <2>1. event' # event
    OBVIOUS
  <2>2. Holds(p)
    BY <1>5, <2>1 DEF MarkProcessed, MarkFailed, Requeue, WriteFails
  <2> QED
    BY <1>1, <1>5, <2>2 DEF MarkProcessed, MarkFailed, Requeue, WriteFails, Holds, Return, Goto
<1> QED
  BY <1>2, <1>3, <1>4, <1>5 DEF Next, Proceed

\* While its lease runs, a claim is ended by its holder alone.
THEOREM HolderAlone == Spec => HolderDecides
<1>1. Inv /\ [Next]_vars =>
        [event.status = "PROCESSING" /\ ~event.expired
           /\ (event'.status # "PROCESSING" \/ event'.token # event.token)
             => proc'[event.token] # proc[event.token]]_vars
  BY HolderStep
<1> QED
  BY <1>1, Invariance, PTL DEF Spec, HolderDecides

EndStep ==
    /\ event.status = "PROCESSED" => event' = event
    /\ event.status = "FAILED" /\ event' # event => replayed' = replayed + 1 /\ event'.attempts = 0
    /\ event'.status = "PROCESSED" => applied'

\* What EndsKept needs of the states before: a processed event has been handled.
ProcessedApplied == event.status = "PROCESSED" => applied

LEMMA EndsStep == ASSUME Inv, ProcessedApplied, [Next]_vars PROVE EndStep /\ ProcessedApplied'
<1>1. event \in EventType /\ proc \in [Procs -> Step]
  BY Facts
<1>2. ASSUME NEW p \in Procs, Receive(p) \/ Replay(p) \/ Claim(p)
      PROVE  EndStep /\ ProcessedApplied'
  BY <1>1, <1>2
  DEF Receive, Replay, Claim, Claimable, Claimed, EndStep, ProcessedApplied, EventType
<1>3. ASSUME NEW p \in Procs, Handle(p) \/ ReadRetryable(p) \/ Crash(p)
      PROVE  EndStep /\ ProcessedApplied'
  BY <1>3 DEF Handle, ReadRetryable, Crash, EndStep, ProcessedApplied
<1>4. CASE LeaseExpires \/ FallsDue \/ UNCHANGED vars
  BY <1>1, <1>4 DEF LeaseExpires, FallsDue, vars, EventType, EndStep, ProcessedApplied
<1>5. ASSUME NEW p \in Procs, MarkProcessed(p) \/ MarkFailed(p) \/ Requeue(p) \/ WriteFails(p)
      PROVE  EndStep /\ ProcessedApplied'
  BY <1>1, <1>5
  DEF MarkProcessed, MarkFailed, Requeue, WriteFails, Holds, Settled, Requeued, EventType,
      Inv, Remembered, EndStep, ProcessedApplied
<1> QED
  BY <1>2, <1>3, <1>4, <1>5 DEF Next, Proceed

\* A processed event stays as it is and was handled to its end; a failed one comes back
\* only through a replay.
THEOREM EndsStay == Spec => EndsKept
<1>1. Init => ProcessedApplied
  BY DEF Init, ProcessedApplied
<1>2. Inv /\ ProcessedApplied /\ [Next]_vars => ProcessedApplied' /\ [EndStep]_vars
  BY EndsStep
<1>3. [][EndStep]_vars => EndsKept
  BY PTL DEF EndStep, EndsKept
<1> QED
  BY <1>1, <1>2, <1>3, Invariance, PTL DEF Spec
=============================================================================
