-------------------------- MODULE SmsOutboxProofs --------------------------
(***************************************************************************)
(* Proofs about SmsOutbox: types, that a failed message was never sent,    *)
(* and that the row and its workers implement Delivery with a limit of     *)
(* one call.  The argument: a claim's attempt number belongs to one        *)
(* runner, the permission is given once, and the only runner about to      *)
(* call the provider is the one that took it.                              *)
(***************************************************************************)
EXTENDS SmsOutbox, TLAPS

\* A runner at work has claimed an attempt of its own.
Distinct ==
    /\ \A r \in Runners : run[r].at # "idle" => run[r].attempt \in 1..row.attempts
    /\ \A r, s \in Runners : run[r].at # "idle" /\ run[s].at # "idle" /\ r # s
                                => run[r].attempt # run[s].attempt

\* The row has a claim to go with its permission, and none to go with its end.
Permission ==
    /\ row.started => row.status \in {"PROCESSING", "SENT", "UNKNOWN_OUTCOME"}
    /\ ~row.started => row.status \in {"ABSENT", "PENDING", "PROCESSING", "FAILED"}
    /\ ~row.started => provider.calls = 0
    /\ provider.taken <= provider.calls /\ provider.calls <= 1

\* Who is about to call holds the permission, which nobody has used; an acceptance is
\* known only to those who called.
Callers ==
    /\ \A r \in Runners : run[r].at = "send" =>
          row.started /\ run[r].attempt = row.attempts /\ provider.calls = 0
    /\ \A r \in Runners : run[r].at = "sent" => provider.taken = 1

Inv == TypeOK /\ Distinct /\ Permission /\ Callers

LEMMA InitInv == Init => Inv
BY BoundsAssumption
DEF Init, Inv, TypeOK, Distinct, Permission, Callers, Status, Step

LEMMA EnqueueInv == Inv /\ Enqueue => Inv'
BY DEF Inv, Enqueue, TypeOK, Distinct, Permission, Callers, Status, Step

LEMMA ClaimInv == ASSUME Inv, NEW r \in Runners, ClaimNext(r) PROVE Inv'
<1> USE DEF Inv, ClaimNext
<1>0. /\ row.attempts \in 0..MaxAttempts /\ MaxAttempts \in Nat /\ row.attempts < MaxAttempts
      /\ ~row.started /\ run[r].at = "idle"
  BY BoundsAssumption DEF TypeOK, Claimable
<1>1. TypeOK'
  <2>1. WorkerOf[r] \in Workers /\ row.attempts + 1 \in 0..MaxAttempts
    BY <1>0, WorkersAssumption
  <2>2. row' \in [status : Status, attempts : 0..MaxAttempts, by : Workers \cup {Nobody},
                  started : BOOLEAN, stale : BOOLEAN]
    BY <2>1 DEF TypeOK, Status
  <2>3. run' \in [Runners -> [at : Step, attempt : 0..MaxAttempts]]
    BY <2>1 DEF TypeOK, Step
  <2> QED
    BY <2>2, <2>3 DEF TypeOK
<1>2. Distinct'
  <2>1. row'.attempts = row.attempts + 1
    BY DEF TypeOK
  <2>2. \A s \in Runners : run'[s] = IF s = r THEN [at |-> "check", attempt |-> row.attempts + 1]
                                    ELSE run[s]
    BY DEF TypeOK
  <2>3. \A s \in Runners : s # r /\ run[s].at # "idle" => run[s].attempt \in 1..row.attempts
    BY DEF Distinct
  <2>4. \A s \in Runners : run'[s].at # "idle" => run'[s].attempt \in 1..row'.attempts
    BY <1>0, <2>1, <2>2, <2>3
  <2>5. ASSUME NEW s \in Runners, NEW t \in Runners, s # t,
               run'[s].at # "idle", run'[t].at # "idle"
        PROVE  run'[s].attempt # run'[t].attempt
    BY <1>0, <2>2, <2>3, <2>5 DEF Distinct
  <2> QED
    BY <2>4, <2>5 DEF Distinct
<1>3. Permission'
  BY <1>0 DEF TypeOK, Permission
<1>4. Callers'
  BY <1>0 DEF TypeOK, Callers
<1> QED
  BY <1>1, <1>2, <1>3, <1>4

\* A runner that goes on, or ends, keeps to its attempt.
LEMMA Moved ==
    ASSUME Inv, NEW r \in Runners, NEW s \in Step, run[r].at # "idle",
           \/ run' = [run EXCEPT ![r].at = s]
           \/ run' = [run EXCEPT ![r] = [at |-> "idle", attempt |-> 0]],
           row'.attempts = row.attempts
    PROVE  /\ run' \in [Runners -> [at : Step, attempt : 0..MaxAttempts]]
           /\ Distinct'
BY BoundsAssumption DEF Inv, TypeOK, Distinct, Step

LEMMA StartInv == ASSUME Inv, NEW r \in Runners, MarkProviderStarted(r) PROVE Inv'
<1> USE DEF Inv, MarkProviderStarted, Goto, Started, MayStart, OwnedBy
<1>1. row' = row \/ row' = [row EXCEPT !.started = TRUE]
  OBVIOUS
<1>2. TypeOK' /\ Distinct'
  <2>1. row'.attempts = row.attempts /\ run[r].at # "idle"
    BY <1>1 DEF TypeOK
  <2>2. "send" \in Step /\ "caught" \in Step
    BY DEF Step
  <2>3. /\ run' \in [Runners -> [at : Step, attempt : 0..MaxAttempts]]
        /\ Distinct'
    BY <2>1, <2>2, Moved
  <2> QED
    BY <1>1, <2>3 DEF TypeOK
<1>3. Permission'
  BY DEF TypeOK, Permission
<1>4. Callers'
  BY DEF TypeOK, Callers, Permission
<1> QED
  BY <1>2, <1>3, <1>4

LEMMA SendInv == ASSUME Inv, NEW r \in Runners, Send(r) PROVE Inv'
<1> USE DEF Inv, Send, Goto
<1>1. provider.calls = 0 /\ provider.taken = 0 /\ row.started /\ run[r].attempt = row.attempts
  BY DEF TypeOK, Callers, Permission
<1>2. \A s \in Runners : s # r => run[s].at # "send"
  BY <1>1 DEF Callers, Distinct
<1>3. provider'.calls = 1 /\ provider'.taken \in {0, 1} /\ row' = row
      /\ (run'[r].at = "sent" => provider'.taken = 1)
  BY <1>1 DEF TypeOK
<1>4. TypeOK'
  BY <1>1, <1>3, BoundsAssumption DEF TypeOK, Status, Step
<1>5. Distinct'
  BY DEF TypeOK, Distinct
<1>6. Permission'
  BY <1>1, <1>3 DEF TypeOK, Permission
<1>7. Callers'
  BY <1>1, <1>2, <1>3 DEF TypeOK, Callers
<1> QED
  BY <1>4, <1>5, <1>6, <1>7

\* A step of a runner that neither claims nor calls: it leaves the calls as they are,
\* and it can only settle a row that has its permission as sent, after an
\* acceptance, or as of unknown outcome.
LEMMA SettlingInv ==
    ASSUME Inv, NEW r \in Runners, NEW s \in Step, run[r].at # "idle", s \notin {"send", "sent"},
           \/ run' = [run EXCEPT ![r].at = s]
           \/ run' = [run EXCEPT ![r] = [at |-> "idle", attempt |-> 0]],
           \/ row' = row
           \/ MayStart(r) /\ row' = Started
           \/ MaySettle(r) /\ row' = Settled("SENT")
           \/ MaySettle(r) /\ row' = Settled("UNKNOWN_OUTCOME")
           \/ MayFail(r) /\ row' = Settled("FAILED"),
           UNCHANGED <<pass, provider>>, faults' \in 0..MaxFaults
    PROVE  Inv'
<1>1. /\ row' \in [status : Status, attempts : 0..MaxAttempts, by : Workers \cup {Nobody},
                   started : BOOLEAN, stale : BOOLEAN]
      /\ row'.attempts = row.attempts
  BY DEF Inv, TypeOK, Status, MayStart, MaySettle, MayFail, Started, Settled
<1>2. /\ run' \in [Runners -> [at : Step, attempt : 0..MaxAttempts]]
      /\ Distinct'
  BY <1>1, Moved
<1>3. TypeOK'
  BY <1>1, <1>2 DEF Inv, TypeOK
<1>4. Permission'
  BY DEF Inv, TypeOK, Permission, MayStart, MaySettle, MayFail, OwnedBy, Started, Settled
<1>5. \A t \in Runners : run'[t].at \in {"send", "sent"} => run'[t] = run[t]
  BY DEF Inv, TypeOK
<1>6. row.started => row'.started
  BY DEF Inv, TypeOK, Started, Settled
<1>7. Callers'
  BY <1>1, <1>5, <1>6 DEF Inv, Callers
<1> QED
  BY <1>2, <1>3, <1>4, <1>7 DEF Inv

LEMMA SettleInv ==
    ASSUME Inv, NEW r \in Runners,
           MarkSent(r) \/ MarkUnknown(r) \/ MarkFailed(r) \/ WriteFails(r) \/ Check(r)
    PROVE  Inv'
<1> USE DEF Goto, Return
<1>0. /\ faults \in 0..MaxFaults /\ MaxFaults \in Nat
      /\ {"caught", "fail", "start", "idle"} \subseteq Step \ {"send", "sent"}
  BY BoundsAssumption DEF Inv, TypeOK, Step
<1>1. CASE MarkSent(r)
  BY <1>0, <1>1, SettlingInv DEF MarkSent
<1>2. CASE MarkUnknown(r)
  BY <1>0, <1>2, SettlingInv DEF MarkUnknown
<1>3. CASE MarkFailed(r)
  BY <1>0, <1>3, SettlingInv DEF MarkFailed
<1>4. CASE WriteFails(r)
  <2>1. faults' \in 0..MaxFaults /\ UNCHANGED <<pass, provider>>
    BY <1>0, <1>4 DEF WriteFails, Fault
  <2> QED
    BY <1>0, <1>4, <2>1, SettlingInv DEF WriteFails
<1>5. CASE Check(r)
  <2>1. faults' \in 0..MaxFaults /\ UNCHANGED <<row, pass, provider>>
    BY <1>0, <1>5 DEF Check, Fault
  <2> QED
    BY <1>0, <1>5, <2>1, SettlingInv DEF Check
<1> QED
  BY <1>1, <1>2, <1>3, <1>4, <1>5

\* The steps of the workers and of time: the row keeps its attempts, its permission
\* and its end, and runners go on or start over.
LEMMA QuietInv ==
    ASSUME Inv,
           \/ row' = row
           \/ Resettable /\ row' = Settled("PENDING")
           \/ row.status = "PROCESSING" /\ row' = [row EXCEPT !.stale = TRUE],
           \A r \in Runners : run'[r] = run[r] \/ run'[r] = [at |-> "idle", attempt |-> 0],
           run' = [r \in Runners |-> run'[r]],
           pass' \in [Workers -> {"sweep", "run"}],
           UNCHANGED provider, faults' \in 0..MaxFaults
    PROVE  Inv'
<1>1. /\ row' \in [status : Status, attempts : 0..MaxAttempts, by : Workers \cup {Nobody},
                   started : BOOLEAN, stale : BOOLEAN]
      /\ row'.attempts = row.attempts /\ row'.started = row.started
      /\ row'.status = row.status \/ (~row.started /\ row'.status = "PENDING")
  BY DEF Inv, TypeOK, Status, Resettable, Settled
<1>2. run' \in [Runners -> [at : Step, attempt : 0..MaxAttempts]]
  <2>1. \A r \in Runners : run'[r] \in [at : Step, attempt : 0..MaxAttempts]
    BY BoundsAssumption DEF Inv, TypeOK, Step
  <2> QED
    BY <2>1
<1>3. TypeOK'
  BY <1>1, <1>2 DEF Inv, TypeOK
<1>4. Distinct'
  BY <1>1 DEF Inv, Distinct
<1>5. Permission'
  BY <1>1 DEF Inv, TypeOK, Permission
<1>6. Callers'
  BY <1>1 DEF Inv, Callers
<1> QED
  BY <1>3, <1>4, <1>5, <1>6 DEF Inv

LEMMA InvInductive == Inv /\ [Next]_vars => Inv'
<1> SUFFICES ASSUME Inv, [Next]_vars PROVE Inv'
  OBVIOUS
<1>0. /\ run \in [Runners -> [at : Step, attempt : 0..MaxAttempts]]
      /\ pass \in [Workers -> {"sweep", "run"}]
      /\ faults \in 0..MaxFaults /\ MaxFaults \in Nat
  BY BoundsAssumption DEF Inv, TypeOK
<1>1. CASE Enqueue
  BY <1>1, EnqueueInv
<1>2. CASE GoesStale
  BY <1>0, <1>2, QuietInv DEF GoesStale
<1>3. ASSUME NEW w \in Workers, SweepStale(w) PROVE Inv'
  BY <1>0, <1>3, QuietInv DEF SweepStale
<1>4. ASSUME NEW w \in Workers, EndPass(w) PROVE Inv'
  BY <1>0, <1>4, QuietInv DEF EndPass
<1>5. ASSUME NEW w \in Workers, Crash(w) PROVE Inv'
  <2>1. faults' \in 0..MaxFaults
    BY <1>0, <1>5 DEF Crash, Fault
  <2> QED
    BY <1>0, <1>5, <2>1, QuietInv DEF Crash
<1>6. ASSUME NEW r \in Runners, RunnerStep(r) PROVE Inv'
  BY <1>6, ClaimInv, StartInv, SendInv, SettleInv DEF RunnerStep
<1>7. ASSUME NEW r \in Runners, WriteFails(r) PROVE Inv'
  BY <1>7, SettleInv
<1>8. CASE UNCHANGED vars
  BY <1>0, <1>8, QuietInv DEF vars
<1> QED
  BY <1>1, <1>2, <1>3, <1>4, <1>5, <1>6, <1>7, <1>8 DEF Next, WorkerStep, Team

\* The strengthened invariant of the row and its workers.
THEOREM Invariance == Spec => []Inv
<1> QED
  BY InitInv, InvInductive, PTL DEF Spec

\* The row, its runners and the provider's counters always have their types.
THEOREM TypeCorrect == Spec => []TypeOK
<1>1. Inv => TypeOK
  BY DEF Inv
<1> QED
  BY <1>1, Invariance, PTL

\* However claims are lost, reset and taken again, a message that is reported FAILED
\* was not handed to the provider and nobody is about to.
THEOREM FailedWasNeverSent == Spec => []FailedNeverSent
<1>1. Inv => FailedNeverSent
  BY DEF Inv, Permission, Callers, FailedNeverSent
<1> QED
  BY <1>1, Invariance, PTL

LEMMA StepMaps == Inv /\ Inv' /\ [Next]_vars => [Message!Next]_(Message!dvars)
<1> SUFFICES ASSUME Inv, Inv', [Next]_vars PROVE [Message!Next]_(Message!dvars)
  OBVIOUS
<1> USE DEF Message!Next, Message!dvars, MessageState
<1>1. CASE Enqueue
  BY <1>1 DEF Enqueue, Message!Queue, Inv, TypeOK
<1>2. CASE GoesStale
  BY <1>2 DEF GoesStale, Inv, TypeOK
<1>3. ASSUME NEW w \in Workers, SweepStale(w) \/ EndPass(w) \/ Crash(w)
      PROVE  UNCHANGED Message!dvars
  BY <1>3 DEF SweepStale, EndPass, Crash, Resettable, Settled, Inv, TypeOK
<1>4. ASSUME NEW r \in Runners, ClaimNext(r) \/ MarkProviderStarted(r) \/ Check(r)
      PROVE  UNCHANGED Message!dvars
  BY <1>4 DEF ClaimNext, Claimable, MarkProviderStarted, Check, MayStart, OwnedBy, Started, Inv, TypeOK
<1>5. ASSUME NEW r \in Runners, Send(r) PROVE Message!Send
  BY <1>5 DEF Send, Message!Send, Inv, TypeOK, Permission, Callers
<1>6. ASSUME NEW r \in Runners, MarkSent(r) \/ MarkUnknown(r) \/ MarkFailed(r) \/ WriteFails(r)
      PROVE  Message!Settle \/ UNCHANGED Message!dvars
  <2>1. CASE row' = row \/ (MayStart(r) /\ row' = Started)
    BY <1>6, <2>1 DEF MarkSent, MarkUnknown, MarkFailed, WriteFails, MayStart, OwnedBy, Started,
                      Inv, TypeOK
  <2>2. CASE MaySettle(r) /\ row' = Settled("SENT") /\ run[r].at = "sent"
    BY <1>6, <2>2 DEF MarkSent, MarkUnknown, MarkFailed, WriteFails, Message!Settle, MaySettle,
                      OwnedBy, Settled, Inv, TypeOK, Callers
  <2>3. CASE MaySettle(r) /\ row' = Settled("UNKNOWN_OUTCOME")
    BY <1>6, <2>3 DEF MarkSent, MarkUnknown, MarkFailed, WriteFails, Message!Settle, MaySettle,
                      OwnedBy, Settled, Inv, TypeOK
  <2>4. CASE MayFail(r) /\ row' = Settled("FAILED")
    BY <1>6, <2>4 DEF MarkSent, MarkUnknown, MarkFailed, WriteFails, Message!Settle, MayFail,
                      OwnedBy, Settled, Inv, TypeOK
  <2> QED
    BY <1>6, <2>1, <2>2, <2>3, <2>4 DEF MarkSent, MarkUnknown, MarkFailed, WriteFails
<1>7. CASE UNCHANGED vars
  BY <1>7 DEF vars
<1> QED
  BY <1>1, <1>2, <1>3, <1>4, <1>5, <1>6, <1>7 DEF Next, WorkerStep, RunnerStep, Team

\* The row and its workers implement one message that is handed over at most once.
THEOREM DeliversAtMostOnce == Spec => ImplementsDelivery
<1>1. Init => Message!Init
  BY DEF Init, Message!Init, MessageState
<1> QED
  BY <1>1, StepMaps, Invariance, PTL DEF Spec, ImplementsDelivery, Message!Spec
=============================================================================
