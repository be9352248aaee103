------------------------- MODULE EmailOutboxProofs -------------------------
(***************************************************************************)
(* Proofs about EmailOutbox: types, that a claim which has not timed out   *)
(* is its owner's, and that the row and its workers implement Delivery     *)
(* with as many calls as attempts.  The argument: each attempt number      *)
(* belongs to one runner, a cut-off names a claim that is stale already,   *)
(* and every claim pays for the one call its runner has yet to make.       *)
(***************************************************************************)
EXTENDS EmailOutbox, FiniteSetTheorems, TLAPS

RowType == [status : Status, attempts : 0..MaxAttempts, by : Workers \cup {Nobody},
            due : BOOLEAN, stale : BOOLEAN]
RunType == [at : Step, attempt : 0..MaxAttempts]
PassType == [at : {"sweep", "reset", "run"}, cutoff : 0..MaxAttempts]

\* A runner at work has claimed an attempt of its own.
Distinct ==
    /\ \A r \in Runners : run[r].at # "idle" => run[r].attempt \in 1..row.attempts
    /\ \A r, s \in Runners : run[r].at # "idle" /\ run[s].at # "idle" /\ r # s
                                => run[r].attempt # run[s].attempt

\* What a sweep set out to undo is stale, or no longer claimed.
CutoffsStale ==
    /\ row.status = "PROCESSING" => row.attempts >= 1
    /\ row.status = "ABSENT" => row.attempts = 0
    /\ \A w \in Workers : /\ pass[w].cutoff <= row.attempts
                          /\ pass[w].cutoff = row.attempts /\ row.status = "PROCESSING" => row.stale

\* The calls made and those to come are paid for by claims.
Uncalled == {r \in Runners : run[r].at \in {"prepare", "send"}}

Budget == /\ provider.calls + Cardinality(Uncalled) <= row.attempts
          /\ provider.taken <= provider.calls
          /\ \A r \in Runners : run[r].at = "sent" => provider.taken >= 1

Inv == TypeOK /\ Distinct /\ CutoffsStale /\ Budget /\ FreshClaimKept

LEMMA UncalledFinite == IsFiniteSet(Uncalled) /\ Cardinality(Uncalled) \in Nat
<1>1. IsFiniteSet(Uncalled)
  BY WorkersAssumption, FS_Subset DEF Uncalled
<1> QED
  BY <1>1, FS_CardinalityType

LEMMA InitInv == Init => Inv
<1> SUFFICES ASSUME Init PROVE Inv
  OBVIOUS
<1>1. TypeOK /\ Distinct /\ CutoffsStale /\ FreshClaimKept
  BY BoundsAssumption DEF Init, TypeOK, Distinct, CutoffsStale, FreshClaimKept, Status, Step
<1>2. Uncalled = {}
  BY DEF Init, Uncalled
<1>3. Budget
  BY <1>2, FS_EmptySet DEF Init, Budget
<1> QED
  BY <1>1, <1>3 DEF Inv

LEMMA EnqueueInv == Inv /\ Enqueue => Inv'
<1> SUFFICES ASSUME Inv, Enqueue PROVE Inv'
  OBVIOUS
<1>1. /\ row' \in RowType /\ row'.attempts = row.attempts /\ row.attempts = 0
      /\ row.status = "ABSENT" /\ row'.status = "PENDING"
      /\ UNCHANGED <<run, pass, provider, faults>>
  BY DEF Inv, Enqueue, TypeOK, CutoffsStale, RowType, Status
<1>2. TypeOK'
  BY <1>1 DEF Inv, TypeOK, RowType
<1>3. Distinct' /\ CutoffsStale' /\ Budget'
  BY <1>1 DEF Inv, TypeOK, Distinct, CutoffsStale, Budget, Uncalled
<1>4. FreshClaimKept'
  BY <1>1 DEF Inv, Distinct, FreshClaimKept
<1> QED
  BY <1>2, <1>3, <1>4 DEF Inv

LEMMA ClaimInv == ASSUME Inv, NEW r \in Runners, ClaimNext(r) PROVE Inv'
<1> USE DEF Inv, ClaimNext
<1>0. /\ row.attempts \in 0..MaxAttempts /\ MaxAttempts \in Nat /\ row.attempts < MaxAttempts
      /\ run[r].at = "idle" /\ WorkerOf[r] \in Workers
  BY BoundsAssumption, WorkersAssumption DEF TypeOK, Claimable
<1>1. /\ row' \in RowType /\ row'.attempts = row.attempts + 1 /\ row'.status = "PROCESSING"
      /\ row'.by = WorkerOf[r] /\ row'.stale = FALSE
  <2>1. row.attempts + 1 \in 0..MaxAttempts
    BY <1>0
  <2> QED
    BY <1>0, <2>1 DEF TypeOK, RowType, Status
<1>2. \A s \in Runners : run'[s] = IF s = r THEN [at |-> "prepare", attempt |-> row.attempts + 1]
                                  ELSE run[s]
  BY DEF TypeOK
<1>3. run' \in [Runners -> RunType]
  BY <1>0 DEF TypeOK, RunType, Step
<1>4. TypeOK'
  BY <1>1, <1>3 DEF TypeOK, RowType, RunType
<1>5. \A s \in Runners : s # r /\ run[s].at # "idle" => run[s].attempt \in 1..row.attempts
  BY DEF Distinct
<1>6. Distinct'
  <2>1. \A s \in Runners : run'[s].at # "idle" => run'[s].attempt \in 1..row'.attempts
    BY <1>0, <1>1, <1>2, <1>5
  <2>2. ASSUME NEW s \in Runners, NEW t \in Runners, s # t,
               run'[s].at # "idle", run'[t].at # "idle"
        PROVE  run'[s].attempt # run'[t].attempt
    BY <1>0, <1>2, <1>5, <2>2 DEF Distinct
  <2> QED
    BY <2>1, <2>2 DEF Distinct
<1>7. CutoffsStale'
  BY <1>0, <1>1 DEF TypeOK, CutoffsStale
<1>8. FreshClaimKept'
  BY <1>0, <1>1, <1>2, <1>5 DEF FreshClaimKept
<1>9. Budget'
  <2>1. Uncalled' = Uncalled \cup {r} /\ r \notin Uncalled
    BY <1>0, <1>2 DEF Uncalled
  <2>2. Cardinality(Uncalled') = Cardinality(Uncalled) + 1
    BY <2>1, UncalledFinite, FS_AddElement
  <2> QED
    BY <1>0, <1>1, <1>2, <2>2, UncalledFinite DEF Budget, TypeOK
<1> QED
  BY <1>4, <1>6, <1>7, <1>8, <1>9

LEMMA SendInv == ASSUME Inv, NEW r \in Runners, Send(r) PROVE Inv'
<1> USE DEF Inv, Send, Goto
<1>1. PICK took \in {0, 1} :
         /\ provider' = [calls |-> provider.calls + 1, taken |-> provider.taken + took]
         /\ run'[r].at = "sent" => took = 1
         /\ \E s \in {"sent", "retry", "fail"} : run' = [run EXCEPT ![r].at = s]
  BY DEF TypeOK
<1>2. PICK s \in {"sent", "retry", "fail"} : run' = [run EXCEPT ![r].at = s]
  BY <1>1
<1>3. run[r].at = "send" /\ UNCHANGED <<row, pass, faults>>
  OBVIOUS
<1>4. /\ run' \in [Runners -> RunType]
      /\ \A t \in Runners : run'[t] = IF t = r THEN [run[r] EXCEPT !.at = s] ELSE run[t]
  BY <1>2 DEF TypeOK, RunType, Step
<1>5. Uncalled' = Uncalled \ {r} /\ r \in Uncalled
  BY <1>3, <1>4 DEF Uncalled, TypeOK
<1>6. Cardinality(Uncalled') = Cardinality(Uncalled) - 1
  BY <1>5, UncalledFinite, FS_RemoveElement
<1>7. Budget'
  <2>1. /\ provider.calls \in Nat /\ provider.taken \in Nat /\ row.attempts \in Nat
        /\ provider'.calls = provider.calls + 1
        /\ provider'.taken = provider.taken + took
    BY <1>1 DEF TypeOK
  <2>2. \A t \in Runners : run'[t].at = "sent" => provider'.taken >= 1
    BY <1>1, <1>4, <2>1 DEF Budget
  <2> QED
    BY <1>3, <1>6, <2>1, <2>2, UncalledFinite DEF Budget
<1>8. provider' \in [calls : 0..MaxAttempts, taken : 0..MaxAttempts]
  <2>1. Cardinality(Uncalled') \in Nat
    <3>1. IsFiniteSet(Uncalled \ {r})
      BY UncalledFinite, FS_RemoveElement
    <3> QED
      BY <3>1, <1>5, FS_CardinalityType
  <2>2. row.attempts \in 0..MaxAttempts /\ MaxAttempts \in Nat
    BY BoundsAssumption DEF TypeOK
  <2>3. provider'.calls \in Nat /\ provider'.taken \in Nat
    BY <1>1 DEF TypeOK
  <2>4. provider'.calls <= MaxAttempts /\ provider'.taken <= MaxAttempts
    BY <1>3, <1>7, <2>1, <2>2, <2>3 DEF Budget
  <2> QED
    BY <1>1, <2>2, <2>3, <2>4
<1>9. TypeOK' /\ Distinct' /\ CutoffsStale' /\ FreshClaimKept'
  BY <1>3, <1>4, <1>8 DEF TypeOK, Distinct, CutoffsStale, FreshClaimKept, RunType
<1> QED
  BY <1>7, <1>9

\* A step that neither claims nor calls.  The row keeps its attempts; a runner goes on,
\* not to a call or an acceptance, or starts over; a claim ends at its owner's hand,
\* when it is stale, or with an acceptance.
RowOther ==
    /\ row' \in RowType /\ row'.attempts = row.attempts
    /\ row'.status # "PROCESSING" \/ (row'.by = row.by /\ row.status = "PROCESSING")
    /\ row'.status = "ABSENT" => row.status = "ABSENT"
    /\ row.stale => row'.stale
    /\ \/ row'.status \in {row.status, "SENT"} \/ row.stale \/ row.status = "PENDING"
       \/ \E s \in Runners : OwnedBy(s) /\ run[s].at # "idle" /\ run'[s].at = "idle"

RunOther ==
    /\ run' \in [Runners -> RunType]
    /\ \A t \in Runners : \/ run'[t] = run[t]
                          \/ run'[t].at = "idle"
                          \/ /\ run'[t].attempt = run[t].attempt
                             /\ run'[t].at \in {"send", "fail"} /\ run[t].at = "prepare"

PassOther ==
    /\ pass' \in [Workers -> PassType]
    /\ \A w \in Workers : \/ pass'[w].cutoff \in {0, pass[w].cutoff}
                          \/ pass'[w].cutoff = row.attempts /\ row.stale

LEMMA OtherInv ==
    ASSUME Inv, RowOther, RunOther, PassOther, UNCHANGED provider, faults' \in 0..MaxFaults
    PROVE  Inv'
<1> USE DEF RowOther, RunOther, PassOther
<1>2. TypeOK'
  BY DEF Inv, TypeOK, RowType, RunType, PassType
<1>3. Distinct'
  BY DEF Inv, TypeOK, Distinct
<1>4. CutoffsStale'
  BY DEF Inv, TypeOK, CutoffsStale
<1>5. Budget'
  <2>1. Uncalled' \subseteq Uncalled
    BY DEF Uncalled, Inv, TypeOK
  <2>2. IsFiniteSet(Uncalled') /\ Cardinality(Uncalled') <= Cardinality(Uncalled)
    BY <2>1, UncalledFinite, FS_Subset
  <2>3. Cardinality(Uncalled') \in Nat /\ Cardinality(Uncalled) \in Nat
    BY <2>2, UncalledFinite, FS_CardinalityType
  <2>4. provider.calls \in Nat /\ row.attempts \in Nat
    BY DEF Inv, TypeOK
  <2>5. \A t \in Runners : run'[t].at = "sent" => run[t].at = "sent"
    BY DEF Inv, TypeOK
  <2> QED
    BY <2>2, <2>3, <2>4, <2>5 DEF Inv, Budget
<1>6. FreshClaimKept'
  <2> SUFFICES ASSUME NEW r \in Runners, run'[r].at # "idle", run'[r].attempt = row'.attempts,
                      ~row'.stale, row'.status # "SENT"
               PROVE  row'.status = "PROCESSING" /\ row'.by = WorkerOf[r]
    BY DEF FreshClaimKept
  <2>1. /\ run[r].at # "idle" /\ run[r].attempt = row.attempts /\ ~row.stale
    BY DEF Inv, TypeOK
  <2>2. row.status = "SENT" \/ (row.status = "PROCESSING" /\ row.by = WorkerOf[r])
    BY <2>1 DEF Inv, FreshClaimKept
  <2>3. \A s \in Runners : OwnedBy(s) /\ run[s].at # "idle" => s = r
    BY <2>1 DEF Inv, Distinct, OwnedBy
  <2> QED
    BY <2>1, <2>2, <2>3
<1> QED
  BY <1>2, <1>3, <1>4, <1>5, <1>6 DEF Inv

LEMMA Facts == Inv => /\ row \in RowType /\ pass \in [Workers -> PassType]
                      /\ run \in [Runners -> RunType]
                      /\ faults \in 0..MaxFaults /\ MaxFaults \in Nat
BY BoundsAssumption DEF Inv, TypeOK, RowType, RunType, PassType

LEMMA Unchanged == Inv => /\ UNCHANGED row => RowOther
                          /\ UNCHANGED run => RunOther
                          /\ UNCHANGED pass => PassOther
BY Facts DEF RowOther, RunOther, PassOther

LEMMA Returns == ASSUME Inv, NEW r \in Runners, Return(r) PROVE RunOther /\ run'[r].at = "idle"
BY Facts, BoundsAssumption DEF Return, RunOther, RunType, Step

LEMMA RunnerInv ==
    ASSUME Inv, NEW r \in Runners,
           MarkSent(r) \/ ScheduleRetry(r) \/ MarkFailed(r) \/ Prepare(r) \/ WriteFails(r)
    PROVE  Inv'
<1>1. row \in RowType /\ run \in [Runners -> RunType]
      /\ faults \in 0..MaxFaults /\ MaxFaults \in Nat
  BY Facts
<1>2. CASE MarkSent(r)
  <2>1. RunOther /\ PassOther /\ UNCHANGED <<provider, faults>>
    BY <1>2, Returns, Unchanged DEF MarkSent
  <2>2. RowOther
    BY <1>1, <1>2 DEF MarkSent, Settled, RowOther, RowType, Status
  <2> QED
    BY <1>1, <2>1, <2>2, OtherInv
<1>3. CASE ScheduleRetry(r)
  <2>1. RunOther /\ PassOther /\ UNCHANGED <<provider, faults>> /\ run'[r].at = "idle"
    BY <1>3, Returns, Unchanged DEF ScheduleRetry
  <2>2. run[r].at # "idle"
    BY <1>3 DEF ScheduleRetry
  <2>3. RowOther
    BY <1>1, <1>3, <2>1, <2>2 DEF ScheduleRetry, Settled, RowOther, RowType, Status
  <2> QED
    BY <1>1, <2>1, <2>3, OtherInv
<1>4. CASE MarkFailed(r)
  <2>1. RunOther /\ PassOther /\ UNCHANGED <<provider, faults>> /\ run'[r].at = "idle"
    BY <1>4, Returns, Unchanged DEF MarkFailed
  <2>2. run[r].at # "idle"
    BY <1>4 DEF MarkFailed
  <2>3. RowOther
    BY <1>1, <1>4, <2>1, <2>2 DEF MarkFailed, Settled, RowOther, RowType, Status
  <2> QED
    BY <1>1, <2>1, <2>3, OtherInv
<1>5. CASE Prepare(r)
  <2>1. RunOther
    BY <1>1, <1>5 DEF Prepare, Goto, RunOther, RunType, Step
  <2>2. RowOther /\ PassOther /\ UNCHANGED <<provider, faults>>
    BY <1>5, Unchanged DEF Prepare
  <2> QED
    BY <1>1, <2>1, <2>2, OtherInv
<1>6. CASE WriteFails(r)
  <2>1. faults' \in 0..MaxFaults
    BY <1>1, <1>6 DEF WriteFails, Fault
  <2>2. RowOther /\ RunOther /\ PassOther /\ UNCHANGED provider
    BY <1>6, Returns, Unchanged DEF WriteFails
  <2> QED
    BY <2>1, <2>2, OtherInv
<1> QED
  BY <1>2, <1>3, <1>4, <1>5, <1>6

LEMMA WorkerInv ==
    ASSUME Inv, NEW w \in Workers,
           SweepExhausted(w) \/ SweepStale(w) \/ EndPass(w) \/ Crash(w)
    PROVE  Inv'
<1>1. row \in RowType /\ pass \in [Workers -> PassType] /\ run \in [Runners -> RunType]
      /\ faults \in 0..MaxFaults /\ MaxFaults \in Nat /\ MaxAttempts \in Nat
  BY Facts, BoundsAssumption
<1>2. CASE SweepExhausted(w)
  <2>1. RowOther
    BY <1>1, <1>2 DEF SweepExhausted, Exhausted, Settled, RowOther, RowType, Status
  <2>2. PassOther
    <3>1. (IF row.stale THEN row.attempts ELSE 0) \in 0..MaxAttempts
      BY <1>1 DEF RowType
    <3> QED
      BY <1>1, <1>2, <3>1 DEF SweepExhausted, PassOther, PassType
  <2>3. RunOther /\ UNCHANGED <<provider, faults>>
    BY <1>2, Unchanged DEF SweepExhausted
  <2> QED
    BY <1>1, <2>1, <2>2, <2>3, OtherInv
<1>3. CASE SweepStale(w)
  <2>1. row.status = "PROCESSING" /\ row.attempts = pass[w].cutoff => row.stale
    BY DEF Inv, CutoffsStale
  <2>2. RowOther
    BY <1>1, <1>3, <2>1 DEF SweepStale, Settled, RowOther, RowType, Status
  <2>3. PassOther
    BY <1>1, <1>3 DEF SweepStale, PassOther, PassType
  <2>4. RunOther /\ UNCHANGED <<provider, faults>>
    BY <1>3, Unchanged DEF SweepStale
  <2> QED
    BY <1>1, <2>2, <2>3, <2>4, OtherInv
<1>4. CASE EndPass(w)
  <2>1. PassOther
    BY <1>1, <1>4 DEF EndPass, PassOther, PassType
  <2>2. RowOther /\ RunOther /\ UNCHANGED <<provider, faults>>
    BY <1>4, Unchanged DEF EndPass
  <2> QED
    BY <1>1, <2>1, <2>2, OtherInv
<1>5. CASE Crash(w)
  <2>1. PassOther
    BY <1>1, <1>5 DEF Crash, PassOther, PassType
  <2>2. RunOther
    BY <1>1, <1>5 DEF Crash, RunOther, RunType, Step
  <2>3. faults' \in 0..MaxFaults
    BY <1>1, <1>5 DEF Crash, Fault
  <2>4. RowOther /\ UNCHANGED provider
    BY <1>5, Unchanged DEF Crash
  <2> QED
    BY <2>1, <2>2, <2>3, <2>4, OtherInv
<1> QED
  BY <1>2, <1>3, <1>4, <1>5

LEMMA TimeInv == Inv /\ (FallsDue \/ GoesStale \/ UNCHANGED vars) => Inv'
<1> SUFFICES ASSUME Inv, FallsDue \/ GoesStale \/ UNCHANGED vars PROVE Inv'
  OBVIOUS
<1>1. row \in RowType /\ faults \in 0..MaxFaults
  BY Facts
<1>2. /\ row' = row \/ row' = [row EXCEPT !.due = TRUE] \/ row' = [row EXCEPT !.stale = TRUE]
      /\ UNCHANGED <<run, pass, provider, faults>>
  BY DEF FallsDue, GoesStale, vars
<1>3. RowOther
  BY <1>1, <1>2 DEF RowOther, RowType
<1>4. RunOther /\ PassOther
  BY <1>2, Unchanged
<1> QED
  BY <1>1, <1>2, <1>3, <1>4, OtherInv

LEMMA InvInductive == Inv /\ [Next]_vars => Inv'
<1> SUFFICES ASSUME Inv, [Next]_vars PROVE Inv'
  OBVIOUS
<1>1. CASE Enqueue
  BY <1>1, EnqueueInv
<1>2. CASE FallsDue \/ GoesStale \/ UNCHANGED vars
  BY <1>2, TimeInv
<1>3. ASSUME NEW w \in Workers, SweepExhausted(w) \/ SweepStale(w) \/ EndPass(w) \/ Crash(w)
      PROVE  Inv'
  BY <1>3, WorkerInv
<1>4. ASSUME NEW r \in Runners, RunnerStep(r) \/ WriteFails(r) PROVE Inv'
  BY <1>4, ClaimInv, SendInv, RunnerInv DEF RunnerStep
<1> QED
  BY <1>1, <1>2, <1>3, <1>4 DEF Next, WorkerStep, Team

\* The strengthened invariant of the row and its workers.
THEOREM Invariance == Spec => []Inv
<1> QED
  BY InitInv, InvInductive, PTL DEF Spec

\* The row, its runners, the sweeps and the provider's counters always have their types.
THEOREM TypeCorrect == Spec => []TypeOK
<1>1. Inv => TypeOK
  BY DEF Inv
<1> QED
  BY <1>1, Invariance, PTL

\* Until it times out, a claim is its owner's, whatever other runners and sweeps do.
THEOREM FreshClaimIsKept == Spec => []FreshClaimKept
<1>1. Inv => FreshClaimKept
  BY DEF Inv
<1> QED
  BY <1>1, Invariance, PTL

LEMMA SendMaps == ASSUME Inv, NEW r \in Runners, Send(r) PROVE Message!Send
<1>1. r \in Uncalled /\ run[r].attempt \in 1..row.attempts /\ row.attempts \in 0..MaxAttempts
  BY DEF Send, Uncalled, Inv, Distinct, TypeOK
<1>2. Cardinality(Uncalled) # 0
  BY <1>1, UncalledFinite, FS_EmptySet
<1>3. provider.calls < MaxAttempts
  <2>1. provider.calls \in Nat /\ MaxAttempts \in Nat
    BY BoundsAssumption DEF Inv, TypeOK
  <2>2. provider.calls + Cardinality(Uncalled) <= row.attempts
    BY DEF Inv, Budget
  <2> QED
    BY <1>1, <1>2, <2>1, <2>2, UncalledFinite
<1>4. row.status # "ABSENT"
  BY <1>1 DEF Inv, CutoffsStale
<1> QED
  BY <1>3, <1>4 DEF Send, Message!Send, MessageState, Inv, TypeOK

LEMMA StepMaps == Inv /\ [Next]_vars => [Message!Next]_(Message!dvars)
<1> SUFFICES ASSUME Inv, [Next]_vars PROVE [Message!Next]_(Message!dvars)
  OBVIOUS
<1>0. row \in RowType
  BY Facts
<1> USE DEF Message!Next, Message!dvars, MessageState, RowType
<1>1. CASE Enqueue
  BY <1>0, <1>1 DEF Enqueue, Message!Queue
<1>2. CASE FallsDue \/ GoesStale \/ UNCHANGED vars
  BY <1>0, <1>2 DEF FallsDue, GoesStale, vars
<1>3. ASSUME NEW w \in Workers, SweepExhausted(w) PROVE Message!Settle \/ UNCHANGED Message!dvars
  BY <1>0, <1>3 DEF SweepExhausted, Exhausted, Settled, Message!Settle
<1>4. ASSUME NEW w \in Workers, SweepStale(w) \/ EndPass(w) \/ Crash(w)
      PROVE  UNCHANGED Message!dvars
  BY <1>0, <1>4 DEF SweepStale, EndPass, Crash, Settled
<1>5. ASSUME NEW r \in Runners, ClaimNext(r) \/ Prepare(r) \/ WriteFails(r)
      PROVE  UNCHANGED Message!dvars
  BY <1>0, <1>5 DEF ClaimNext, Claimable, Prepare, WriteFails
<1>6. ASSUME NEW r \in Runners, MarkSent(r) PROVE Message!Settle \/ UNCHANGED Message!dvars
  <2>1. provider.taken >= 1 /\ provider.taken \in Nat
    BY <1>6 DEF MarkSent, Inv, Budget, TypeOK
  <2> QED
    BY <1>0, <1>6, <2>1 DEF MarkSent, MayMarkSent, Settled, Message!Settle
<1>7. ASSUME NEW r \in Runners, ScheduleRetry(r) \/ MarkFailed(r)
      PROVE  Message!Settle \/ UNCHANGED Message!dvars
  BY <1>0, <1>7 DEF ScheduleRetry, MarkFailed, OwnedBy, Settled, Message!Settle
<1>8. ASSUME NEW r \in Runners, Send(r) PROVE Message!Send
  BY <1>8, SendMaps
<1> QED
  BY <1>1, <1>2, <1>3, <1>4, <1>5, <1>6, <1>7, <1>8 DEF Next, WorkerStep, RunnerStep, Team

\* The row and its workers implement one message that is handed over at most as often
\* as it may be claimed, and is sent only if the provider took it.
THEOREM DeliversWithinAttempts == Spec => ImplementsDelivery
<1>1. Init => Message!Init
  BY DEF Init, Message!Init, MessageState
<1> QED
  BY <1>1, StepMaps, Invariance, PTL DEF Spec, ImplementsDelivery, Message!Spec
=============================================================================
