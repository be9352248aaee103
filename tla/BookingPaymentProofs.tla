------------------------ MODULE BookingPaymentProofs ------------------------
(***************************************************************************)
(* Proofs about BookingPayment: its types, that a charge is settled one    *)
(* way, that the documents never say more than Stripe did, that an attempt *)
(* is completed just when its booking is committed, and that the whole     *)
(* implements Settlement, for any requests, deliveries and faults.         *)
(***************************************************************************)
EXTENDS BookingPayment, TLAPS

\* The steps of PaymentService.refund: whoever is at one works on a given-up charge.
Refunding == {"refund", "rretrieve", "rlookup", "rsource", "rfail", "rcall", "rrecord",
              "rsync", "rledger", "rreconcile"}

GivenUp == attempt.comp # "NOT_REQUIRED"

\* What the documents say of each other and of Stripe.  The charge is given up in the
\* write that makes its persistence FAILED, and a booking commits with COMPLETED, so one
\* field says which way the charge has gone.
Documents ==
    /\ ~attempt.exists => attempt = NoAttempt
    /\ attempt.persist # "NOT_STARTED" => attempt.provider = "SUCCEEDED"
    /\ GivenUp <=> attempt.persist = "FAILED"
    /\ booking <=> attempt.persist = "COMPLETED"
    /\ op.status # "NONE" => GivenUp

Stripes ==
    /\ stripe.pi # "none" => attempt.exists
    /\ stripe.pi = "none" <=> stripe.first = "none"
    /\ stripe.first # "canceled"
    /\ stripe.first = "succeeded" => stripe.pi = "succeeded"
    /\ stripe.refund # "none" => GivenUp
    /\ stripe.refund = "none" <=> stripe.firstRefund = "none"
    /\ stripe.firstRefund = "succeeded" => stripe.refund = "succeeded"

\* What a process that is at step x.at with x.got read may still rely on, however long
\* ago it read it.
Carried(x) ==
    /\ x.at \notin {"idle", "terms", "charge"} => attempt.exists
    /\ x.at \in {"record", "note"} =>
         /\ x.got = "succeeded" => stripe.pi = "succeeded"
         /\ x.got = "canceled" => stripe.pi = "canceled"
    /\ x.at \in Refunding => GivenUp
    /\ x.at = "rrecord" /\ x.got = "succeeded" => stripe.refund = "succeeded"
    /\ x.at = "rsync" /\ x.got = "SUCCEEDED" => stripe.refund = "succeeded"

Inv == /\ TypeOK /\ Documents /\ Stripes /\ ProviderTruth
       /\ \A p \in Procs : Carried(proc[p])

-----------------------------------------------------------------------------
Value == Intent \cup Refund \cup ProviderStatus \cup OperationStatus

AttemptType == [exists : BOOLEAN, provider : ProviderStatus, pi : BOOLEAN,
                closed : BOOLEAN, persist : PersistenceStatus,
                owner : Procs \cup {Nobody}, live : BOOLEAN, comp : CompensationStatus]
OpType == [status : OperationStatus, refundId : BOOLEAN, needed : BOOLEAN]
StripeType == [pi : Intent, first : Intent, refund : Refund, firstRefund : Refund]

\* What a step may take from nobody who relies on it.
Kept == /\ attempt.exists => attempt'.exists
        /\ stripe.pi \in {"succeeded", "canceled"} => stripe'.pi = stripe.pi
        /\ attempt.comp # "NOT_REQUIRED" => attempt'.comp # "NOT_REQUIRED"
        /\ stripe.refund = "succeeded" => stripe'.refund = "succeeded"

\* A step of p that keeps what the others carry, and leaves the documents right.
LEMMA StepInv ==
    ASSUME Inv, NEW p \in Procs, NEW s \in Step, NEW v \in Value, Goto(p, s, v),
           claim' \in BOOLEAN, booking' \in BOOLEAN, faults' \in 0..MaxFaults,
           attempt' \in AttemptType, op' \in OpType, stripe' \in StripeType,
           Documents', Stripes', ProviderTruth', Kept, Carried([at |-> s, got |-> v])'
    PROVE  Inv'
<1>1. proc' \in [Procs -> [at : Step, got : Value]]
  BY DEF Inv, TypeOK, Goto, Value
<1>2. TypeOK'
  BY <1>1 DEF TypeOK, Value, AttemptType, OpType, StripeType
<1>3. ASSUME NEW q \in Procs PROVE Carried(proc[q])'
  <2>1. CASE q = p
    <3>1. proc'[q] = [at |-> s, got |-> v]
      BY <2>1 DEF Goto, Inv, TypeOK
    <3> QED
      BY <3>1 DEF Carried, GivenUp
  <2>2. CASE q # p
    <3>1. proc'[q] = proc[q] /\ Carried(proc[q])
      BY <2>2 DEF Goto, Inv, TypeOK
    <3> QED
      BY <3>1 DEF Carried, GivenUp, Kept
  <2> QED
    BY <2>1, <2>2
<1> QED
  BY <1>2, <1>3 DEF Inv

\* A step of p that writes nothing but its place and the claim.
LEMMA ReadInv ==
    ASSUME Inv, NEW p \in Procs, NEW s \in Step, NEW v \in Value, Goto(p, s, v),
           claim' \in BOOLEAN, faults' \in 0..MaxFaults,
           UNCHANGED <<attempt, booking, op, stripe>>, Carried([at |-> s, got |-> v])
    PROVE  Inv'
<1>1. /\ booking' \in BOOLEAN /\ attempt' \in AttemptType
      /\ op' \in OpType /\ stripe' \in StripeType
  BY DEF Inv, TypeOK, AttemptType, OpType, StripeType
<1>2. Documents' /\ Stripes' /\ ProviderTruth'
  BY DEF Inv, Documents, Stripes, ProviderTruth, GivenUp, NoAttempt, NewAttempt
<1>3. Carried([at |-> s, got |-> v])'
  BY DEF Carried, GivenUp
<1>4. Kept
  BY DEF Kept
<1> QED
  BY <1>1, <1>2, <1>3, <1>4, StepInv

\* A step of p that writes the attempt, and perhaps the booking.
LEMMA AttemptInv ==
    ASSUME Inv, NEW p \in Procs, NEW s \in Step, NEW v \in Value, Goto(p, s, v),
           UNCHANGED <<claim, op, stripe, faults>>, booking' \in BOOLEAN,
           attempt' \in AttemptType, Documents', ProviderTruth', Kept,
           Carried([at |-> s, got |-> v])'
    PROVE  Inv'
<1>1. claim' \in BOOLEAN /\ faults' \in 0..MaxFaults /\ op' \in OpType /\ stripe' \in StripeType
  BY DEF Inv, TypeOK, OpType, StripeType
<1>2. Stripes'
  BY DEF Inv, Stripes, GivenUp, Kept
<1> QED
  BY <1>1, <1>2, StepInv

\* A step of p that writes the refund operation of a charge that is given up.
LEMMA OperationInv ==
    ASSUME Inv, NEW p \in Procs, NEW s \in Step, NEW v \in Value, Goto(p, s, v),
           UNCHANGED <<claim, attempt, booking, stripe, faults>>, op' \in OpType,
           GivenUp, op'.status = "SUCCEEDED" => stripe.refund = "succeeded",
           Carried([at |-> s, got |-> v])
    PROVE  Inv'
<1>1. /\ claim' \in BOOLEAN /\ booking' \in BOOLEAN /\ faults' \in 0..MaxFaults
      /\ attempt' \in AttemptType /\ stripe' \in StripeType
  BY DEF Inv, TypeOK, AttemptType, StripeType
<1>2. Documents' /\ Stripes' /\ ProviderTruth'
  BY DEF Inv, Documents, Stripes, ProviderTruth, GivenUp, NoAttempt, NewAttempt
<1>3. Carried([at |-> s, got |-> v])'
  BY DEF Carried, GivenUp
<1>4. Kept
  BY DEF Kept
<1> QED
  BY <1>1, <1>2, <1>3, <1>4, StepInv

LEMMA InitInv == Init => Inv
<1> SUFFICES ASSUME Init PROVE Inv
  OBVIOUS
<1>1. TypeOK
  <2>1. attempt \in AttemptType /\ op \in OpType /\ stripe \in StripeType
    BY DEF Init, AttemptType, OpType, StripeType, NoAttempt, NewAttempt, ProviderStatus,
           PersistenceStatus, CompensationStatus, OperationStatus, Intent, Refund
  <2>2. proc \in [Procs -> [at : Step, got : Value]]
    BY DEF Init, Step, Value, Intent
  <2>3. claim \in BOOLEAN /\ booking \in BOOLEAN
    BY DEF Init
  <2>4. faults \in 0..MaxFaults
    BY ProcsAssumption DEF Init
  <2> QED
    BY <2>1, <2>2, <2>3, <2>4 DEF TypeOK, AttemptType, OpType, StripeType, Value
<1>2. Documents /\ Stripes /\ ProviderTruth
  BY DEF Init, Documents, Stripes, ProviderTruth, GivenUp, NoAttempt, NewAttempt
<1>3. \A p \in Procs : Carried(proc[p])
  BY DEF Init, Carried, Refunding
<1> QED
  BY <1>1, <1>2, <1>3 DEF Inv

\* One call more that failed is still within the bound.
LEMMA FaultType == ASSUME Inv, Fault PROVE faults' \in 0..MaxFaults
BY ProcsAssumption DEF Inv, TypeOK, Fault

-----------------------------------------------------------------------------
(* The checkout request *)

LEMMA FinalizeInv == ASSUME Inv, NEW p \in Requests, Finalize(p) PROVE Inv'
<1>1. PICK s \in {"terms", "charge"} : Goto(p, s, "none")
  BY DEF Finalize
<1>2. p \in Procs /\ s \in Step /\ "none" \in Value
  BY DEF Procs, Step, Value, Intent
<1>3. claim' \in BOOLEAN /\ faults' \in 0..MaxFaults /\ UNCHANGED <<attempt, booking, op, stripe>>
  BY DEF Finalize, Inv, TypeOK
<1>4. Carried([at |-> s, got |-> "none"])
  BY DEF Carried, Refunding
<1> QED
  BY <1>1, <1>2, <1>3, <1>4, ReadInv

LEMMA TermsInv == ASSUME Inv, NEW p \in Requests, Terms(p) PROVE Inv'
<1>1. PICK s \in {"idle", "charge"} : Goto(p, s, "none")
  BY DEF Terms, Return
<1>2. p \in Procs /\ s \in Step /\ "none" \in Value
  BY DEF Procs, Step, Value, Intent
<1>3. claim' \in BOOLEAN /\ faults' \in 0..MaxFaults /\ UNCHANGED <<attempt, booking, op, stripe>>
  BY DEF Terms, Inv, TypeOK
<1>4. Carried([at |-> s, got |-> "none"])
  BY DEF Carried, Refunding
<1> QED
  BY <1>1, <1>2, <1>3, <1>4, ReadInv

LEMMA CreateOrResumeInv == ASSUME Inv, NEW p \in Requests, CreateOrResume(p) PROVE Inv'
<1>0. p \in Procs /\ {"idle", "retrieve", "search", "create"} \subseteq Step
      /\ "none" \in Value /\ attempt.provider \in Value
      /\ claim' \in BOOLEAN /\ faults' \in 0..MaxFaults /\ UNCHANGED <<booking, op, stripe>>
  BY DEF Procs, Step, Value, Intent, CreateOrResume, Inv, TypeOK
<1>1. CASE UNCHANGED attempt /\ Return(p)
  <2>1. Carried([at |-> "idle", got |-> "none"])
    BY DEF Carried, Refunding
  <2> QED
    BY <1>0, <1>1, <2>1, ReadInv DEF Return
<1>2. CASE UNCHANGED attempt /\ attempt.exists /\ Goto(p, "retrieve", "none")
  <2>1. Carried([at |-> "retrieve", got |-> "none"])
    BY <1>2 DEF Carried, Refunding
  <2> QED
    BY <1>0, <1>2, <2>1, ReadInv
<1>3. CASE UNCHANGED attempt /\ attempt.exists /\ Goto(p, "search", attempt.provider)
  <2>1. Carried([at |-> "search", got |-> attempt.provider])
    BY <1>3 DEF Carried, Refunding
  <2> QED
    BY <1>0, <1>3, <2>1, ReadInv
<1>4. CASE ~attempt.exists /\ attempt' = NewAttempt /\ Goto(p, "create", "none")
  <2>1. attempt' \in AttemptType
    BY <1>4 DEF AttemptType, NewAttempt, ProviderStatus, PersistenceStatus, CompensationStatus
  <2>2. Documents' /\ ProviderTruth' /\ Kept
    BY <1>0, <1>4 DEF Inv, Documents, ProviderTruth, Kept, GivenUp, NoAttempt, NewAttempt
  <2>3. Carried([at |-> "create", got |-> "none"])'
    BY <1>4 DEF Carried, Refunding, NewAttempt
  <2>4. claim' = claim /\ faults' = faults /\ booking' \in BOOLEAN
    BY DEF CreateOrResume, Inv, TypeOK
  <2> QED
    BY <1>0, <1>4, <2>1, <2>2, <2>3, <2>4, AttemptInv
<1> QED
  BY <1>1, <1>2, <1>3, <1>4 DEF CreateOrResume
LEMMA RetrieveInv == ASSUME Inv, NEW p \in Procs, Retrieve(p) PROVE Inv'
<1>1. /\ "record" \in Step /\ stripe.pi \in Value
      /\ claim' \in BOOLEAN /\ faults' \in 0..MaxFaults /\ UNCHANGED <<attempt, booking, op, stripe>>
  BY DEF Step, Value, Retrieve, Inv, TypeOK
<1>2. Carried([at |-> "record", got |-> stripe.pi])
  BY DEF Retrieve, At, Inv, Carried, Refunding
<1> QED
  BY <1>1, <1>2, ReadInv DEF Retrieve

\* A process that creates or searches works on an attempt that exists.
LEMMA SearchInv == ASSUME Inv, NEW p \in Procs, Search(p) PROVE Inv'
<1>0. /\ {"idle", "create", "refunds", "record"} \subseteq Step
      /\ stripe.pi \in Value /\ "none" \in Value
      /\ claim' \in BOOLEAN /\ UNCHANGED <<attempt, booking, op, stripe>>
  BY DEF Step, Value, Intent, Search, Inv, TypeOK
<1>1. faults' \in 0..MaxFaults
  BY FaultType DEF Search, Inv, TypeOK
<1>2. attempt.exists
  BY DEF Search, At, Inv, Carried
<1>3. CASE Goto(p, "record", stripe.pi)
  <2>1. Carried([at |-> "record", got |-> stripe.pi])
    BY <1>2 DEF Carried, Refunding
  <2> QED
    BY <1>0, <1>1, <1>3, <2>1, ReadInv
<1>4. ASSUME NEW s \in {"idle", "create", "refunds"}, Goto(p, s, "none") PROVE Inv'
  <2>1. Carried([at |-> s, got |-> "none"])
    BY <1>2 DEF Carried, Refunding
  <2> QED
    BY <1>0, <1>1, <1>4, <2>1, ReadInv
<1> QED
  BY <1>3, <1>4 DEF Search, Return

\* What Stripe holds after a call to create the PaymentIntent, or one that was lost.
LEMMA ConfirmedIs ==
    ASSUME NEW t \in Confirmed \cup {stripe}
    PROVE  \/ t = stripe
           \/ /\ stripe.pi = "none"
              /\ \E i \in {"requires_action", "processing", "failed", "succeeded"} :
                    t = [stripe EXCEPT !.pi = i, !.first = i]
<1>1. CASE stripe.pi = "none"
  BY <1>1 DEF Confirmed
<1>2. CASE stripe.pi # "none"
  BY <1>2 DEF Confirmed
<1> QED
  BY <1>1, <1>2

\* An answer of Stripe's, or a call whose answer was lost.
LEMMA CreateIntentInv == ASSUME Inv, NEW p \in Requests, CreateIntent(p) PROVE Inv'
<1>0. /\ p \in Procs /\ attempt.exists /\ {"record", "unknown"} \subseteq Step /\ "none" \in Value
      /\ claim' \in BOOLEAN /\ booking' \in BOOLEAN /\ attempt' \in AttemptType /\ op' \in OpType
      /\ UNCHANGED <<claim, attempt, booking, op>>
  BY DEF Procs, Step, Value, Intent, CreateIntent, At, Inv, Carried, TypeOK, AttemptType, OpType
<1>1. faults' \in 0..MaxFaults
  BY FaultType DEF CreateIntent, Inv, TypeOK
<1>2. ASSUME NEW t \in Confirmed \cup {stripe}, stripe' = t
      PROVE  /\ stripe' \in StripeType /\ Documents' /\ Stripes' /\ ProviderTruth' /\ Kept
             /\ t \in Confirmed => stripe'.first # "none"
  <2>0. \/ stripe' = stripe
        \/ /\ stripe.pi = "none"
           /\ \E i \in {"requires_action", "processing", "failed", "succeeded"} :
                 stripe' = [stripe EXCEPT !.pi = i, !.first = i]
    BY <1>2, ConfirmedIs
  <2>1. stripe' \in StripeType
    BY <2>0 DEF Inv, TypeOK, StripeType, Intent
  <2>2. stripe' = stripe \/ (stripe.pi = "none" /\ stripe'.refund = stripe.refund
           /\ stripe'.firstRefund = stripe.firstRefund /\ stripe'.pi = stripe'.first
           /\ stripe'.pi \in {"requires_action", "processing", "failed", "succeeded"})
    BY <2>0 DEF Inv, TypeOK
  <2>3. Documents'
    BY <1>0 DEF Inv, Documents, GivenUp, NoAttempt, NewAttempt
  <2>4. Stripes'
    BY <1>0, <2>2 DEF Inv, Stripes, GivenUp
  <2>5. ProviderTruth' /\ Kept
    BY <1>0, <2>2 DEF Inv, ProviderTruth, Kept
  <2>6. t \in Confirmed => stripe'.first # "none"
    BY <1>2 DEF Confirmed, Inv, TypeOK, Stripes
  <2> QED
    BY <2>1, <2>3, <2>4, <2>5, <2>6
<1>3. ASSUME NEW t \in Confirmed, stripe' = t, Goto(p, "record", t.first) PROVE Inv'
  <2>1. stripe' \in StripeType /\ Documents' /\ Stripes' /\ ProviderTruth' /\ Kept
    BY <1>2, <1>3
  <2>2. t.first \in Value
    BY <1>3, <2>1 DEF StripeType, Value
  <2>3. Carried([at |-> "record", got |-> t.first])'
    BY <1>0, <1>3, <2>1 DEF Carried, Refunding, Stripes
  <2> QED
    BY <1>0, <1>1, <1>3, <2>1, <2>2, <2>3, StepInv
<1>4. CASE stripe' \in Confirmed \cup {stripe} /\ Goto(p, "unknown", "none")
  <2>1. stripe' \in StripeType /\ Documents' /\ Stripes' /\ ProviderTruth' /\ Kept
    BY <1>2, <1>4
  <2>2. Carried([at |-> "unknown", got |-> "none"])'
    BY <1>0 DEF Carried, Refunding
  <2> QED
    BY <1>0, <1>1, <1>4, <2>1, <2>2, StepInv
<1> QED
  BY <1>3, <1>4 DEF CreateIntent

LEMMA MarkUnknownInv == ASSUME Inv, NEW p \in Requests, MarkUnknown(p) PROVE Inv'
<1>1. /\ p \in Procs /\ attempt.exists /\ "idle" \in Step /\ "none" \in Value /\ booking' \in BOOLEAN
  BY DEF Procs, Step, Value, Intent, MarkUnknown, At, Inv, Carried, TypeOK
<1>2. attempt' \in AttemptType
  BY DEF MarkUnknown, Inv, TypeOK, AttemptType, ProviderStatus
<1>3. Documents' /\ ProviderTruth' /\ Kept
  BY <1>1 DEF MarkUnknown, Inv, TypeOK, Documents, ProviderTruth, Kept, GivenUp
<1>4. Carried([at |-> "idle", got |-> "none"])'
  BY DEF Carried, Refunding
<1> QED
  BY <1>1, <1>2, <1>3, <1>4, AttemptInv DEF MarkUnknown, Return

\* A result that is recorded is one that Stripe gave, and a success or cancellation it
\* gave for good: the documents stay right whatever was recorded meanwhile.
LEMMA RecordedRight ==
    ASSUME Inv, attempt.exists, NEW i \in Value, UNCHANGED <<booking, op, stripe>>,
           i = "succeeded" => stripe.pi = "succeeded",
           i = "canceled" => stripe.pi = "canceled",
           attempt' = Recorded(StatusOf(i))
    PROVE  attempt' \in AttemptType /\ Documents' /\ ProviderTruth' /\ Kept
<1>1. StatusOf(i) \in {"SUCCEEDED", "REQUIRES_ACTION", "PROCESSING", "CANCELED", "FAILED"}
      /\ (StatusOf(i) = "SUCCEEDED" <=> i = "succeeded")
      /\ (StatusOf(i) = "CANCELED" <=> i = "canceled")
  BY DEF StatusOf
<1>2. CASE attempt' = attempt
  BY <1>2 DEF Inv, TypeOK, AttemptType, Documents, ProviderTruth, Kept, GivenUp, NoAttempt, NewAttempt
<1>3. CASE /\ attempt.provider \in AllowedPrevious(StatusOf(i))
           /\ attempt' = [attempt EXCEPT !.provider = StatusOf(i), !.pi = TRUE]
  <2>1. attempt' \in AttemptType
    BY <1>1, <1>3 DEF Inv, TypeOK, AttemptType, ProviderStatus
  <2>2. attempt.provider = "SUCCEEDED" => attempt'.provider = "SUCCEEDED"
    BY <1>1, <1>3 DEF Inv, TypeOK, AllowedPrevious, ProviderStatus
  <2>3. Documents'
    BY <1>3, <2>2 DEF Inv, TypeOK, Documents, GivenUp
  <2>4. ProviderTruth' /\ Kept
    BY <1>1, <1>3 DEF Inv, TypeOK, ProviderTruth, Kept
  <2> QED
    BY <2>1, <2>3, <2>4
<1> QED
  BY <1>2, <1>3 DEF Recorded

LEMMA RecordInv == ASSUME Inv, NEW p \in Procs, Record(p) PROVE Inv'
<1>0. /\ {"idle", "orphan", "claim", "refunds", "cancel"} \subseteq Step /\ "none" \in Value
      /\ Got(p) \in Value /\ attempt.exists /\ booking' \in BOOLEAN
      /\ UNCHANGED <<claim, booking, op, stripe, faults>>
  BY DEF Step, Value, Intent, Record, At, Got, Inv, Carried, TypeOK
<1>1. /\ Got(p) = "succeeded" => stripe.pi = "succeeded"
      /\ Got(p) = "canceled" => stripe.pi = "canceled"
  BY DEF Record, At, Got, Inv, Carried
<1>2. attempt' \in AttemptType /\ Documents' /\ ProviderTruth' /\ Kept
  BY <1>0, <1>1, RecordedRight DEF Record
<1>3. PICK s \in {"idle", "orphan", "claim", "refunds", "cancel"} : Goto(p, s, "none")
  BY DEF Record, Return
<1>4. Carried([at |-> s, got |-> "none"])'
  BY <1>0, <1>2 DEF Carried, Refunding, Kept
<1> QED
  BY <1>0, <1>2, <1>3, <1>4, AttemptInv

LEMMA NoteInv == ASSUME Inv, NEW p \in Procs, Note(p) PROVE Inv'
<1>0. /\ "idle" \in Step /\ "none" \in Value
      /\ Got(p) \in Value /\ attempt.exists /\ booking' \in BOOLEAN
      /\ UNCHANGED <<claim, booking, op, stripe, faults>>
  BY DEF Step, Value, Intent, Note, At, Got, Inv, Carried, TypeOK
<1>1. /\ Got(p) = "succeeded" => stripe.pi = "succeeded"
      /\ Got(p) = "canceled" => stripe.pi = "canceled"
  BY DEF Note, At, Got, Inv, Carried
<1>2. attempt' \in AttemptType /\ Documents' /\ ProviderTruth' /\ Kept
  BY <1>0, <1>1, RecordedRight DEF Note
<1>3. Carried([at |-> "idle", got |-> "none"])'
  BY DEF Carried, Refunding
<1> QED
  BY <1>0, <1>2, <1>3, AttemptInv DEF Note, Return
LEMMA ClaimPersistenceInv == ASSUME Inv, NEW p \in Requests, ClaimPersistence(p) PROVE Inv'
<1>0. /\ p \in Procs /\ attempt.exists /\ {"idle", "persist"} \subseteq Step /\ "none" \in Value
      /\ booking' \in BOOLEAN /\ UNCHANGED <<claim, booking, op, stripe, faults>>
  BY DEF Procs, Step, Value, Intent, ClaimPersistence, At, Inv, Carried, TypeOK
<1>1. CASE MayClaimPersistence /\ attempt' = Leased(p, "PERSISTING", "NOT_REQUIRED")
           /\ Goto(p, "persist", "none")
  <2>1. attempt' \in AttemptType
    BY <1>0, <1>1 DEF Leased, Inv, TypeOK, AttemptType, PersistenceStatus, CompensationStatus
  <2>2. Documents' /\ ProviderTruth' /\ Kept
    BY <1>0, <1>1 DEF MayClaimPersistence, Unclaimed, Leased, Inv, TypeOK, Documents, ProviderTruth,
                      Kept, GivenUp
  <2>3. Carried([at |-> "persist", got |-> "none"])'
    BY <1>0, <2>2 DEF Carried, Refunding, Kept
  <2> QED
    BY <1>0, <1>1, <2>1, <2>2, <2>3, AttemptInv
<1>2. CASE UNCHANGED attempt /\ Return(p)
  <2>1. Carried([at |-> "idle", got |-> "none"]) /\ claim' \in BOOLEAN /\ faults' \in 0..MaxFaults
    BY <1>0 DEF Carried, Refunding, Inv, TypeOK
  <2> QED
    BY <1>0, <1>2, <2>1, ReadInv DEF Return
<1> QED
  BY <1>1, <1>2 DEF ClaimPersistence

LEMMA PersistInv == ASSUME Inv, NEW p \in Requests, Persist(p) PROVE Inv'
<1>0. /\ p \in Procs /\ attempt.exists /\ {"idle", "compensation"} \subseteq Step /\ "none" \in Value
      /\ UNCHANGED <<claim, op, stripe, faults>>
  BY DEF Procs, Step, Value, Intent, Persist, At, Inv, Carried, TypeOK
<1>1. CASE OwnsPersistence(p) /\ booking' = TRUE /\ attempt' = Completed /\ Return(p)
  <2>1. attempt' \in AttemptType /\ booking' \in BOOLEAN
    BY <1>1 DEF Completed, Inv, TypeOK, AttemptType, PersistenceStatus
  <2>2. Documents' /\ ProviderTruth' /\ Kept
    BY <1>0, <1>1 DEF OwnsPersistence, Completed, Inv, TypeOK, Documents, ProviderTruth, Kept, GivenUp
  <2>3. Carried([at |-> "idle", got |-> "none"])'
    BY DEF Carried, Refunding
  <2> QED
    BY <1>0, <1>1, <2>1, <2>2, <2>3, AttemptInv DEF Return
<1>2. CASE UNCHANGED <<attempt, booking>> /\ Goto(p, "compensation", "none")
  <2>1. Carried([at |-> "compensation", got |-> "none"]) /\ claim' \in BOOLEAN
        /\ faults' \in 0..MaxFaults
    BY <1>0 DEF Carried, Refunding, Inv, TypeOK
  <2> QED
    BY <1>0, <1>2, <2>1, ReadInv
<1> QED
  BY <1>1, <1>2 DEF Persist

LEMMA RequireCompensationInv == ASSUME Inv, NEW p \in Requests, RequireCompensation(p) PROVE Inv'
<1>0. /\ p \in Procs /\ attempt.exists /\ {"idle", "refund"} \subseteq Step /\ "none" \in Value
      /\ booking' \in BOOLEAN /\ UNCHANGED <<claim, booking, op, stripe, faults>>
  BY DEF Procs, Step, Value, Intent, RequireCompensation, At, Inv, Carried, TypeOK
<1>1. CASE /\ OwnsPersistence(p)
           /\ attempt' = [attempt EXCEPT !.persist = "FAILED", !.comp = "REQUIRED",
                                         !.owner = Nobody, !.live = FALSE]
           /\ Goto(p, "refund", "none")
  <2>1. attempt' \in AttemptType
    BY <1>1 DEF Inv, TypeOK, AttemptType, PersistenceStatus, CompensationStatus
  <2>2. Documents' /\ ProviderTruth' /\ Kept
    BY <1>0, <1>1 DEF OwnsPersistence, Inv, TypeOK, Documents, ProviderTruth, Kept, GivenUp
  <2>3. Carried([at |-> "refund", got |-> "none"])'
    BY <1>0, <1>1 DEF Carried, GivenUp, Inv, TypeOK
  <2> QED
    BY <1>0, <1>1, <2>1, <2>2, <2>3, AttemptInv
<1>2. CASE UNCHANGED attempt /\ Return(p)
  <2>1. Carried([at |-> "idle", got |-> "none"]) /\ claim' \in BOOLEAN /\ faults' \in 0..MaxFaults
    BY <1>0 DEF Carried, Refunding, Inv, TypeOK
  <2> QED
    BY <1>0, <1>2, <2>1, ReadInv DEF Return
<1> QED
  BY <1>1, <1>2 DEF RequireCompensation

-----------------------------------------------------------------------------
(* The recovery worker *)

LEMMA WorkerIsProc == Worker \in Procs
BY DEF Procs

LEMMA PickAttemptInv == ASSUME Inv, PickAttempt PROVE Inv'
<1>1. PICK s \in {"retrieve", "search", "refunds"} : Goto(Worker, s, "none")
  BY DEF PickAttempt
<1>2. s \in Step /\ "none" \in Value /\ claim' \in BOOLEAN /\ faults' \in 0..MaxFaults
      /\ UNCHANGED <<attempt, booking, op, stripe>>
  BY DEF Step, Value, Intent, PickAttempt, Inv, TypeOK
<1>3. attempt.exists
  BY DEF PickAttempt, Recoverable, OpRecoverable, Unsettled, Inv, TypeOK, Documents, GivenUp,
         NoAttempt, NewAttempt
<1>4. Carried([at |-> s, got |-> "none"])
  BY <1>3 DEF Carried, Refunding
<1> QED
  BY <1>1, <1>2, <1>4, WorkerIsProc, ReadInv

LEMMA ResolveUnsentInv == ASSUME Inv, ResolveUnsent PROVE Inv'
<1>0. /\ {"close", "note"} \subseteq Step /\ "none" \in Value /\ stripe.pi \in Value
      /\ claim' \in BOOLEAN /\ faults' \in 0..MaxFaults
      /\ attempt.exists /\ UNCHANGED <<attempt, booking, op, stripe>>
  BY DEF Step, Value, Intent, ResolveUnsent, Inv, TypeOK
<1>1. CASE Goto(Worker, "close", "none")
  <2>1. Carried([at |-> "close", got |-> "none"])
    BY <1>0 DEF Carried, Refunding
  <2> QED
    BY <1>0, <1>1, <2>1, WorkerIsProc, ReadInv
<1>2. CASE Goto(Worker, "note", stripe.pi)
  <2>1. Carried([at |-> "note", got |-> stripe.pi])
    BY <1>0 DEF Carried, Refunding
  <2> QED
    BY <1>0, <1>2, <2>1, WorkerIsProc, ReadInv
<1> QED
  BY <1>1, <1>2 DEF ResolveUnsent

LEMMA CloseUnsentInv == ASSUME Inv, CloseUnsent PROVE Inv'
<1>0. /\ "idle" \in Step /\ "none" \in Value /\ attempt.exists
      /\ booking' \in BOOLEAN /\ UNCHANGED <<claim, booking, op, stripe, faults>>
  BY WorkerIsProc DEF Step, Value, Intent, CloseUnsent, At, Inv, Carried, TypeOK
<1>1. attempt' \in AttemptType
  BY DEF CloseUnsent, Inv, TypeOK, AttemptType, ProviderStatus
<1>2. Documents' /\ ProviderTruth' /\ Kept
  BY <1>0 DEF CloseUnsent, Unsent, Inv, TypeOK, Documents, ProviderTruth, Kept, GivenUp
<1>3. Carried([at |-> "idle", got |-> "none"])'
  BY DEF Carried, Refunding
<1> QED
  BY <1>0, <1>1, <1>2, <1>3, WorkerIsProc, AttemptInv DEF CloseUnsent, Return

LEMMA CancelExpiredInv == ASSUME Inv, CancelExpired PROVE Inv'
<1>0. /\ {"note", "retrieve"} \subseteq Step /\ "none" \in Value /\ "canceled" \in Value /\ attempt.exists
      /\ claim' \in BOOLEAN /\ booking' \in BOOLEAN /\ attempt' \in AttemptType /\ op' \in OpType
      /\ faults' \in 0..MaxFaults /\ UNCHANGED <<claim, attempt, booking, op, faults>>
  BY WorkerIsProc DEF Step, Value, Intent, CancelExpired, At, Inv, Carried, TypeOK, AttemptType, OpType
<1>1. CASE /\ stripe.pi \in {"requires_action", "failed"}
           /\ stripe' = [stripe EXCEPT !.pi = "canceled"]
           /\ Goto(Worker, "note", "canceled")
  <2>1. stripe' \in StripeType
    BY <1>1 DEF Inv, TypeOK, StripeType, Intent
  <2>2. Documents' /\ Stripes' /\ ProviderTruth' /\ Kept
    BY <1>0, <1>1 DEF Inv, TypeOK, Documents, Stripes, ProviderTruth, Kept, GivenUp, NoAttempt, NewAttempt
  <2>3. Carried([at |-> "note", got |-> "canceled"])'
    BY <1>0, <1>1 DEF Carried, Refunding, Inv, TypeOK
  <2> QED
    BY <1>0, <1>1, <2>1, <2>2, <2>3, WorkerIsProc, StepInv
<1>2. CASE UNCHANGED stripe /\ Goto(Worker, "retrieve", "none")
  <2>1. Carried([at |-> "retrieve", got |-> "none"])
    BY <1>0 DEF Carried, Refunding
  <2> QED
    BY <1>0, <1>2, <2>1, WorkerIsProc, ReadInv
<1> QED
  BY <1>1, <1>2 DEF CancelExpired
\* An orphan that has a booking is completed already: the claim it would need is over.
LEMMA CheckOrphanInv == ASSUME Inv, CheckOrphan PROVE Inv'
<1>1. PICK s \in {"refunds", "compensate"} : Goto(Worker, s, "none")
  BY DEF CheckOrphan
<1>2. /\ s \in Step /\ "none" \in Value /\ attempt.exists
      /\ claim' \in BOOLEAN /\ faults' \in 0..MaxFaults /\ UNCHANGED <<booking, op, stripe>>
  BY WorkerIsProc DEF Step, Value, Intent, CheckOrphan, At, Inv, Carried, TypeOK
<1>3. attempt' = attempt
  BY DEF CheckOrphan, MayClaimPersistence, Unclaimed, Inv, Documents
<1>4. Carried([at |-> s, got |-> "none"])
  BY <1>2 DEF Carried, Refunding
<1> QED
  BY <1>1, <1>2, <1>3, <1>4, WorkerIsProc, ReadInv

LEMMA ClaimCompensationInv == ASSUME Inv, ClaimCompensation PROVE Inv'
<1>0. /\ attempt.exists /\ {"refunds", "refund"} \subseteq Step /\ "none" \in Value
      /\ booking' \in BOOLEAN /\ UNCHANGED <<claim, booking, op, stripe, faults>>
  BY WorkerIsProc DEF Step, Value, Intent, ClaimCompensation, At, Inv, Carried, TypeOK
<1>1. CASE MayClaimCompensation /\ attempt' = Leased(Worker, "FAILED", "REQUIRED")
           /\ Goto(Worker, "refund", "none")
  <2>1. attempt' \in AttemptType
    BY <1>1, WorkerIsProc DEF Leased, Inv, TypeOK, AttemptType, PersistenceStatus, CompensationStatus
  <2>2. Documents' /\ ProviderTruth' /\ Kept
    BY <1>0, <1>1 DEF MayClaimCompensation, Unclaimed, Leased, Inv, TypeOK, Documents, ProviderTruth,
                      Kept, GivenUp
  <2>3. Carried([at |-> "refund", got |-> "none"])'
    BY <1>0, <1>1 DEF Leased, Carried, GivenUp, Inv, TypeOK
  <2> QED
    BY <1>0, <1>1, <2>1, <2>2, <2>3, WorkerIsProc, AttemptInv
<1>2. CASE UNCHANGED attempt /\ Goto(Worker, "refunds", "none")
  <2>1. Carried([at |-> "refunds", got |-> "none"]) /\ claim' \in BOOLEAN /\ faults' \in 0..MaxFaults
    BY <1>0 DEF Carried, Refunding, Inv, TypeOK
  <2> QED
    BY <1>0, <1>2, <2>1, WorkerIsProc, ReadInv
<1> QED
  BY <1>1, <1>2 DEF ClaimCompensation

LEMMA PickRefundInv == ASSUME Inv, PickRefund PROVE Inv'
<1>0. /\ attempt.exists /\ {"idle", "refund"} \subseteq Step /\ "none" \in Value
      /\ claim' \in BOOLEAN /\ faults' \in 0..MaxFaults /\ UNCHANGED <<attempt, booking, op, stripe>>
  BY WorkerIsProc DEF Step, Value, Intent, PickRefund, At, Inv, Carried, TypeOK
<1>1. CASE OpRecoverable /\ Goto(Worker, "refund", "none")
  <2>1. GivenUp
    BY <1>1 DEF OpRecoverable, Unsettled, Inv, Documents
  <2>2. Carried([at |-> "refund", got |-> "none"])
    BY <1>0, <2>1 DEF Carried
  <2> QED
    BY <1>0, <1>1, <2>2, WorkerIsProc, ReadInv
<1>2. CASE Return(Worker)
  <2>1. Carried([at |-> "idle", got |-> "none"])
    BY DEF Carried, Refunding
  <2> QED
    BY <1>0, <1>2, <2>1, WorkerIsProc, ReadInv DEF Return
<1> QED
  BY <1>1, <1>2 DEF PickRefund

-----------------------------------------------------------------------------
(* PaymentService.refund *)

\* Every process in the middle of a refund works for a charge that is given up.
LEMMA RefundingGivenUp ==
    ASSUME Inv, NEW p \in Procs, proc[p].at \in Refunding
    PROVE  GivenUp /\ attempt.exists
BY DEF Inv, Carried, Refunding

LEMMA OpenRefundInv == ASSUME Inv, NEW p \in Procs, OpenRefund(p) PROVE Inv'
<1>0. /\ {"rsource", "rretrieve", "rlookup"} \subseteq Step /\ "none" \in Value /\ op.status \in Value
      /\ claim' \in BOOLEAN /\ faults' \in 0..MaxFaults
      /\ UNCHANGED <<claim, attempt, booking, stripe, faults>>
  BY DEF Step, Value, Intent, OpenRefund, Inv, TypeOK
<1>1. GivenUp /\ attempt.exists
  BY RefundingGivenUp DEF OpenRefund, At, Refunding
<1>2. CASE op' = [op EXCEPT !.status = "CREATED"] /\ Goto(p, "rsource", "none")
  <2>1. op' \in OpType /\ op'.status # "SUCCEEDED"
    BY <1>2 DEF Inv, TypeOK, OpType, OperationStatus
  <2>2. Carried([at |-> "rsource", got |-> "none"])
    BY <1>1 DEF Carried
  <2> QED
    BY <1>0, <1>1, <1>2, <2>1, <2>2, OperationInv
<1>3. CASE UNCHANGED op /\ Goto(p, "rretrieve", "none")
  <2>1. Carried([at |-> "rretrieve", got |-> "none"])
    BY <1>1 DEF Carried
  <2> QED
    BY <1>0, <1>3, <2>1, ReadInv
<1>4. CASE UNCHANGED op /\ Goto(p, "rlookup", op.status)
  <2>1. Carried([at |-> "rlookup", got |-> op.status])
    BY <1>1 DEF Carried
  <2> QED
    BY <1>0, <1>4, <2>1, ReadInv
<1> QED
  BY <1>2, <1>3, <1>4 DEF OpenRefund

\* The refund as Stripe has it, or where to go for want of one.
LEMMA LookInv ==
    ASSUME Inv, NEW p \in Procs, RetrieveRefund(p) \/ LookupRefund(p) \/ CheckSource(p)
    PROVE  Inv'
<1>0. /\ {"idle", "rrecord", "rsource", "rfail", "rcall"} \subseteq Step
      /\ "none" \in Value /\ stripe.refund \in Value
      /\ claim' \in BOOLEAN /\ faults' \in 0..MaxFaults /\ UNCHANGED <<attempt, booking, op, stripe>>
  BY DEF Step, Value, Intent, RetrieveRefund, LookupRefund, CheckSource, Inv, TypeOK
<1>1. GivenUp /\ attempt.exists
  BY RefundingGivenUp DEF RetrieveRefund, LookupRefund, CheckSource, At, Refunding
<1>2. CASE Goto(p, "rrecord", stripe.refund)
  <2>1. Carried([at |-> "rrecord", got |-> stripe.refund])
    BY <1>1 DEF Carried
  <2> QED
    BY <1>0, <1>2, <2>1, ReadInv
<1>3. ASSUME NEW s \in {"idle", "rsource", "rfail", "rcall"}, Goto(p, s, "none") PROVE Inv'
  <2>1. Carried([at |-> s, got |-> "none"])
    BY <1>1 DEF Carried
  <2> QED
    BY <1>0, <1>3, <2>1, ReadInv
<1> QED
  BY <1>2, <1>3 DEF RetrieveRefund, LookupRefund, CheckSource, Return

LEMMA FailRefundInv == ASSUME Inv, NEW p \in Procs, FailRefund(p) PROVE Inv'
<1>0. /\ "idle" \in Step /\ "none" \in Value /\ UNCHANGED <<claim, attempt, booking, stripe, faults>>
  BY DEF Step, Value, Intent, FailRefund
<1>1. GivenUp /\ attempt.exists
  BY RefundingGivenUp DEF FailRefund, At, Refunding
<1>2. op' \in OpType /\ (op'.status = "SUCCEEDED" => stripe.refund = "succeeded")
  BY DEF FailRefund, Inv, TypeOK, OpType, OperationStatus, ProviderTruth
<1>3. Carried([at |-> "idle", got |-> "none"])
  BY DEF Carried, Refunding
<1> QED
  BY <1>0, <1>1, <1>2, <1>3, OperationInv DEF FailRefund, Return

\* What Stripe holds after a call to create the refund, or one that was lost.
LEMMA RefundedIs ==
    ASSUME NEW t \in Refunded \cup {stripe}
    PROVE  \/ t = stripe
           \/ /\ stripe.refund = "none"
              /\ \E r \in {"pending", "succeeded", "failed"} :
                    t = [stripe EXCEPT !.refund = r, !.firstRefund = r]
<1>1. CASE stripe.refund = "none"
  BY <1>1 DEF Refunded
<1>2. CASE stripe.refund # "none"
  BY <1>2 DEF Refunded
<1> QED
  BY <1>1, <1>2

LEMMA CreateRefundInv == ASSUME Inv, NEW p \in Procs, CreateRefund(p) PROVE Inv'
<1>0. /\ {"rrecord", "rreconcile"} \subseteq Step /\ "none" \in Value
      /\ claim' \in BOOLEAN /\ booking' \in BOOLEAN /\ attempt' \in AttemptType /\ op' \in OpType
      /\ UNCHANGED <<claim, attempt, booking, op>>
  BY DEF Step, Value, Intent, CreateRefund, Inv, TypeOK, AttemptType, OpType
<1>1. faults' \in 0..MaxFaults
  BY FaultType DEF CreateRefund, Inv, TypeOK
<1>2. GivenUp /\ attempt.exists
  BY RefundingGivenUp DEF CreateRefund, At, Refunding
<1>3. ASSUME NEW t \in Refunded \cup {stripe}, stripe' = t
      PROVE  stripe' \in StripeType /\ Documents' /\ Stripes' /\ ProviderTruth' /\ Kept
  <2>0. \/ stripe' = stripe
        \/ /\ stripe.refund = "none"
           /\ \E r \in {"pending", "succeeded", "failed"} :
                 stripe' = [stripe EXCEPT !.refund = r, !.firstRefund = r]
    BY <1>3, RefundedIs
  <2>1. stripe' \in StripeType
    BY <2>0 DEF Inv, TypeOK, StripeType, Refund
  <2>2. \/ stripe' = stripe
        \/ /\ stripe.refund = "none" /\ stripe'.pi = stripe.pi /\ stripe'.first = stripe.first
           /\ stripe'.firstRefund = stripe'.refund /\ stripe'.refund # "none"
    BY <2>0 DEF Inv, TypeOK
  <2>3. Documents'
    BY <1>0 DEF Inv, Documents, GivenUp, NoAttempt, NewAttempt
  <2>4. Stripes'
    BY <1>0, <1>2, <2>2 DEF Inv, Stripes, GivenUp
  <2>5. ProviderTruth' /\ Kept
    BY <1>0, <2>2 DEF Inv, ProviderTruth, Kept
  <2> QED
    BY <2>1, <2>3, <2>4, <2>5
<1>4. ASSUME NEW t \in Refunded, stripe' = t, Goto(p, "rrecord", t.firstRefund) PROVE Inv'
  <2>1. stripe' \in StripeType /\ Documents' /\ Stripes' /\ ProviderTruth' /\ Kept
    BY <1>3, <1>4
  <2>2. t.firstRefund \in Value
    BY <1>4, <2>1 DEF StripeType, Value
  <2>3. Carried([at |-> "rrecord", got |-> t.firstRefund])'
    BY <1>0, <1>2, <1>4, <2>1 DEF Carried, GivenUp, Stripes
  <2> QED
    BY <1>0, <1>1, <1>4, <2>1, <2>2, <2>3, StepInv
<1>5. CASE stripe' \in Refunded \cup {stripe} /\ Goto(p, "rreconcile", "none")
  <2>1. stripe' \in StripeType /\ Documents' /\ Stripes' /\ ProviderTruth' /\ Kept
    BY <1>3, <1>5
  <2>2. Carried([at |-> "rreconcile", got |-> "none"])'
    BY <1>0, <1>2 DEF Carried, GivenUp
  <2> QED
    BY <1>0, <1>1, <1>5, <2>1, <2>2, StepInv
<1> QED
  BY <1>4, <1>5 DEF CreateRefund

\* A success that goes into the operation, or was there, is one that Stripe gave.
LEMMA RecordRefundInv == ASSUME Inv, NEW p \in Procs, RecordRefund(p) PROVE Inv'
<1>0. /\ "rsync" \in Step /\ UNCHANGED <<claim, attempt, booking, stripe, faults>>
  BY DEF Step, RecordRefund
<1>1. GivenUp /\ attempt.exists
  BY RefundingGivenUp DEF RecordRefund, At, Refunding
<1>2. Got(p) = "succeeded" => stripe.refund = "succeeded"
  BY DEF RecordRefund, At, Got, Inv, Carried
<1>3. DEFINE r == OpStatusOf(Got(p))
<1>4. r \in {"SUCCEEDED", "FAILED", "PROVIDER_PENDING"} /\ (r = "SUCCEEDED" <=> Got(p) = "succeeded")
  BY DEF OpStatusOf
<1>5. op' = op \/ op' = [status |-> r, refundId |-> TRUE, needed |-> op.needed \/ r # "FAILED"]
  BY DEF RecordRefund
<1> HIDE DEF r
<1>6. op' \in OpType /\ op'.status \in Value
  <2>1. op \in OpType /\ r \in OperationStatus
    BY <1>4 DEF Inv, TypeOK, OpType, OperationStatus
  <2>2. \A n \in BOOLEAN : [status |-> r, refundId |-> TRUE, needed |-> n] \in OpType
    BY <2>1 DEF OpType
  <2>3. op' \in OpType
    <3>1. CASE op.needed \/ r # "FAILED"
      <4>1. (op.needed \/ r # "FAILED") = TRUE
        BY <3>1, Zenon
      <4> QED
        BY <1>5, <2>1, <2>2, <4>1, Zenon
    <3>2. CASE ~(op.needed \/ r # "FAILED")
      <4>1. (op.needed \/ r # "FAILED") = FALSE
        BY <3>2, Zenon
      <4> QED
        BY <1>5, <2>1, <2>2, <4>1, Zenon
    <3> QED
      BY <3>1, <3>2
  <2> QED
    BY <2>3 DEF OpType, Value
<1>7. op'.status = "SUCCEEDED" => stripe.refund = "succeeded"
  BY <1>2, <1>4, <1>5 DEF Inv, ProviderTruth
<1>8. Goto(p, "rsync", op'.status)
  BY DEF RecordRefund
<1>9. Carried([at |-> "rsync", got |-> op'.status])
  BY <1>1, <1>7 DEF Carried
<1> QED
  BY <1>0, <1>1, <1>6, <1>7, <1>8, <1>9, OperationInv

LEMMA SyncCompensationInv == ASSUME Inv, NEW p \in Procs, SyncCompensation(p) PROVE Inv'
<1>0. /\ {"idle", "rledger"} \subseteq Step /\ "none" \in Value /\ booking' \in BOOLEAN
      /\ UNCHANGED <<claim, booking, op, stripe, faults>>
  BY DEF Step, Value, Intent, SyncCompensation, Inv, TypeOK
<1>1. GivenUp /\ attempt.exists
  BY RefundingGivenUp DEF SyncCompensation, At, Refunding
<1>2. Got(p) = "SUCCEEDED" => stripe.refund = "succeeded"
  BY DEF SyncCompensation, At, Got, Inv, Carried
<1>3. \/ attempt' = attempt
      \/ \E s \in {"REFUNDED", "REFUND_PENDING", "FAILED"} :
            /\ attempt' = [attempt EXCEPT !.comp = s, !.owner = Nobody, !.live = FALSE]
            /\ s = "REFUNDED" => Got(p) = "SUCCEEDED"
  BY DEF SyncCompensation, Synced, Compensated
<1>4. attempt' \in AttemptType
  BY <1>3 DEF Inv, TypeOK, AttemptType, CompensationStatus
<1>5. Documents' /\ ProviderTruth' /\ Kept
  BY <1>0, <1>1, <1>2, <1>3 DEF Inv, TypeOK, Documents, ProviderTruth, Kept, GivenUp,
                                NoAttempt, NewAttempt
<1>6. PICK s \in {"idle", "rledger"} : Goto(p, s, "none")
  BY DEF SyncCompensation, Return
<1>7. Carried([at |-> s, got |-> "none"])'
  <2>1. attempt'.exists /\ GivenUp'
    BY <1>1, <1>5 DEF Kept, GivenUp
  <2> QED
    BY <2>1 DEF Carried, GivenUp
<1> QED
  BY <1>0, <1>4, <1>5, <1>6, <1>7, AttemptInv

LEMMA ReconcileInv ==
    ASSUME Inv, NEW p \in Procs, ReconcileDomain(p) \/ ReconcileRefund(p) PROVE Inv'
<1>0. /\ "idle" \in Step /\ "none" \in Value /\ UNCHANGED <<claim, attempt, booking, stripe, faults>>
      /\ Return(p)
  BY DEF Step, Value, Intent, ReconcileDomain, ReconcileRefund
<1>1. GivenUp /\ attempt.exists
  BY RefundingGivenUp DEF ReconcileDomain, ReconcileRefund, At, Refunding
<1>2. op' \in OpType /\ (op'.status = "SUCCEEDED" => stripe.refund = "succeeded")
  BY DEF ReconcileDomain, ReconcileRefund, Inv, TypeOK, OpType, OperationStatus, ProviderTruth
<1>3. Carried([at |-> "idle", got |-> "none"])
  BY DEF Carried, Refunding
<1> QED
  BY <1>0, <1>1, <1>2, <1>3, OperationInv DEF Return
-----------------------------------------------------------------------------
(* Webhooks, Stripe, time and crashes *)

LEMMA HookIntentInv == ASSUME Inv, NEW p \in Procs, HookIntent(p) PROVE Inv'
<1>1. /\ "note" \in Step /\ stripe.pi \in Value /\ attempt.exists
      /\ claim' \in BOOLEAN /\ faults' \in 0..MaxFaults /\ UNCHANGED <<attempt, booking, op, stripe>>
  BY DEF Step, Value, HookIntent, Inv, TypeOK, Stripes
<1>2. Carried([at |-> "note", got |-> stripe.pi])
  BY <1>1 DEF Carried, Refunding
<1> QED
  BY <1>1, <1>2, ReadInv DEF HookIntent

LEMMA HookRefundInv == ASSUME Inv, NEW p \in Procs, HookRefund(p) PROVE Inv'
<1>1. PICK r \in {stripe.firstRefund} \cup ({stripe.refund} \cap {"succeeded"}) : Goto(p, "rrecord", r)
  BY DEF HookRefund
<1>2. /\ "rrecord" \in Step /\ r \in Value /\ attempt.exists /\ GivenUp
      /\ claim' \in BOOLEAN /\ faults' \in 0..MaxFaults /\ UNCHANGED <<attempt, booking, op, stripe>>
  BY <1>1 DEF Step, Value, HookRefund, Inv, TypeOK, Stripes, Documents, GivenUp, NoAttempt, NewAttempt
<1>3. Carried([at |-> "rrecord", got |-> r])
  BY <1>2 DEF Carried, Inv, Stripes
<1> QED
  BY <1>1, <1>2, <1>3, ReadInv

LEMMA CrashInv == ASSUME Inv, NEW p \in Crashing, Crash(p) PROVE Inv'
<1>1. /\ p \in Procs /\ "idle" \in Step /\ "none" \in Value
      /\ claim' \in BOOLEAN /\ UNCHANGED <<attempt, booking, op, stripe>>
  BY ProcsAssumption DEF Step, Value, Intent, Crash, Inv, TypeOK
<1>2. faults' \in 0..MaxFaults
  BY FaultType DEF Crash
<1>3. Carried([at |-> "idle", got |-> "none"])
  BY DEF Carried, Refunding
<1> QED
  BY <1>1, <1>2, <1>3, ReadInv DEF Crash, Return

\* What happens outside every process takes nothing from any.
LEMMA OutsideInv ==
    ASSUME Inv, LeaseExpires \/ IntentMoves \/ RefundSettles PROVE Inv'
<1>1. UNCHANGED <<claim, booking, op, proc, faults>>
  BY DEF LeaseExpires, IntentMoves, RefundSettles
<1>2. CASE LeaseExpires
  <2>1. attempt' \in AttemptType /\ stripe' = stripe
    BY <1>2 DEF LeaseExpires, Inv, TypeOK, AttemptType
  <2>2. Documents' /\ Stripes' /\ ProviderTruth' /\ Kept
    BY <1>1, <1>2 DEF LeaseExpires, Inv, TypeOK, Documents, Stripes, ProviderTruth, Kept, GivenUp,
                      NoAttempt, NewAttempt
  <2>3. TypeOK'
    BY <1>1, <2>1 DEF Inv, TypeOK, AttemptType
  <2>4. \A p \in Procs : Carried(proc[p])'
    BY <1>1, <2>1, <2>2 DEF Inv, Carried, Kept, GivenUp
  <2> QED
    BY <2>2, <2>3, <2>4 DEF Inv
<1>3. CASE IntentMoves
  <2>1. /\ attempt' = attempt /\ stripe.pi \in {"requires_action", "processing", "failed"}
        /\ \E i \in {"requires_action", "processing", "failed", "succeeded"} :
              stripe' = [stripe EXCEPT !.pi = i]
    BY <1>3 DEF IntentMoves
  <2>2. stripe' \in StripeType
    BY <2>1 DEF Inv, TypeOK, StripeType, Intent
  <2>3. Documents' /\ Stripes' /\ ProviderTruth' /\ Kept
    BY <1>1, <2>1 DEF Inv, TypeOK, Documents, Stripes, ProviderTruth, Kept, GivenUp, NoAttempt, NewAttempt
  <2>4. TypeOK'
    BY <1>1, <2>1, <2>2 DEF Inv, TypeOK, StripeType
  <2>5. \A p \in Procs : Carried(proc[p])'
    BY <1>1, <2>1, <2>3 DEF Inv, TypeOK, Carried, Kept, GivenUp
  <2> QED
    BY <2>3, <2>4, <2>5 DEF Inv
<1>4. CASE RefundSettles
  <2>1. /\ attempt' = attempt /\ stripe.refund = "pending"
        /\ \E r \in {"succeeded", "failed"} : stripe' = [stripe EXCEPT !.refund = r]
    BY <1>4 DEF RefundSettles
  <2>2. stripe' \in StripeType
    BY <2>1 DEF Inv, TypeOK, StripeType, Refund
  <2>3. Documents' /\ Stripes' /\ ProviderTruth' /\ Kept
    BY <1>1, <2>1 DEF Inv, TypeOK, Documents, Stripes, ProviderTruth, Kept, GivenUp, NoAttempt, NewAttempt
  <2>4. TypeOK'
    BY <1>1, <2>1, <2>2 DEF Inv, TypeOK, StripeType
  <2>5. \A p \in Procs : Carried(proc[p])'
    BY <1>1, <2>1, <2>3 DEF Inv, TypeOK, Carried, Kept, GivenUp
  <2> QED
    BY <2>3, <2>4, <2>5 DEF Inv
<1> QED
  BY <1>2, <1>3, <1>4

LEMMA RefundStepInv == ASSUME Inv, NEW p \in Procs, RefundStep(p) PROVE Inv'
BY OpenRefundInv, LookInv, FailRefundInv, CreateRefundInv, ReconcileInv DEF RefundStep

LEMMA RequestStepInv == ASSUME Inv, NEW p \in Requests, RequestStep(p) PROVE Inv'
<1>1. p \in Procs
  BY DEF Procs
<1>2. CASE Request(p)
  BY <1>2, FinalizeInv, TermsInv, CreateOrResumeInv, CreateIntentInv, MarkUnknownInv,
     ClaimPersistenceInv, PersistInv, RequireCompensationInv DEF Request
<1> QED
  BY <1>1, <1>2, RefundStepInv, RetrieveInv, SearchInv, RecordInv, RecordRefundInv,
     SyncCompensationInv DEF RequestStep

LEMMA WorkerStepInv == ASSUME Inv, WorkerStep PROVE Inv'
<1>1. CASE Recovery
  BY <1>1, PickAttemptInv, ResolveUnsentInv, CloseUnsentInv, CancelExpiredInv, CheckOrphanInv,
     ClaimCompensationInv, PickRefundInv DEF Recovery
<1> QED
  BY <1>1, WorkerIsProc, RefundStepInv, RetrieveInv, SearchInv, RecordInv, RecordRefundInv,
     SyncCompensationInv, ReconcileInv, NoteInv DEF WorkerStep

LEMMA HookStepInv == ASSUME Inv, NEW p \in Hooks, HookStep(p) PROVE Inv'
<1>1. p \in Procs
  BY DEF Procs
<1> QED
  BY <1>1, HookIntentInv, HookRefundInv, NoteInv, RecordRefundInv, SyncCompensationInv, ReconcileInv
  DEF HookStep

LEMMA StutterInv == ASSUME Inv, UNCHANGED vars PROVE Inv'
<1> USE DEF vars
<1>1. TypeOK'
  BY DEF Inv, TypeOK
<1>2. Documents' /\ Stripes' /\ ProviderTruth'
  BY DEF Inv, Documents, Stripes, ProviderTruth, GivenUp, NoAttempt, NewAttempt
<1>3. \A p \in Procs : Carried(proc[p])'
  BY DEF Inv, Carried, GivenUp
<1> QED
  BY <1>1, <1>2, <1>3 DEF Inv

LEMMA InvInductive == Inv /\ [Next]_vars => Inv'
<1> SUFFICES ASSUME Inv, [Next]_vars PROVE Inv'
  OBVIOUS
<1>1. CASE UNCHANGED vars
  BY <1>1, StutterInv
<1> QED
  BY <1>1, RequestStepInv, WorkerStepInv, HookStepInv, CrashInv, OutsideInv DEF Next

\* What the documents say of each other and of Stripe, and what every process may rely on.
THEOREM Invariance == Spec => []Inv
BY InitInv, InvInductive, PTL DEF Spec

\* The documents, the provider's objects and what the processes carry have their types.
THEOREM TypeCorrect == Spec => []TypeOK
<1>1. Inv => TypeOK
  BY DEF Inv
<1> QED
  BY <1>1, Invariance, PTL

\* A charge that has a booking is never given back, and one that is given back has none,
\* whatever number of requests, deliveries, crashes and lost leases.
THEOREM ChargeSettledOneWay == Spec => []SettledOneWay
<1>1. Inv => SettledOneWay
  BY DEF Inv, Documents, Stripes, ProviderTruth, GivenUp, SettledOneWay
<1> QED
  BY <1>1, Invariance, PTL

\* The attempt is COMPLETED exactly when its booking is committed.
THEOREM CompletedExactlyBooked == Spec => []CompletedIsBooked
<1>1. Inv => CompletedIsBooked
  BY DEF Inv, TypeOK, Documents, CompletedIsBooked
<1> QED
  BY <1>1, Invariance, PTL

\* What the documents record for good is what Stripe did.
THEOREM DocumentsTellTheTruth == Spec => []ProviderTruth
<1>1. Inv => ProviderTruth
  BY DEF Inv
<1> QED
  BY <1>1, Invariance, PTL
-----------------------------------------------------------------------------
(* What a step may do to the terms of the promise *)

\* A recorded success or cancellation survives every step.
LEMMA TerminalStep ==
    ASSUME Inv, [Next]_vars, attempt.provider \in {"SUCCEEDED", "CANCELED"}
    PROVE  attempt'.provider = attempt.provider
<1>1. ASSUME NEW p \in Procs, Record(p) \/ Note(p) PROVE attempt'.provider = attempt.provider
  <2>1. /\ Got(p) = "succeeded" => stripe.pi = "succeeded"
        /\ Got(p) = "canceled" => stripe.pi = "canceled"
    BY <1>1 DEF Record, Note, At, Got, Inv, Carried
  <2>2. attempt' = Recorded(StatusOf(Got(p)))
    BY <1>1 DEF Record, Note
  <2>3. /\ StatusOf(Got(p)) \in {"SUCCEEDED", "REQUIRES_ACTION", "PROCESSING", "CANCELED", "FAILED"}
        /\ StatusOf(Got(p)) = "SUCCEEDED" => Got(p) = "succeeded"
        /\ StatusOf(Got(p)) = "CANCELED" => Got(p) = "canceled"
    BY DEF StatusOf
  <2> QED
    BY <2>1, <2>2, <2>3 DEF Recorded, AllowedPrevious, Inv, TypeOK, ProviderTruth
<1>2. ASSUME NEW p \in Procs, SyncCompensation(p) PROVE attempt'.provider = attempt.provider
  BY <1>2 DEF SyncCompensation, Synced, Compensated, Inv, TypeOK
<1>3. ASSUME NEW p \in Procs, RefundStep(p) PROVE attempt'.provider = attempt.provider
  BY <1>3 DEF RefundStep, OpenRefund, RetrieveRefund, LookupRefund, CheckSource, FailRefund,
              CreateRefund, ReconcileRefund
<1>4. ASSUME NEW p \in Requests, Request(p) PROVE attempt'.provider = attempt.provider
  BY <1>4 DEF Request, Finalize, Terms, CreateOrResume, CreateIntent, MarkUnknown, ClaimPersistence,
              Persist, RequireCompensation, Leased, Completed, Inv, TypeOK, Documents, NoAttempt,
              NewAttempt
<1>5. CASE Recovery
  BY <1>5 DEF Recovery, PickAttempt, ResolveUnsent, CloseUnsent, CancelExpired, CheckOrphan,
              ClaimCompensation, PickRefund, Unsent, Leased, Completed, Inv, TypeOK
<1>6. ASSUME NEW p \in Procs,
             \/ Retrieve(p) \/ Search(p) \/ RecordRefund(p) \/ ReconcileDomain(p)
             \/ HookIntent(p) \/ HookRefund(p) \/ Crash(p)
      PROVE  attempt'.provider = attempt.provider
  BY <1>6 DEF Retrieve, Search, RecordRefund, ReconcileDomain, HookIntent, HookRefund, Crash
<1>7. CASE LeaseExpires \/ IntentMoves \/ RefundSettles \/ UNCHANGED vars
  BY <1>7 DEF LeaseExpires, IntentMoves, RefundSettles, vars, Inv, TypeOK
<1>8. Requests \subseteq Procs /\ Hooks \subseteq Procs /\ Worker \in Procs /\ Crashing \subseteq Procs
  BY ProcsAssumption DEF Procs
<1> QED
  BY <1>1, <1>2, <1>3, <1>4, <1>5, <1>6, <1>7, <1>8 DEF Next, RequestStep, WorkerStep, HookStep

\* No late, repeated or reordered result takes a success or a cancellation back.
THEOREM TerminalForGood == Spec => TerminalStays
<1>1. Inv /\ [Next]_vars =>
        [attempt.provider \in {"SUCCEEDED", "CANCELED"} => attempt'.provider = attempt.provider]_attempt
  BY TerminalStep
<1> QED
  BY <1>1, Invariance, PTL DEF Spec, TerminalStays

\* A step that leaves alone what the promise speaks of.
LEMMA Unseen ==
    ASSUME (stripe.pi = "succeeded") = (stripe'.pi = "succeeded"), booking' = booking,
           (attempt.comp # "NOT_REQUIRED") = (attempt'.comp # "NOT_REQUIRED"),
           stripe'.refund = stripe.refund,
           (attempt.comp = "REFUNDED") = (attempt'.comp = "REFUNDED")
    PROVE  UNCHANGED Settled!svars
BY DEF Settled!svars

\* The requests' own steps: the charge is taken by the call, booked by the transaction
\* and given up by the holder of the lease.
LEMMA RequestMaps == ASSUME Inv, NEW p \in Requests, Request(p) PROVE [Settled!Next]_(Settled!svars)
<1>1. CASE Finalize(p) \/ Terms(p)
  BY <1>1, Unseen DEF Finalize, Terms
<1>2. CASE CreateOrResume(p)
  BY <1>2, Unseen DEF CreateOrResume, Inv, Documents, NoAttempt, NewAttempt
<1>3. CASE CreateIntent(p)
  <2>0. UNCHANGED <<attempt, booking>> /\ stripe' \in Confirmed \cup {stripe}
    BY <1>3 DEF CreateIntent
  <2>1. /\ stripe'.refund = stripe.refund
        /\ stripe'.pi = stripe.pi \/ stripe.pi = "none"
    BY <2>0, ConfirmedIs DEF Inv, TypeOK
  <2> QED
    BY <2>0, <2>1 DEF Settled!Next, Settled!Take, Settled!svars
<1>4. CASE MarkUnknown(p)
  BY <1>4, Unseen DEF MarkUnknown, Inv, TypeOK
<1>5. CASE ClaimPersistence(p)
  BY <1>5, Unseen DEF ClaimPersistence, MayClaimPersistence, Unclaimed, Leased, Inv, TypeOK
<1>6. CASE Persist(p)
  <2>1. CASE OwnsPersistence(p) /\ booking' = TRUE /\ attempt' = Completed
    <3>1. stripe.pi = "succeeded" /\ ~GivenUp /\ attempt'.comp = attempt.comp /\ stripe' = stripe
      BY <1>6, <2>1 DEF Persist, OwnsPersistence, Completed, Inv, TypeOK, ProviderTruth, GivenUp
    <3> QED
      BY <2>1, <3>1 DEF Settled!Next, Settled!Book, GivenUp
  <2>2. CASE UNCHANGED <<booking, attempt>>
    BY <1>6, <2>2, Unseen DEF Persist
  <2> QED
    BY <1>6, <2>1, <2>2 DEF Persist
<1>7. CASE RequireCompensation(p)
  <2>1. CASE attempt' = attempt
    BY <1>7, <2>1, Unseen DEF RequireCompensation
  <2>2. CASE OwnsPersistence(p) /\ attempt'.comp = "REQUIRED"
    <3>1. stripe.pi = "succeeded" /\ ~booking /\ stripe' = stripe /\ booking' = booking
          /\ attempt.comp = "NOT_REQUIRED"
      BY <1>7, <2>2 DEF RequireCompensation, OwnsPersistence, Inv, ProviderTruth, Documents
    <3> QED
      BY <2>2, <3>1 DEF Settled!Next, Settled!GiveUp
  <2> QED
    BY <1>7, <2>1, <2>2 DEF RequireCompensation, Inv, TypeOK
<1> QED
  BY <1>1, <1>2, <1>3, <1>4, <1>5, <1>6, <1>7 DEF Request
\* The worker's own steps: it gives up an orphan, and books nothing.
LEMMA RecoveryMaps == ASSUME Inv, Recovery PROVE [Settled!Next]_(Settled!svars)
<1>1. CASE PickAttempt \/ ResolveUnsent \/ PickRefund
  BY <1>1, Unseen DEF PickAttempt, ResolveUnsent, PickRefund
<1>2. CASE CloseUnsent
  BY <1>2, Unseen DEF CloseUnsent, Inv, TypeOK
<1>3. CASE CancelExpired
  BY <1>3, Unseen DEF CancelExpired, Inv, TypeOK
<1>4. CASE CheckOrphan
  BY <1>4, Unseen DEF CheckOrphan, Completed, Inv, TypeOK
<1>5. CASE ClaimCompensation
  <2>1. CASE attempt' = attempt
    BY <1>5, <2>1, Unseen DEF ClaimCompensation
  <2>2. CASE MayClaimCompensation /\ attempt' = Leased(Worker, "FAILED", "REQUIRED")
    <3>1. attempt'.comp = "REQUIRED" /\ UNCHANGED <<stripe, booking>>
      BY <1>5, <2>2 DEF ClaimCompensation, Leased, Inv, TypeOK
    <3>2. stripe.pi = "succeeded" /\ ~booking /\ attempt.comp \in {"NOT_REQUIRED", "REQUIRED"}
      BY <2>2 DEF MayClaimCompensation, Unclaimed, Inv, ProviderTruth, Documents, GivenUp
    <3>3. CASE attempt.comp = "REQUIRED"
      BY <3>1, <3>3, Unseen
    <3>4. CASE attempt.comp = "NOT_REQUIRED"
      BY <3>1, <3>2, <3>4 DEF Settled!Next, Settled!GiveUp
    <3> QED
      BY <3>2, <3>3, <3>4
  <2> QED
    BY <1>5, <2>1, <2>2 DEF ClaimCompensation
<1> QED
  BY <1>1, <1>2, <1>3, <1>4, <1>5 DEF Recovery

\* The steps of a refund: one call sends the money back, for a charge that is given up.
LEMMA RefundMaps == ASSUME Inv, NEW p \in Procs, RefundStep(p) PROVE [Settled!Next]_(Settled!svars)
<1>1. CASE CreateRefund(p)
  <2>0. UNCHANGED <<attempt, booking>> /\ stripe' \in Refunded \cup {stripe} /\ GivenUp
    BY <1>1, RefundingGivenUp DEF CreateRefund, At, Refunding
  <2>1. CASE stripe' = stripe
    BY <2>0, <2>1, Unseen
  <2>2. CASE /\ stripe.refund = "none"
             /\ \E r \in {"pending", "succeeded", "failed"} :
                   stripe' = [stripe EXCEPT !.refund = r, !.firstRefund = r]
    <3>1. stripe'.pi = stripe.pi /\ stripe'.refund \in {"pending", "succeeded", "failed"}
      BY <2>2 DEF Inv, TypeOK
    <3> QED
      BY <2>0, <2>2, <3>1 DEF Settled!Next, Settled!SendBack, GivenUp
  <2> QED
    BY <2>0, <2>1, <2>2, RefundedIs
<1>2. CASE ~CreateRefund(p)
  BY <1>2, Unseen DEF RefundStep, OpenRefund, RetrieveRefund, LookupRefund, CheckSource, FailRefund,
                      ReconcileRefund
<1> QED
  BY <1>1, <1>2

\* A refund is reported when Stripe has sent it.
LEMMA SyncMaps == ASSUME Inv, NEW p \in Procs, SyncCompensation(p) PROVE [Settled!Next]_(Settled!svars)
<1>0. UNCHANGED <<booking, stripe>> /\ GivenUp
  BY RefundingGivenUp DEF SyncCompensation, At, Refunding
<1>1. \/ attempt' = attempt
      \/ Got(p) = "SUCCEEDED" /\ attempt'.comp = "REFUNDED"
      \/ attempt'.comp = "REFUND_PENDING" /\ attempt.comp # "REFUNDED"
      \/ attempt'.comp = "FAILED" /\ attempt.comp # "REFUNDED"
  BY DEF SyncCompensation, Synced, Compensated, Inv, TypeOK
<1>2. CASE attempt' = attempt
  BY <1>0, <1>2, Unseen
<1>3. CASE Got(p) = "SUCCEEDED" /\ attempt'.comp = "REFUNDED"
  <2>1. stripe.refund = "succeeded"
    BY <1>3 DEF SyncCompensation, At, Got, Inv, Carried
  <2> QED
    BY <1>0, <1>3, <2>1 DEF Settled!Next, Settled!Report, GivenUp
<1>4. CASE attempt'.comp \in {"REFUND_PENDING", "FAILED"} /\ attempt.comp # "REFUNDED"
  BY <1>0, <1>4, Unseen DEF GivenUp
<1> QED
  BY <1>1, <1>2, <1>3, <1>4

LEMMA StepMaps == Inv /\ [Next]_vars => [Settled!Next]_(Settled!svars)
<1> SUFFICES ASSUME Inv, [Next]_vars PROVE [Settled!Next]_(Settled!svars)
  OBVIOUS
<1>1. ASSUME NEW p \in Procs, Record(p) \/ Note(p) PROVE [Settled!Next]_(Settled!svars)
  <2>1. attempt'.comp = attempt.comp
    BY <1>1 DEF Record, Note, Recorded, Inv, TypeOK
  <2> QED
    BY <1>1, <2>1, Unseen DEF Record, Note
<1>2. ASSUME NEW p \in Procs,
             \/ Retrieve(p) \/ Search(p) \/ RecordRefund(p) \/ ReconcileDomain(p)
             \/ HookIntent(p) \/ HookRefund(p) \/ Crash(p)
      PROVE  [Settled!Next]_(Settled!svars)
  BY <1>2, Unseen DEF Retrieve, Search, RecordRefund, ReconcileDomain, HookIntent, HookRefund, Crash
<1>3. CASE LeaseExpires
  BY <1>3, Unseen DEF LeaseExpires, Inv, TypeOK
<1>4. CASE IntentMoves
  <2>1. /\ stripe.pi # "succeeded" /\ stripe'.refund = stripe.refund /\ UNCHANGED <<attempt, booking>>
    BY <1>4 DEF IntentMoves, Inv, TypeOK
  <2>2. CASE stripe'.pi = "succeeded"
    BY <2>1, <2>2 DEF Settled!Next, Settled!Take
  <2>3. CASE stripe'.pi # "succeeded"
    BY <2>1, <2>3, Unseen
  <2> QED
    BY <2>2, <2>3
<1>5. CASE RefundSettles
  <2>1. /\ stripe.refund = "pending" /\ stripe'.refund \in {"succeeded", "failed"}
        /\ stripe'.pi = stripe.pi /\ UNCHANGED <<attempt, booking>>
    BY <1>5 DEF RefundSettles, Inv, TypeOK
  <2> QED
    BY <2>1 DEF Settled!Next, Settled!Arrive
<1>6. CASE UNCHANGED vars
  BY <1>6, Unseen DEF vars
<1>7. Requests \subseteq Procs /\ Hooks \subseteq Procs /\ Worker \in Procs /\ Crashing \subseteq Procs
  BY ProcsAssumption DEF Procs
<1> QED
  BY <1>1, <1>2, <1>3, <1>4, <1>5, <1>6, <1>7, RequestMaps, RecoveryMaps, RefundMaps, SyncMaps
  DEF Next, RequestStep, WorkerStep, HookStep

\* Documents, requests, worker and webhooks implement the settlement of one charge: it is
\* taken once, booked or given up, sent back once, and reported when it arrived.
THEOREM SettlesTheCharge == Spec => ImplementsSettlement
<1>1. Init => Settled!Init
  BY DEF Init, Settled!Init, NoAttempt, NewAttempt
<1> QED
  BY <1>1, StepMaps, Invariance, PTL DEF Spec, ImplementsSettlement, Settled!Spec
=============================================================================
