----------------------- MODULE PenaltyCollectionProofs -----------------------
(***************************************************************************)
(* Proofs about PenaltyCollection: its types, that a forgiven fee was not  *)
(* paid and will not be, that the booking tells what the ledger tells, and *)
(* that the ledger settles what Stripe did, for any number of requests,    *)
(* workers, deliveries and faults.                                         *)
(***************************************************************************)
EXTENDS PenaltyCollection, TLAPS

\* Whoever may still send the charge; once the obligation stands and nobody may, the
\* charge is sent or never will be; it is dead when it can no more succeed.
Sends == {"collect", "dispatch"}
Sender(p) == proc[p].at \in Sends
Quiet == \A p \in Procs : ~Sender(p)
Sent == obligation # "none" /\ Quiet
Dead == Sent /\ stripe \notin {"PROCESSING", "SUCCEEDED"}

\* Only the process that wrote the obligation sends, and while it may, nothing was sent
\* and nothing is decided.
OneSender ==
    \A p \in Procs : Sender(p) => /\ p \in Collectors
                                  /\ stripe = "none" /\ obligation = "PENDING"
                                  /\ \A q \in Procs : Sender(q) => q = p

\* LedgerAgrees, and what it rests on: what a booking is before its fee is due.
Ledger ==
    /\ LedgerAgrees
    /\ booking.status = "UPCOMING" => obligation = "none" /\ ~booking.claimed
    /\ booking.status # "LATE_CANCELLATION" => booking.settlement = "NOT_APPLICABLE"
    /\ booking.settlement # "NOT_APPLICABLE" => booking.due
    /\ obligation # "none" => booking.due

LedgerIsStripes ==
    /\ obligation = "SUCCEEDED" => stripe = "SUCCEEDED"
    /\ obligation \in {"FAILED", "WAIVED"} => Dead
    /\ obligation = "none" => stripe = "none" /\ Quiet

\* What the attempt, or the row a step is about to make of it, may say.
RowFits(t) ==
    /\ t \in Attempt
    /\ t.owner # Nobody <=> t.persist = "PERSISTING"
    /\ t.status # "none" => obligation # "none"
    /\ Definitive(t.status) => Dead
    /\ t.status = "SUCCEEDED" => stripe = "SUCCEEDED"
    /\ t.persist = "PERSISTING" => t.status = "SUCCEEDED"
    /\ obligation = "SUCCEEDED" => t.persist = "COMPLETED"

\* What a process at a step may still rely on, however long ago it read it.
Carries(x) ==
    /\ x.at = "unknown" => obligation # "none"
    /\ x.at \in {"record", "lookup", "close"} => Sent
    /\ x.at = "record" => x.got \in StripeStatus \ {"none"}
    /\ x.at = "close" => stripe = "none"
    /\ x.at = "judge" => x.got = "SUCCEEDED" \/ Definitive(x.got)
    /\ x.at \in {"record", "judge"} /\ x.got = "SUCCEEDED" => stripe = "SUCCEEDED"
    /\ x.at \in {"record", "judge"} /\ Definitive(x.got) => Dead
    /\ x.at = "fail" => Dead
    /\ x.want = "waive" => booking.due
    /\ x.at \in {"gate", "key", "insert", "reverse"} => x.want # "none"
    /\ x.at = "insert" => x.want = "waive"
    /\ x.at \in {"key", "reverse"} /\ x.got = "FAILED" => obligation \in {"FAILED", "WAIVED"}
    /\ x.at = "reverse" => x.got \in {"none", "FAILED", "WAIVED"}
    /\ x.at = "reverse" /\ x.got = "WAIVED" => obligation = "WAIVED"

Value == AttemptStatus \cup Obligation
Place == [at : Step, got : Value, again : BOOLEAN,
          want : {"none", "waive", "reverse"}, regate : BOOLEAN]

Types == /\ booking \in Booking /\ obligation \in Obligation /\ stripe \in StripeStatus
         /\ faults \in 0..MaxFaults /\ proc \in [Procs -> Place]

Inv == /\ Types /\ RowFits(attempt) /\ OneSender /\ Ledger /\ LedgerIsStripes
       /\ \A p \in Procs : Carries(proc[p])

-----------------------------------------------------------------------------
(* What a step takes from nobody *)

Kept == /\ obligation # "none" => obligation' # "none"
        /\ Sent => Sent'
        /\ Dead => Dead'
        /\ stripe = "SUCCEEDED" => stripe' = "SUCCEEDED"
        /\ stripe = "none" /\ Sent => stripe' = "none"
        /\ obligation \in {"FAILED", "WAIVED"} => obligation' \in {"FAILED", "WAIVED"}
        /\ obligation = "WAIVED" => obligation' = "WAIVED"
        /\ booking'.due = booking.due

LEMMA CarriesKept == ASSUME Kept, NEW x, Carries(x) PROVE Carries(x)'
<1>1. /\ x.at = "unknown" => obligation' # "none"
      /\ x.at \in {"record", "lookup", "close"} => Sent'
      /\ x.at = "close" => stripe' = "none"
  BY DEF Kept, Carries
<1>2. /\ x.at \in {"record", "judge"} /\ x.got = "SUCCEEDED" => stripe' = "SUCCEEDED"
      /\ x.at \in {"record", "judge"} /\ Definitive(x.got) => Dead'
      /\ x.at = "fail" => Dead'
  BY DEF Kept, Carries
<1>3. x.want = "waive" => booking'.due
  BY DEF Kept, Carries
<1>4. /\ x.at \in {"key", "reverse"} /\ x.got = "FAILED" => obligation' \in {"FAILED", "WAIVED"}
      /\ x.at = "reverse" /\ x.got = "WAIVED" => obligation' = "WAIVED"
  BY DEF Kept, Carries
<1>5. /\ x.at = "record" => x.got \in StripeStatus \ {"none"}
      /\ x.at = "judge" => x.got = "SUCCEEDED" \/ Definitive(x.got)
      /\ x.at \in {"gate", "key", "insert", "reverse"} => x.want # "none"
      /\ x.at = "insert" => x.want = "waive"
      /\ x.at = "reverse" => x.got \in {"none", "FAILED", "WAIVED"}
  BY DEF Carries
<1> QED
  BY <1>1, <1>2, <1>3, <1>4, <1>5 DEF Carries, Definitive

LEMMA RowKept ==
    ASSUME Kept, NEW t, RowFits(t), obligation' = "SUCCEEDED" => t.persist = "COMPLETED"
    PROVE  RowFits(t)'
BY DEF Kept, RowFits, Definitive, Attempt

\* A process goes where it says, the others stay.
Moves(p, x) == proc' = [proc EXCEPT ![p] = x]

LEMMA TookMoves ==
    ASSUME Types, NEW p \in Procs, NEW v \in Value, NEW s \in Step, Took(p, v, s)
    PROVE  /\ [proc[p] EXCEPT !.at = s, !.got = v] \in Place
           /\ Moves(p, [proc[p] EXCEPT !.at = s, !.got = v])
BY DEF Types, Took, Moves, Place

LEMMA GotoMoves ==
    ASSUME Types, NEW p \in Procs, NEW s \in Step, Goto(p, s)
    PROVE  /\ [proc[p] EXCEPT !.at = s, !.got = "none"] \in Place
           /\ Moves(p, [proc[p] EXCEPT !.at = s, !.got = "none"])
BY TookMoves DEF Goto, Value, Obligation

LEMMA IdlePlace == Idle \in Place /\ Carries(Idle) /\ Idle.at \notin Sends
BY DEF Idle, Place, Step, Value, Obligation, Carries, Sends

LEMMA LeaveMoves == ASSUME NEW p \in Procs, Leave(p) PROVE Moves(p, Idle)
BY DEF Leave, Moves

\* Where convergeAttempt ends.
LEMMA ConvergedMoves ==
    ASSUME Inv, NEW p \in Procs, Converged(p)
    PROVE  \E x \in Place : Moves(p, x) /\ Carries(x) /\ x.at \notin Sends
<1>1. CASE proc[p].want = "none"
  BY <1>1, IdlePlace, LeaveMoves DEF Converged
<1>2. CASE proc[p].want # "none"
  <2> DEFINE x == [proc[p] EXCEPT !.at = "gate", !.got = "none", !.regate = TRUE]
  <2>1. x \in Place
    <3>1. proc[p] \in Place
      BY DEF Inv, Types
    <3> QED
      BY <3>1 DEF Place, Step, Value, Obligation
  <2>0. Moves(p, x)
    <3>1. proc' = [proc EXCEPT ![p].at = "gate", ![p].got = "none", ![p].regate = TRUE]
      BY <1>2 DEF Converged
    <3> QED
      BY <3>1 DEF Moves
  <2>2. x.at = "gate" /\ x.want = proc[p].want
    BY DEF Inv, Types, Place
  <2>3. proc[p].want = "waive" => booking.due
    BY DEF Inv, Carries
  <2>4. Carries(x)
    BY <1>2, <2>2, <2>3 DEF Carries
  <2> QED
    BY <2>0, <2>1, <2>2, <2>4 DEF Sends
<1> QED
  BY <1>1, <1>2

LEMMA QuietStays ==
    ASSUME Types, NEW p \in Procs, NEW x \in Place, Moves(p, x), x.at \notin Sends, Quiet
    PROVE  Quiet'
BY DEF Types, Moves, Quiet, Sender

-----------------------------------------------------------------------------
(* The kinds of step *)

LEMMA StepInv ==
    ASSUME Inv, Types', Kept, RowFits(attempt)', OneSender', Ledger', LedgerIsStripes',
           \A q \in Procs : proc'[q] = proc[q] \/ Carries(proc[q])'
    PROVE  Inv'
<1>1. ASSUME NEW q \in Procs PROVE Carries(proc[q])'
  <2>1. CASE proc'[q] = proc[q]
    BY <2>1, CarriesKept DEF Inv, Carries, Definitive
  <2> QED
    BY <2>1
<1> QED
  BY <1>1 DEF Inv

\* What the other conjuncts say of a step that leaves the ledger and Stripe alone.
LEMMA SameLedger ==
    ASSUME Inv, UNCHANGED <<booking, obligation, stripe>>, Quiet => Quiet'
    PROVE  Kept /\ Ledger' /\ LedgerIsStripes'
<1>1. Sent => Sent'
  BY DEF Sent
<1>2. Dead => Dead'
  BY <1>1 DEF Dead
<1>3. Kept
  BY <1>1, <1>2 DEF Kept
<1>4. Ledger'
  BY DEF Inv, Ledger, LedgerAgrees
<1>5. LedgerIsStripes'
  BY <1>2 DEF Inv, LedgerIsStripes
<1> QED
  BY <1>3, <1>4, <1>5

\* p goes on, without becoming one who may send, unless it is that one already.
LEMMA SendersStay ==
    ASSUME Inv, NEW p \in Procs, NEW x \in Place, Moves(p, x),
           x.at \in Sends => Sender(p), UNCHANGED <<obligation, stripe>>
    PROVE  OneSender' /\ (Quiet => Quiet')
<1>1. ASSUME NEW q \in Procs, Sender(q)' PROVE Sender(q)
  BY <1>1 DEF Inv, Types, Moves, Sender
<1> QED
  BY <1>1 DEF Inv, OneSender, Quiet

LEMMA MovedFits ==
    ASSUME Inv, NEW p \in Procs, NEW x \in Place, Moves(p, x), Carries(x), Kept
    PROVE  /\ proc' \in [Procs -> Place]
           /\ \A q \in Procs : proc'[q] = proc[q] \/ Carries(proc[q])'
<1>1. proc' \in [Procs -> Place]
  BY DEF Inv, Types, Moves
<1>2. ASSUME NEW q \in Procs PROVE proc'[q] = proc[q] \/ Carries(proc[q])'
  <2>1. CASE q = p
    <3>1. proc'[q] = x
      BY <2>1 DEF Inv, Types, Moves
    <3>2. Carries(x)'
      BY CarriesKept
    <3> QED
      BY <3>1, <3>2 DEF Carries, Definitive
  <2>2. CASE q # p
    BY <2>2 DEF Inv, Types, Moves
  <2> QED
    BY <2>1, <2>2
<1> QED
  BY <1>1, <1>2

\* A step of p that writes the attempt, or only its own place.
LEMMA AttemptInv ==
    ASSUME Inv, NEW p \in Procs, NEW x \in Place, Moves(p, x), Carries(x),
           x.at \in Sends => Sender(p), faults' \in 0..MaxFaults,
           UNCHANGED <<booking, obligation, stripe>>,
           NEW t, attempt' = t, RowFits(t)
    PROVE  Inv'
<1>1. OneSender' /\ (Quiet => Quiet')
  BY SendersStay
<1>2. Kept /\ Ledger' /\ LedgerIsStripes'
  BY <1>1, SameLedger
<1>3. /\ proc' \in [Procs -> Place]
      /\ \A q \in Procs : proc'[q] = proc[q] \/ Carries(proc[q])'
  BY <1>2, MovedFits
<1>4. Types'
  BY <1>3 DEF Inv, Types
<1>5. RowFits(t)'
  BY <1>2, RowKept DEF RowFits
<1>6. RowFits(attempt)'
  BY <1>5 DEF RowFits, Definitive
<1> QED
  BY <1>1, <1>2, <1>3, <1>4, <1>6, StepInv

LEMMA ReadInv ==
    ASSUME Inv, NEW p \in Procs, NEW x \in Place, Moves(p, x), Carries(x),
           x.at \in Sends => Sender(p), faults' \in 0..MaxFaults,
           UNCHANGED <<booking, obligation, attempt, stripe>>
    PROVE  Inv'
BY AttemptInv DEF Inv

\* A step of p that settles or waives, when nobody may send any more; t is the attempt.
LEMMA LedgerInv ==
    ASSUME Inv, NEW p \in Procs, NEW x \in Place, Moves(p, x), Carries(x), x.at \notin Sends,
           UNCHANGED <<stripe, faults>>, Quiet,
           booking' \in Booking, booking'.due = booking.due, Ledger',
           obligation' \in Obligation \ {"none"},
           obligation' = "SUCCEEDED" => stripe = "SUCCEEDED",
           obligation' # "SUCCEEDED" => stripe \notin {"PROCESSING", "SUCCEEDED"},
           obligation \in {"FAILED", "WAIVED"} => obligation' \in {"FAILED", "WAIVED"},
           obligation = "WAIVED" => obligation' = "WAIVED",
           NEW t, attempt' = t, RowFits(t),
           obligation' = "SUCCEEDED" => t.persist = "COMPLETED"
    PROVE  Inv'
<1>1. Quiet'
  BY QuietStays DEF Inv
<1>2. Sent'
  BY <1>1 DEF Sent
<1>3. Dead => Dead'
  BY <1>2 DEF Dead
<1>4. Kept
  BY <1>2, <1>3 DEF Kept
<1>5. OneSender'
  BY <1>1 DEF OneSender, Quiet
<1>6. LedgerIsStripes'
  BY <1>2 DEF LedgerIsStripes, Dead
<1>7. /\ proc' \in [Procs -> Place]
      /\ \A q \in Procs : proc'[q] = proc[q] \/ Carries(proc[q])'
  BY <1>4, MovedFits
<1>8. Types'
  BY <1>7 DEF Inv, Types
<1>9. RowFits(t)'
  BY <1>4, RowKept
<1>10. RowFits(attempt)'
  BY <1>9 DEF RowFits, Definitive
<1> QED
  BY <1>4, <1>5, <1>6, <1>7, <1>8, <1>10, StepInv

\* A step that moves nobody.
LEMMA StayInv ==
    ASSUME Inv, UNCHANGED proc, faults' \in 0..MaxFaults, booking' \in Booking,
           obligation' \in Obligation, stripe' \in StripeStatus, Kept, RowFits(attempt)',
           OneSender', Ledger', LedgerIsStripes'
    PROVE  Inv'
<1>1. Types'
  BY DEF Inv, Types
<1> QED
  BY <1>1, StepInv

LEMMA InitInv == Init => Inv
<1> SUFFICES ASSUME Init PROVE Inv
  OBVIOUS
<1>1. PICK due \in BOOLEAN : booking = [status |-> "UPCOMING", claimed |-> FALSE,
                                       settlement |-> "NOT_APPLICABLE", due |-> due]
  BY DEF Init
<1>2. booking \in Booking
  BY <1>1 DEF Booking
<1>3. proc \in [Procs -> Place] /\ \A p \in Procs : Carries(proc[p]) /\ ~Sender(p)
  BY IdlePlace DEF Init, Sender
<1>4. faults \in 0..MaxFaults
  BY PenaltyAssumption DEF Init
<1>5. Types
  BY <1>2, <1>3, <1>4 DEF Init, Types, Obligation, StripeStatus
<1>6. RowFits(attempt)
  BY DEF Init, RowFits, Attempt, AttemptStatus, StripeStatus, Definitive
<1>7. OneSender /\ LedgerIsStripes
  BY <1>3 DEF Init, OneSender, LedgerIsStripes, Quiet
<1>8. booking.status = "UPCOMING" /\ ~booking.claimed /\ booking.settlement = "NOT_APPLICABLE"
  BY <1>1
<1>9. Ledger
  BY <1>8 DEF Init, Ledger, LedgerAgrees
<1> QED
  BY <1>3, <1>5, <1>6, <1>7, <1>9 DEF Inv

-----------------------------------------------------------------------------
(* The attempt, as the repositories update it *)

LEMMA RecordedFits ==
    ASSUME Inv, NEW p \in Procs, At(p, "record")
    PROVE  RowFits(Recorded(proc[p].got))
<1> DEFINE s == proc[p].got
<1>1. /\ s \in StripeStatus \ {"none"} /\ Sent
      /\ s = "SUCCEEDED" => stripe = "SUCCEEDED"
      /\ Definitive(s) => Dead
  BY DEF Inv, Carries, At
<1> HIDE DEF s
<1>2. CASE attempt.status \in Superseded(s)
  <2>1. Recorded(s) = [attempt EXCEPT !.status = s, !.intent = TRUE]
    BY <1>2 DEF Recorded
  <2>2. s \in AttemptStatus
    BY <1>1 DEF AttemptStatus
  <2>3. attempt.status = "SUCCEEDED" => s = "SUCCEEDED"
    BY <1>2 DEF Superseded
  <2>4. [attempt EXCEPT !.status = s, !.intent = TRUE] \in Attempt
    BY <2>2 DEF Inv, RowFits, Attempt
  <2>5. RowFits([attempt EXCEPT !.status = s, !.intent = TRUE])
    BY <1>1, <2>3, <2>4 DEF Inv, RowFits, Attempt, Sent, Definitive
  <2> QED
    BY <2>1, <2>5 DEF s
<1>3. CASE attempt.status \notin Superseded(s)
  BY <1>3 DEF Recorded, Inv, s
<1> QED
  BY <1>2, <1>3

LEMMA MarkedUnknownFits ==
    ASSUME Inv, obligation # "none" PROVE RowFits(MarkedUnknown)
<1>1. CASE attempt.status \in {"SUCCEEDED", "FAILED", "CANCELED"}
  BY <1>1 DEF Inv, MarkedUnknown
<1>2. CASE attempt.status \notin {"SUCCEEDED", "FAILED", "CANCELED"}
  <2>1. MarkedUnknown = [attempt EXCEPT !.status = "UNKNOWN"]
    BY <1>2 DEF MarkedUnknown
  <2>2. [attempt EXCEPT !.status = "UNKNOWN"] \in Attempt
    BY DEF Inv, RowFits, Attempt, AttemptStatus
  <2> QED
    BY <1>2, <2>1, <2>2 DEF Inv, RowFits, Attempt, Definitive
<1> QED
  BY <1>1, <1>2

LEMMA LeasedFits ==
    ASSUME Inv, NEW p \in Procs, MayLease PROVE RowFits(Leased(p))
<1>1. Leased(p) \in Attempt
  BY DEF Inv, RowFits, Leased, Attempt
<1>2. attempt.status = "SUCCEEDED" /\ obligation # "SUCCEEDED"
  BY DEF MayLease, Inv, RowFits
<1>3. p # Nobody
  BY PenaltyAssumption
<1> QED
  BY <1>1, <1>2, <1>3 DEF Inv, RowFits, Leased, Attempt, Definitive

LEMMA CompletedFits ==
    ASSUME Inv PROVE RowFits(Completed) /\ Completed.persist = "COMPLETED"
<1>1. Completed \in Attempt
  BY DEF Inv, RowFits, Completed, Attempt
<1> QED
  BY <1>1 DEF Inv, RowFits, Completed, Attempt, Definitive

LEMMA AbsorbedFits == ASSUME Inv PROVE RowFits(Absorbed)
BY CompletedFits DEF Absorbed, Inv

LEMMA ClosedFits ==
    ASSUME Inv, IsUnsent, Sent, stripe = "none"
    PROVE  RowFits([attempt EXCEPT !.status = "FAILED"])
<1>1. [attempt EXCEPT !.status = "FAILED"] \in Attempt
  BY DEF Inv, RowFits, Attempt, AttemptStatus, StripeStatus
<1>2. Dead /\ attempt.persist # "PERSISTING" /\ obligation # "none"
  BY DEF Dead, IsUnsent, Sent
<1> QED
  BY <1>1, <1>2 DEF Inv, RowFits, Attempt, Definitive

-----------------------------------------------------------------------------
(* The charge *)

\* Once Stripe holds a charge, nobody may send one.
LEMMA ChargedSent == ASSUME Inv, stripe # "none" PROVE Sent
BY DEF Inv, OneSender, Quiet, Sent, LedgerIsStripes

LEMMA FaultBound == ASSUME Inv, faults < MaxFaults PROVE faults + 1 \in 0..MaxFaults
BY PenaltyAssumption DEF Inv, Types

LEMMA CollectInv == ASSUME Inv, NEW p \in Procs, Collect(p) PROVE Inv'
<1>0. UNCHANGED <<booking, obligation, attempt, stripe>> /\ faults' \in 0..MaxFaults
      /\ Sender(p) /\ Types
  BY DEF Collect, Inv, Types, At, Sender, Sends
<1>1. CASE Leave(p)
  BY <1>0, <1>1, LeaveMoves, IdlePlace, ReadInv
<1>2. ASSUME NEW s \in {"dispatch", "attempt"}, Goto(p, s) PROVE Inv'
  <2> DEFINE x == [proc[p] EXCEPT !.at = s, !.got = "none"]
  <2>1. s \in Step
    BY DEF Step
  <2>2. x \in Place /\ Moves(p, x)
    BY <1>0, <1>2, <2>1, GotoMoves
  <2>3. x.at = s /\ x.want = proc[p].want
    BY <1>0 DEF Types, Place
  <2>4. Carries(x)
    BY <2>3 DEF Inv, Carries
  <2> HIDE DEF x
  <2> QED
    BY <1>0, <2>2, <2>4, ReadInv
<1> QED
  BY <1>1, <1>2 DEF Collect

\* A step of p that only reads, and takes v to step s.
LEMMA TookInv ==
    ASSUME Inv, NEW p \in Procs, NEW v \in Value, NEW s \in Step \ Sends, Took(p, v, s),
           faults' \in 0..MaxFaults, UNCHANGED <<booking, obligation, stripe>>,
           NEW t, attempt' = t, RowFits(t),
           Carries([proc[p] EXCEPT !.at = s, !.got = v])
    PROVE  Inv'
<1> DEFINE x == [proc[p] EXCEPT !.at = s, !.got = v]
<1>1. x \in Place /\ Moves(p, x)
  BY TookMoves DEF Inv
<1>2. x.at \notin Sends
  BY DEF Inv, Types, Place
<1> HIDE DEF x
<1> QED
  BY <1>1, <1>2, AttemptInv DEF x

LEMMA TookFields ==
    ASSUME Types, NEW p \in Procs, NEW s, NEW v
    PROVE  LET x == [proc[p] EXCEPT !.at = s, !.got = v]
           IN  x.at = s /\ x.got = v /\ x.want = proc[p].want
BY DEF Types, Place

\* What p wants, it wants for a fee that is due.
LEMMA WantsDue == ASSUME Inv, NEW p \in Procs PROVE proc[p].want = "waive" => booking.due
BY DEF Inv, Carries

\* p goes to a step that relies on nothing.
LEMMA GoesOn ==
    ASSUME Inv, NEW p \in Procs, NEW s \in {"unknown", "attempt", "settle", "convert"},
           s = "unknown" => obligation # "none", NEW v
    PROVE  Carries([proc[p] EXCEPT !.at = s, !.got = v])
<1> DEFINE x == [proc[p] EXCEPT !.at = s, !.got = v]
<1>1. x.at = s /\ x.want = proc[p].want
  BY TookFields DEF Inv
<1> HIDE DEF x
<1>2. Carries(x)
  BY <1>1, WantsDue DEF Carries
<1> QED
  BY <1>2 DEF x

\* p has read v of Stripe, and goes to record it.
LEMMA GoesToRecord ==
    ASSUME Inv, NEW p \in Procs, stripe # "none"
    PROVE  Carries([proc[p] EXCEPT !.at = "record", !.got = stripe])
<1> DEFINE x == [proc[p] EXCEPT !.at = "record", !.got = stripe]
<1>1. x.at = "record" /\ x.got = stripe /\ x.want = proc[p].want
  BY TookFields DEF Inv
<1>2. Sent /\ (Definitive(stripe) => Dead)
  BY ChargedSent DEF Dead, Definitive
<1>3. stripe \in StripeStatus \ {"none"}
  BY DEF Inv, Types
<1> HIDE DEF x
<1>4. Carries(x)
  BY <1>1, <1>2, <1>3, WantsDue DEF Carries
<1> QED
  BY <1>4 DEF x

LEMMA StepNames == Step \ Sends = {"idle", "unknown", "lookup", "close", "record", "attempt",
                                   "judge", "settle", "fail", "gate", "key", "insert",
                                   "convert", "reverse"}
BY DEF Step, Sends

LEMMA StripeValue == Types => stripe \in Value /\ "none" \in Value
BY DEF Types, Value, AttemptStatus, Obligation

LEMMA DispatchInv == ASSUME Inv, NEW p \in Procs, Dispatch(p) PROVE Inv'
<1>1. /\ stripe = "none" /\ Sender(p) /\ Types
      /\ UNCHANGED <<booking, obligation, attempt>> /\ stripe' \in StripeStatus
  BY DEF Dispatch, At, Sender, Sends, Inv, Types, StripeStatus
<1>2. obligation = "PENDING" /\ \A q \in Procs : Sender(q) => q = p
  BY <1>1 DEF Inv, OneSender
<1>3. ~Sent
  BY <1>1 DEF Sent, Quiet
<1>4. faults' \in 0..MaxFaults
  BY <1>1, FaultBound DEF Dispatch, Types
<1>5. PICK s \in {"record", "unknown"}, v \in Value :
        /\ Took(p, v, s)
        /\ s = "record" => v = stripe' /\ v \in {"PROCESSING", "REQUIRES_ACTION", "FAILED", "SUCCEEDED"}
  <2>1. {"PROCESSING", "REQUIRES_ACTION", "FAILED", "SUCCEEDED", "none"} \subseteq Value
    BY DEF Value, AttemptStatus, StripeStatus
  <2> QED
    BY <2>1 DEF Dispatch, Goto
<1> DEFINE x == [proc[p] EXCEPT !.at = s, !.got = v]
<1>6. x \in Place /\ Moves(p, x)
  BY <1>1, <1>5, TookMoves, StepNames
<1>7. x.at = s /\ x.got = v /\ x.want = proc[p].want
  BY <1>1, TookFields
<1> HIDE DEF x
<1>8. proc' \in [Procs -> Place] /\ proc'[p] = x /\ \A q \in Procs : q # p => proc'[q] = proc[q]
  BY <1>1, <1>6 DEF Types, Moves
<1>9. Quiet' /\ Sent'
  BY <1>1, <1>2, <1>7, <1>8 DEF Quiet, Sender, Sent, Sends
<1>10. Carries(proc[p])'
  <2>1. Definitive(v) /\ s = "record" => Dead'
    BY <1>5, <1>9 DEF Dead, Definitive
  <2>2. proc'[p].at = s /\ proc'[p].got = v /\ proc'[p].want = proc[p].want
    BY <1>7, <1>8
  <2>3. obligation' # "none" /\ (proc[p].want = "waive" => booking'.due)
    BY <1>1, <1>2, WantsDue
  <2>4. s = "record" => v = stripe' /\ v \in StripeStatus \ {"none"}
    BY <1>5 DEF StripeStatus
  <2> QED
    BY <1>5, <1>9, <2>1, <2>2, <2>3, <2>4 DEF Carries, Definitive
<1>11. Kept
  BY <1>1, <1>2, <1>3 DEF Kept, Dead
<1>12. RowFits(attempt)'
  <2>1. ~Definitive(attempt.status) /\ attempt.status # "SUCCEEDED"
    BY <1>1, <1>3 DEF Inv, RowFits, Dead
  <2> QED
    BY <1>1, <2>1 DEF Inv, RowFits, Definitive
<1>13. OneSender' /\ LedgerIsStripes'
  BY <1>1, <1>2, <1>9 DEF OneSender, LedgerIsStripes, Quiet
<1>14. Types' /\ Ledger'
  BY <1>1, <1>4, <1>8 DEF Inv, Types, Ledger, LedgerAgrees
<1> QED
  BY <1>8, <1>10, <1>11, <1>12, <1>13, <1>14, StepInv

LEMMA MarkUnknownInv == ASSUME Inv, NEW p \in Procs, MarkUnknown(p) PROVE Inv'
<1>1. obligation # "none"
  BY DEF MarkUnknown, At, Inv, Carries
<1>2. /\ Took(p, "none", "attempt") /\ attempt' = MarkedUnknown
      /\ faults' \in 0..MaxFaults /\ UNCHANGED <<booking, obligation, stripe>>
  BY DEF MarkUnknown, Goto, Inv, Types
<1>3. RowFits(MarkedUnknown)
  BY <1>1, MarkedUnknownFits
<1> QED
  BY <1>2, <1>3, GoesOn, TookInv, StepNames, StripeValue DEF Inv

LEMMA RecordInv == ASSUME Inv, NEW p \in Procs, Record(p) PROVE Inv'
<1>1. RowFits(Recorded(proc[p].got))
  BY RecordedFits DEF Record
<1>2. /\ attempt' = Recorded(proc[p].got)
      /\ faults' \in 0..MaxFaults /\ UNCHANGED <<booking, obligation, stripe>>
  BY DEF Record, Inv, Types
<1>3. CASE Took(p, "none", "attempt")
  <2>1. Carries([proc[p] EXCEPT !.at = "attempt", !.got = "none"])
    BY GoesOn
  <2>2. "none" \in Value /\ "attempt" \in Step \ Sends
    BY StepNames, StripeValue DEF Inv
  <2> QED
    BY <1>1, <1>2, <1>3, <2>1, <2>2, TookInv
<1>4. CASE Leave(p)
  BY <1>1, <1>2, <1>4, LeaveMoves, IdlePlace, AttemptInv
<1> QED
  BY <1>3, <1>4 DEF Record, Goto

\* Deliver and PickReconcile: what Stripe says of the charge is read.
LEMMA StripeReadInv ==
    ASSUME Inv, NEW p \in Procs, stripe # "none", Took(p, stripe, "record"),
           UNCHANGED <<booking, obligation, attempt, stripe, faults>>
    PROVE  Inv'
<1>1. faults' \in 0..MaxFaults /\ RowFits(attempt)
  BY DEF Inv, Types
<1> QED
  BY <1>1, GoesToRecord, TookInv, StepNames, StripeValue DEF Inv

-----------------------------------------------------------------------------
(* The recovery worker *)

\* p goes to look for, or to close, an attempt that nobody sends any more.
LEMMA GoesToResolve ==
    ASSUME Inv, NEW p \in Procs, Sent, NEW s \in {"lookup", "close"}, s = "close" => stripe = "none"
    PROVE  Carries([proc[p] EXCEPT !.at = s, !.got = "none"])
<1> DEFINE x == [proc[p] EXCEPT !.at = s, !.got = "none"]
<1>1. x.at = s /\ x.want = proc[p].want
  BY TookFields DEF Inv
<1> HIDE DEF x
<1>2. Carries(x)
  BY <1>1, WantsDue DEF Carries
<1> QED
  BY <1>2 DEF x

LEMMA PickUnsentInv == ASSUME Inv, NEW p \in Procs, PickUnsent(p) PROVE Inv'
<1>1. Quiet
  BY DEF PickUnsent, Inv, OneSender, Quiet, Sender, Sends
<1>2. obligation # "none"
  BY DEF PickUnsent, Resolvable, IsUnsent, Inv, RowFits
<1>3. Carries([proc[p] EXCEPT !.at = "lookup", !.got = "none"])
  BY <1>1, <1>2, GoesToResolve DEF Sent
<1>4. /\ Took(p, "none", "lookup") /\ UNCHANGED <<booking, obligation, attempt, stripe>>
      /\ faults' \in 0..MaxFaults /\ RowFits(attempt)
  BY DEF PickUnsent, Goto, Inv, Types
<1> QED
  BY <1>3, <1>4, TookInv, StepNames, StripeValue DEF Inv

LEMMA LookupInv == ASSUME Inv, NEW p \in Procs, Lookup(p) PROVE Inv'
<1>1. Sent
  BY DEF Lookup, At, Inv, Carries
<1>2. /\ UNCHANGED <<booking, obligation, attempt, stripe>>
      /\ faults' \in 0..MaxFaults /\ RowFits(attempt) /\ faults' = faults
  BY DEF Lookup, Inv, Types
<1>3. CASE stripe # "none" /\ Took(p, stripe, "record")
  BY <1>2, <1>3, StripeReadInv
<1>4. CASE stripe = "none" /\ Took(p, "none", "close")
  <2>1. Carries([proc[p] EXCEPT !.at = "close", !.got = "none"])
    BY <1>1, <1>4, GoesToResolve
  <2> QED
    BY <1>2, <1>4, <2>1, TookInv, StepNames, StripeValue DEF Inv
<1>5. CASE Took(p, "none", "attempt")
  <2>1. Carries([proc[p] EXCEPT !.at = "attempt", !.got = "none"])
    BY GoesOn
  <2> QED
    BY <1>2, <1>5, <2>1, TookInv, StepNames, StripeValue DEF Inv
<1> QED
  BY <1>3, <1>4, <1>5 DEF Lookup, Goto

LEMMA CloseUnsentInv == ASSUME Inv, NEW p \in Procs, CloseUnsent(p) PROVE Inv'
<1>1. Sent /\ stripe = "none"
  BY DEF CloseUnsent, At, Inv, Carries
<1>2. PICK t : attempt' = t /\ RowFits(t)
  BY <1>1, ClosedFits DEF CloseUnsent, Inv
<1>3. /\ Took(p, "none", "attempt") /\ UNCHANGED <<booking, obligation, stripe>>
      /\ faults' \in 0..MaxFaults
  BY DEF CloseUnsent, Goto, Inv, Types
<1>4. Carries([proc[p] EXCEPT !.at = "attempt", !.got = "none"])
  BY GoesOn
<1>5. "none" \in Value /\ "attempt" \in Step \ Sends
  BY StepNames, StripeValue DEF Inv
<1> QED
  BY <1>2, <1>3, <1>4, <1>5, TookInv

LEMMA PickFailedInv == ASSUME Inv, NEW p \in Procs, PickFailed(p) PROVE Inv'
<1>1. /\ Took(p, "none", "attempt") /\ UNCHANGED <<booking, obligation, attempt, stripe>>
      /\ faults' \in 0..MaxFaults /\ RowFits(attempt)
  BY DEF PickFailed, Goto, Inv, Types
<1>2. Carries([proc[p] EXCEPT !.at = "attempt", !.got = "none"])
  BY GoesOn
<1>3. "none" \in Value /\ "attempt" \in Step \ Sends
  BY StepNames, StripeValue DEF Inv
<1> QED
  BY <1>1, <1>2, <1>3, TookInv

-----------------------------------------------------------------------------
(* convergeAttempt *)

\* A step of p that ends the convergence and writes no more than the attempt.
LEMMA ConvergedInv ==
    ASSUME Inv, NEW p \in Procs, Converged(p), UNCHANGED <<booking, obligation, stripe, faults>>,
           NEW t, attempt' = t, RowFits(t)
    PROVE  Inv'
<1>1. PICK x \in Place : Moves(p, x) /\ Carries(x) /\ x.at \notin Sends
  BY ConvergedMoves
<1>2. faults' \in 0..MaxFaults
  BY DEF Inv, Types
<1> QED
  BY <1>1, <1>2, AttemptInv

LEMMA ReadAttemptInv == ASSUME Inv, NEW p \in Procs, ReadAttempt(p) PROVE Inv'
<1>1. /\ UNCHANGED <<booking, obligation, attempt, stripe, faults>>
      /\ faults' \in 0..MaxFaults /\ RowFits(attempt)
  BY DEF ReadAttempt, Inv, Types
<1>2. CASE Converged(p)
  BY <1>1, <1>2, ConvergedInv
<1>3. CASE /\ attempt.status = "SUCCEEDED" \/ Definitive(attempt.status)
           /\ Took(p, attempt.status, "judge")
  <2> DEFINE v == attempt.status
             x == [proc[p] EXCEPT !.at = "judge", !.got = v]
  <2>1. x.at = "judge" /\ x.got = v /\ x.want = proc[p].want
    BY TookFields DEF Inv
  <2>2. /\ v = "SUCCEEDED" => stripe = "SUCCEEDED"
        /\ Definitive(v) => Dead
        /\ v = "SUCCEEDED" \/ Definitive(v)
        /\ v \in Value
    BY <1>1, <1>3 DEF RowFits, Attempt, Value
  <2>3. Took(p, v, "judge")
    BY <1>3
  <2> HIDE DEF x, v
  <2>4. Carries(x)
    BY <2>1, <2>2, WantsDue DEF Carries
  <2>5. "judge" \in Step \ Sends
    BY StepNames
  <2> QED
    BY <1>1, <2>2, <2>3, <2>4, <2>5, TookInv DEF x
<1> QED
  BY <1>2, <1>3 DEF ReadAttempt

LEMMA JudgeInv == ASSUME Inv, NEW p \in Procs, Judge(p) PROVE Inv'
<1>1. /\ UNCHANGED <<booking, obligation, stripe, faults>>
      /\ faults' \in 0..MaxFaults /\ RowFits(attempt)
  BY DEF Judge, Inv, Types
<1>2. /\ At(p, "judge") /\ proc[p].got # "SUCCEEDED" => Dead
  BY DEF Judge, At, Inv, Carries
<1>3. CASE MayLease /\ attempt' = Leased(p) /\ Goto(p, "settle")
  <2>1. RowFits(Leased(p))
    BY <1>3, LeasedFits
  <2>2. Carries([proc[p] EXCEPT !.at = "settle", !.got = "none"])
    BY GoesOn
  <2>3. "none" \in Value /\ "settle" \in Step \ Sends
    BY StepNames, StripeValue DEF Inv
  <2> QED
    BY <1>1, <1>3, <2>1, <2>2, <2>3, TookInv DEF Goto
<1>4. CASE Dead /\ UNCHANGED attempt /\ Goto(p, "fail")
  <2> DEFINE x == [proc[p] EXCEPT !.at = "fail", !.got = "none"]
  <2>1. x.at = "fail" /\ x.want = proc[p].want
    BY TookFields DEF Inv
  <2> HIDE DEF x
  <2>2. Carries(x)
    BY <1>4, <2>1, WantsDue DEF Carries
  <2>3. "none" \in Value /\ "fail" \in Step \ Sends
    BY StepNames, StripeValue DEF Inv
  <2> QED
    BY <1>1, <1>4, <2>2, <2>3, TookInv DEF Goto, x
<1>5. CASE Converged(p) /\ attempt' \in {attempt, Absorbed}
  BY <1>1, <1>5, AbsorbedFits, ConvergedInv
<1> QED
  BY <1>2, <1>3, <1>4, <1>5 DEF Judge

\* What the booking becomes is as the ledger then says.
LEMMA LateSettledFits ==
    ASSUME Inv, obligation = "PENDING", NEW s \in {"SUCCEEDED", "FAILED"},
           booking' = LateSettled(s), booking.status # "PENDING" \/ s = "FAILED", obligation' = s
    PROVE  booking' \in Booking /\ booking'.due = booking.due /\ Ledger'
<1>1. CASE booking.status = "LATE_CANCELLATION" /\ booking.settlement = "PENDING"
  <2>1. booking' = [booking EXCEPT !.settlement = s]
    BY <1>1 DEF LateSettled
  <2>2. booking' \in Booking
    BY <2>1 DEF Inv, Types, Booking
  <2>3. /\ booking'.status = booking.status /\ booking'.claimed = booking.claimed
        /\ booking'.due = booking.due /\ booking'.settlement = s
    BY <2>1 DEF Inv, Types, Booking
  <2> QED
    BY <1>1, <2>2, <2>3 DEF Inv, Ledger, LedgerAgrees
<1>2. CASE ~(booking.status = "LATE_CANCELLATION" /\ booking.settlement = "PENDING")
  <2>1. booking' = booking
    BY <1>2 DEF LateSettled
  <2> QED
    BY <1>2, <2>1 DEF Inv, Types, Ledger, LedgerAgrees
<1> QED
  BY <1>1, <1>2

LEMMA FinalizedFits ==
    ASSUME Inv, obligation = "PENDING", booking' = Finalized, obligation' = "SUCCEEDED"
    PROVE  booking' \in Booking /\ booking'.due = booking.due /\ Ledger'
<1>1. CASE booking.status = "PENDING"
  <2>1. booking' = [booking EXCEPT !.status = "NO_SHOW_CHARGED"]
    BY <1>1 DEF Finalized
  <2>2. booking' \in Booking
    BY <2>1 DEF Inv, Types, Booking
  <2>3. /\ booking'.status = "NO_SHOW_CHARGED" /\ booking'.claimed = booking.claimed
        /\ booking'.due = booking.due /\ booking'.settlement = booking.settlement
    BY <2>1 DEF Inv, Types, Booking
  <2> QED
    BY <1>1, <2>2, <2>3 DEF Inv, Ledger, LedgerAgrees
<1>2. CASE booking.status # "PENDING"
  <2>1. booking' = LateSettled("SUCCEEDED")
    BY <1>2 DEF Finalized
  <2> QED
    BY <1>2, <2>1, LateSettledFits
<1> QED
  BY <1>1, <1>2

\* The lease is on a charge that succeeded.
LEMMA HolderPaid == ASSUME Inv, NEW p \in Procs, Holds(p) PROVE stripe = "SUCCEEDED" /\ Sent
BY ChargedSent DEF Holds, Inv, RowFits

LEMMA SettleSuccessInv == ASSUME Inv, NEW p \in Procs, SettleSuccess(p) PROVE Inv'
<1>1. Converged(p) /\ UNCHANGED <<stripe, faults>>
  BY DEF SettleSuccess
<1>2. CASE /\ Holds(p) /\ MaySettle
           /\ obligation' = "SUCCEEDED" /\ booking' = Finalized /\ attempt' = Completed
  <2>1. PICK x \in Place : Moves(p, x) /\ Carries(x) /\ x.at \notin Sends
    BY <1>1, ConvergedMoves
  <2>2. stripe = "SUCCEEDED" /\ Quiet /\ obligation = "PENDING"
    BY <1>2, HolderPaid DEF Sent, MaySettle
  <2>3. booking' \in Booking /\ booking'.due = booking.due /\ Ledger'
    BY <1>2, <2>2, FinalizedFits
  <2>4. obligation' \in Obligation \ {"none"}
    BY <1>2 DEF Obligation
  <2>5. RowFits(Completed) /\ Completed.persist = "COMPLETED"
    BY CompletedFits
  <2> QED
    BY <1>1, <1>2, <2>1, <2>2, <2>3, <2>4, <2>5, LedgerInv
<1>3. CASE UNCHANGED <<booking, obligation>> /\ attempt' \in {attempt, Completed}
  BY <1>1, <1>3, CompletedFits, ConvergedInv DEF Inv
<1> QED
  BY <1>2, <1>3 DEF SettleSuccess

LEMMA SettleFailureInv == ASSUME Inv, NEW p \in Procs, SettleFailure(p) PROVE Inv'
<1>1. Converged(p) /\ UNCHANGED <<stripe, faults>> /\ Dead
  BY DEF SettleFailure, At, Inv, Carries
<1>2. CASE /\ MaySettle
           /\ obligation' = "FAILED" /\ booking' = LateSettled("FAILED") /\ attempt' = Absorbed
  <2>1. PICK x \in Place : Moves(p, x) /\ Carries(x) /\ x.at \notin Sends
    BY <1>1, ConvergedMoves
  <2>2. Quiet /\ obligation = "PENDING" /\ stripe \notin {"PROCESSING", "SUCCEEDED"}
    BY <1>1, <1>2 DEF Dead, Sent, MaySettle
  <2>3. booking' \in Booking /\ booking'.due = booking.due /\ Ledger'
    BY <1>2, <2>2, LateSettledFits
  <2>4. obligation' \in Obligation \ {"none"}
    BY <1>2 DEF Obligation
  <2>5. RowFits(Absorbed)
    BY AbsorbedFits
  <2> QED
    BY <1>1, <1>2, <2>1, <2>2, <2>3, <2>4, <2>5, LedgerInv
<1>3. CASE UNCHANGED <<booking, obligation>> /\ attempt' \in {attempt, Absorbed}
  BY <1>1, <1>3, AbsorbedFits, ConvergedInv DEF Inv
<1> QED
  BY <1>2, <1>3 DEF SettleFailure

-----------------------------------------------------------------------------
(* The gate of a waiver or a reversal *)

\* p goes on from the gate with what it read of the obligation.
LEMMA GoesPastGate ==
    ASSUME Inv, NEW p \in Procs, proc[p].want # "none",
           NEW s \in {"key", "insert", "reverse"}, NEW v,
           s = "insert" => proc[p].want = "waive",
           v = "FAILED" => obligation \in {"FAILED", "WAIVED"},
           s = "reverse" => v \in {"none", "FAILED", "WAIVED"},
           v = "WAIVED" => obligation = "WAIVED"
    PROVE  Carries([proc[p] EXCEPT !.at = s, !.got = v])
<1> DEFINE x == [proc[p] EXCEPT !.at = s, !.got = v]
<1>1. x.at = s /\ x.got = v /\ x.want = proc[p].want
  BY TookFields DEF Inv
<1> HIDE DEF x
<1>2. Carries(x)
  BY <1>1, WantsDue DEF Carries
<1> QED
  BY <1>2 DEF x

LEMMA LeaveInv ==
    ASSUME Inv, NEW p \in Procs, Leave(p), faults' \in 0..MaxFaults,
           UNCHANGED <<booking, obligation, attempt, stripe>>
    PROVE  Inv'
BY LeaveMoves, IdlePlace, ReadInv

LEMMA ReadGateInv == ASSUME Inv, NEW p \in Procs, ReadGate(p) PROVE Inv'
<1>1. /\ UNCHANGED <<booking, obligation, attempt, stripe, faults>>
      /\ faults' \in 0..MaxFaults /\ RowFits(attempt)
  BY DEF ReadGate, Inv, Types
<1>2. proc[p].want # "none" /\ proc[p].want \in {"none", "waive", "reverse"}
  BY DEF ReadGate, At, Inv, Carries, Types, Place
<1>3. CASE Leave(p)
  BY <1>1, <1>3, LeaveInv
<1>4. ASSUME NEW s \in {"key", "insert", "reverse"}, NEW v \in Obligation, Took(p, v, s),
             s = "insert" => proc[p].want = "waive",
             v = "FAILED" => obligation \in {"FAILED", "WAIVED"},
             s = "reverse" => v \in {"none", "FAILED", "WAIVED"},
             v = "WAIVED" => obligation = "WAIVED"
      PROVE  Inv'
  <2>1. Carries([proc[p] EXCEPT !.at = s, !.got = v])
    BY <1>2, <1>4, GoesPastGate
  <2>2. v \in Value /\ s \in Step \ Sends
    BY StepNames DEF Value
  <2> QED
    BY <1>1, <1>4, <2>1, <2>2, TookInv
<1>5. CASE obligation = "none" /\ Took(p, "none", IF proc[p].want = "reverse" THEN "reverse" ELSE "insert")
  <2>1. CASE proc[p].want = "reverse"
    BY <1>4, <1>5, <2>1 DEF Obligation
  <2>2. CASE proc[p].want = "waive"
    BY <1>4, <1>5, <2>2 DEF Obligation
  <2> QED
    BY <1>2, <2>1, <2>2
<1>6. CASE obligation = "WAIVED" /\ Took(p, "WAIVED", "reverse")
  BY <1>4, <1>6 DEF Obligation
<1>7. CASE obligation \in {"PENDING", "FAILED"} /\ Took(p, obligation, "key")
  BY <1>4, <1>7 DEF Obligation
<1> QED
  BY <1>3, <1>5, <1>6, <1>7 DEF ReadGate

LEMMA ReadGateAttemptInv == ASSUME Inv, NEW p \in Procs, ReadGateAttempt(p) PROVE Inv'
<1>1. /\ UNCHANGED <<booking, obligation, attempt, stripe, faults>>
      /\ faults' \in 0..MaxFaults /\ RowFits(attempt)
  BY DEF ReadGateAttempt, Inv, Types
<1>2. /\ proc[p].want # "none" /\ At(p, "key")
      /\ proc[p].got = "FAILED" => obligation \in {"FAILED", "WAIVED"}
  BY DEF ReadGateAttempt, At, Inv, Carries
<1>3. CASE Leave(p)
  BY <1>1, <1>3, LeaveInv
<1>4. ASSUME NEW s \in {"convert", "attempt", "reverse"}, NEW v \in {"none", "FAILED"}, Took(p, v, s),
             s = "reverse" => proc[p].got = "FAILED" /\ v = "FAILED"
      PROVE  Inv'
  <2>1. Carries([proc[p] EXCEPT !.at = s, !.got = v])
    BY <1>2, <1>4, GoesPastGate, GoesOn
  <2>2. v \in Value /\ s \in Step \ Sends
    BY StepNames DEF Value, Obligation
  <2> QED
    BY <1>1, <1>4, <2>1, <2>2, TookInv
<1>5. CASE /\ proc[p].got = "FAILED"
           /\ Took(p, "FAILED", IF proc[p].want = "waive" THEN "convert" ELSE "reverse")
  BY <1>4, <1>5
<1>6. CASE Took(p, "none", "attempt")
  BY <1>4, <1>6
<1> QED
  BY <1>3, <1>5, <1>6 DEF ReadGateAttempt, Goto

\* A gate is read once more, or not.
LEMMA RetryMoves ==
    ASSUME Inv, NEW p \in Procs, Retry(p), proc[p].want # "none"
    PROVE  \E x \in Place : Moves(p, x) /\ Carries(x) /\ x.at \notin Sends
<1>1. CASE proc[p].again
  BY <1>1, IdlePlace, LeaveMoves DEF Retry
<1>2. CASE ~proc[p].again
  <2> DEFINE x == [Idle EXCEPT !.at = "gate", !.again = TRUE, !.want = proc[p].want]
  <2>1. Moves(p, x)
    BY <1>2 DEF Retry, Moves
  <2>2. proc[p].want \in {"none", "waive", "reverse"}
    BY DEF Inv, Types, Place
  <2>3. x.at = "gate" /\ x.want = proc[p].want
    BY DEF Idle
  <2>4. x \in Place
    BY <2>2, IdlePlace DEF Place, Step
  <2> HIDE DEF x
  <2>5. Carries(x)
    BY <2>3, WantsDue DEF Carries
  <2> QED
    BY <2>1, <2>3, <2>4, <2>5 DEF Sends
<1> QED
  BY <1>1, <1>2

\* A step of p that reads the gate again.
LEMMA RetryInv ==
    ASSUME Inv, NEW p \in Procs, Retry(p), proc[p].want # "none",
           UNCHANGED <<booking, obligation, attempt, stripe, faults>>
    PROVE  Inv'
<1>1. PICK x \in Place : Moves(p, x) /\ Carries(x) /\ x.at \notin Sends
  BY RetryMoves
<1>2. faults' \in 0..MaxFaults
  BY DEF Inv, Types
<1> QED
  BY <1>1, <1>2, ReadInv

LEMMA AskInv == ASSUME Inv, NEW p \in Procs, Ask(p) PROVE Inv'
<1>1. /\ UNCHANGED <<booking, obligation, attempt, stripe, faults>> /\ faults' \in 0..MaxFaults
  BY DEF Ask, Inv, Types
<1>2. PICK want \in {"waive", "reverse"} :
        /\ want = "waive" => booking.due
        /\ proc' = [proc EXCEPT ![p] = [Idle EXCEPT !.at = "gate", !.want = want]]
  BY DEF Ask
<1> DEFINE x == [Idle EXCEPT !.at = "gate", !.want = want]
<1>3. x.at = "gate" /\ x.want = want
  BY DEF Idle
<1>4. x \in Place
  BY IdlePlace DEF Place, Step
<1>5. Moves(p, x)
  BY <1>2 DEF Moves
<1> HIDE DEF x
<1>6. Carries(x) /\ x.at \notin Sends
  BY <1>2, <1>3 DEF Carries, Sends
<1> QED
  BY <1>1, <1>4, <1>5, <1>6, ReadInv

-----------------------------------------------------------------------------
(* The writes of the booking *)

\* A step that writes the booking, and moves nobody to where the charge is sent.
LEMMA BookingInv ==
    ASSUME Inv, proc' \in [Procs -> Place],
           \A q \in Procs : proc'[q] = proc[q] \/ (Carries(proc[q])' /\ proc'[q].at \notin Sends),
           UNCHANGED <<obligation, attempt, stripe, faults>>,
           booking' \in Booking, booking'.due = booking.due, Ledger'
    PROVE  Inv'
<1>1. ASSUME NEW q \in Procs, Sender(q)' PROVE Sender(q)
  BY <1>1 DEF Sender
<1>2. OneSender' /\ (Quiet => Quiet')
  BY <1>1 DEF Inv, OneSender, Quiet
<1>3. (Sent => Sent') /\ (Dead => Dead')
  BY <1>2 DEF Sent, Dead
<1>4. Kept
  BY <1>3 DEF Kept
<1>5. LedgerIsStripes'
  BY <1>2, <1>3 DEF Inv, LedgerIsStripes
<1>6. RowFits(attempt)'
  BY <1>4 DEF Kept, Inv, RowFits, Definitive
<1>7. Types'
  BY DEF Inv, Types
<1> QED
  BY <1>2, <1>4, <1>5, <1>6, <1>7, StepInv

LEMMA StatusWritten ==
    ASSUME Inv, NEW s \in {"PENDING", "NO_SHOW_WAIVED", "NO_SHOW_CANCELLED"},
           booking' = [booking EXCEPT !.status = s]
    PROVE  /\ booking' \in Booking /\ booking'.status = s /\ booking'.due = booking.due
           /\ booking'.claimed = booking.claimed /\ booking'.settlement = booking.settlement
BY DEF Inv, Types, Booking

LEMMA MarkNoShowInv == ASSUME Inv, MarkNoShow PROVE Inv'
<1>1. /\ booking.status = "UPCOMING" /\ booking' = [booking EXCEPT !.status = "PENDING"]
      /\ UNCHANGED <<obligation, attempt, stripe, proc, faults>>
  BY DEF MarkNoShow
<1>2. /\ booking' \in Booking /\ booking'.status = "PENDING" /\ booking'.due = booking.due
      /\ booking'.claimed = booking.claimed /\ booking'.settlement = booking.settlement
  BY <1>1, StatusWritten
<1>3. Ledger'
  <2>1. obligation = "none" /\ ~booking.claimed /\ booking.settlement = "NOT_APPLICABLE"
    BY <1>1 DEF Inv, Ledger
  <2>2. booking.claimed = FALSE
    BY <2>1 DEF Inv, Types, Booking
  <2>3. booking'.claimed = (obligation' # "none")
    BY <1>1, <1>2, <2>1, <2>2
  <2> QED
    BY <1>1, <1>2, <2>1, <2>3 DEF Ledger, LedgerAgrees
<1> QED
  BY <1>1, <1>2, <1>3, BookingInv DEF Inv, Types

\* A no-show for which nothing is due and nothing was claimed is waived.
LEMMA NothingDueInv ==
    ASSUME Inv, Unclaimed, ~booking.due, booking' = Waived,
           UNCHANGED <<obligation, attempt, stripe, proc, faults>>
    PROVE  Inv'
<1>1. booking.status = "PENDING" /\ booking' = [booking EXCEPT !.status = "NO_SHOW_WAIVED"]
  BY DEF Unclaimed, Waived
<1>2. /\ booking' \in Booking /\ booking'.status = "NO_SHOW_WAIVED" /\ booking'.due = booking.due
      /\ booking'.claimed = booking.claimed /\ booking'.settlement = booking.settlement
  BY <1>1, StatusWritten
<1>3. Ledger'
  <2>1. obligation = "none" /\ booking.settlement = "NOT_APPLICABLE"
    BY <1>1 DEF Inv, Ledger
  <2> QED
    BY <1>1, <1>2, <2>1 DEF Ledger, LedgerAgrees
<1> QED
  BY <1>2, <1>3, BookingInv DEF Inv, Types

LEMMA ReverseNoShowInv == ASSUME Inv, NEW p \in Procs, ReverseNoShow(p) PROVE Inv'
<1>1. /\ At(p, "reverse") /\ UNCHANGED <<obligation, attempt, stripe, faults>>
      /\ proc[p].want # "none" /\ proc[p].got \in {"none", "FAILED", "WAIVED"}
      /\ proc[p].got = "FAILED" => obligation \in {"FAILED", "WAIVED"}
      /\ proc[p].got = "WAIVED" => obligation = "WAIVED"
  BY DEF ReverseNoShow, At, Inv, Carries
<1>2. CASE MayReverse(p)
  <2>1. booking' = [booking EXCEPT !.status = "NO_SHOW_CANCELLED"] /\ Leave(p)
    BY <1>2 DEF ReverseNoShow
  <2>2. /\ booking' \in Booking /\ booking'.status = "NO_SHOW_CANCELLED"
        /\ booking'.due = booking.due
        /\ booking'.claimed = booking.claimed /\ booking'.settlement = booking.settlement
    BY <2>1, StatusWritten
  <2>3. obligation \in {"none", "FAILED"} /\ booking.status = "PENDING"
    BY <1>1, <1>2 DEF MayReverse, Inv, Ledger, LedgerAgrees
  <2>4. Ledger'
    BY <1>1, <2>2, <2>3 DEF Inv, Ledger, LedgerAgrees
  <2>5. Moves(p, Idle)
    BY <2>1, LeaveMoves
  <2>6. proc' \in [Procs -> Place]
    BY <2>5, IdlePlace DEF Inv, Types, Moves
  <2>7. ASSUME NEW q \in Procs
        PROVE  proc'[q] = proc[q] \/ (Carries(proc[q])' /\ proc'[q].at \notin Sends)
    <3>1. CASE q = p
      <4>1. proc'[q] = Idle
        BY <2>5, <3>1 DEF Inv, Types, Moves
      <4> QED
        BY <4>1 DEF Idle, Carries, Sends
    <3>2. CASE q # p
      BY <2>5, <3>2 DEF Inv, Types, Moves
    <3> QED
      BY <3>1, <3>2
  <2> QED
    BY <1>1, <2>2, <2>4, <2>6, <2>7, BookingInv
<1>3. CASE ~MayReverse(p)
  <2>1. booking' = booking /\ (Retry(p) \/ Leave(p)) /\ faults' \in 0..MaxFaults
    BY <1>3 DEF ReverseNoShow, Inv, Types
  <2> QED
    BY <1>1, <2>1, RetryInv, LeaveInv
<1> QED
  BY <1>2, <1>3

LEMMA InsertWaiverInv == ASSUME Inv, NEW p \in Procs, InsertWaiver(p) PROVE Inv'
<1>1. /\ UNCHANGED <<attempt, stripe, faults>> /\ faults' \in 0..MaxFaults
      /\ proc[p].want = "waive" /\ booking.due
  BY DEF InsertWaiver, At, Inv, Types, Carries
<1>2. CASE Retry(p) /\ UNCHANGED <<booking, obligation>>
  BY <1>1, <1>2, RetryInv
<1>3. CASE /\ obligation = "none" /\ Unclaimed
           /\ obligation' = "WAIVED" /\ booking' = Waived /\ Leave(p)
  <2>1. booking.status = "PENDING" /\ booking' = [booking EXCEPT !.status = "NO_SHOW_WAIVED"]
    BY <1>3 DEF Unclaimed, Waived
  <2>2. /\ booking' \in Booking /\ booking'.status = "NO_SHOW_WAIVED"
        /\ booking'.due = booking.due
        /\ booking'.claimed = booking.claimed /\ booking'.settlement = booking.settlement
    BY <2>1, StatusWritten
  <2>3. Ledger'
    BY <1>1, <1>3, <2>1, <2>2 DEF Inv, Ledger, LedgerAgrees
  <2>4. Quiet /\ stripe = "none"
    BY <1>3 DEF Inv, LedgerIsStripes
  <2>5. RowFits(attempt) /\ obligation' \in Obligation \ {"none"}
    BY <1>3 DEF Inv, Obligation
  <2> QED
    BY <1>1, <1>3, <2>2, <2>3, <2>4, <2>5, LeaveMoves, IdlePlace, LedgerInv
<1>4. CASE Leave(p) /\ UNCHANGED <<booking, obligation>>
  BY <1>1, <1>4, LeaveInv
<1> QED
  BY <1>2, <1>3, <1>4 DEF InsertWaiver

LEMMA ConvertFailedInv == ASSUME Inv, NEW p \in Procs, ConvertFailed(p) PROVE Inv'
<1>1. /\ UNCHANGED <<attempt, stripe, faults>> /\ faults' \in 0..MaxFaults /\ Leave(p)
  BY DEF ConvertFailed, Inv, Types
<1>2. CASE ~(obligation = "FAILED" /\ MayWaive)
  <2>1. UNCHANGED <<booking, obligation>>
    BY <1>2 DEF ConvertFailed
  <2> QED
    BY <1>1, <2>1, LeaveInv
<1>3. CASE obligation = "FAILED" /\ MayWaive
  <2>1. obligation' = "WAIVED" /\ booking' = Waived
    BY <1>3 DEF ConvertFailed
  <2>2. Dead /\ booking.due
    BY <1>3 DEF Inv, LedgerIsStripes, Ledger
  <2>3. booking' \in Booking /\ booking'.due = booking.due /\ Ledger'
    <3>1. CASE booking.status = "PENDING"
      <4>1. booking' = [booking EXCEPT !.status = "NO_SHOW_WAIVED"]
        BY <2>1, <3>1 DEF Waived
      <4>2. /\ booking' \in Booking /\ booking'.status = "NO_SHOW_WAIVED"
            /\ booking'.due = booking.due
            /\ booking'.claimed = booking.claimed /\ booking'.settlement = booking.settlement
        BY <4>1, StatusWritten
      <4> QED
        BY <2>1, <2>2, <3>1, <4>2 DEF Inv, Ledger, LedgerAgrees
    <3>2. CASE booking.status = "LATE_CANCELLATION"
      <4>1. booking' = [booking EXCEPT !.settlement = "WAIVED"]
        BY <2>1, <3>2 DEF Waived
      <4>2. /\ booking' \in Booking /\ booking'.status = booking.status
            /\ booking'.due = booking.due
            /\ booking'.claimed = booking.claimed /\ booking'.settlement = "WAIVED"
        BY <4>1 DEF Inv, Types, Booking
      <4> QED
        BY <2>1, <2>2, <3>2, <4>2 DEF Ledger, LedgerAgrees
    <3> QED
      BY <1>3, <3>1, <3>2 DEF MayWaive
  <2>4. Quiet /\ stripe \notin {"PROCESSING", "SUCCEEDED"}
    BY <2>2 DEF Dead, Sent
  <2>5. RowFits(attempt) /\ obligation' \in Obligation \ {"none"}
    BY <2>1 DEF Inv, Obligation
  <2> QED
    BY <1>1, <1>3, <2>1, <2>3, <2>4, <2>5, LeaveMoves, IdlePlace, LedgerInv
<1> QED
  BY <1>2, <1>3

-----------------------------------------------------------------------------
(* The obligation, and what Stripe does by itself *)

\* The obligation is written with the booking's transition.
LEMMA PrepareInv ==
    ASSUME Inv, NEW p \in Collectors, NEW card \in BOOLEAN, Prepare(p, card),
           UNCHANGED <<stripe, faults>>,
           booking' \in Booking, booking.due, booking'.due = booking.due, Ledger'
    PROVE  Inv'
<1>1. p \in Procs /\ obligation = "none" /\ stripe = "none" /\ Quiet
  BY DEF Prepare, Inv, LedgerIsStripes, Procs
<1>2. attempt.status = "none"
  BY <1>1 DEF Inv, RowFits
<1>3. Kept
  BY <1>1 DEF Kept, Sent, Dead
<1>4. faults' \in 0..MaxFaults
  BY DEF Inv, Types
<1>5. CASE ~card
  <2>1. obligation' = "FAILED" /\ UNCHANGED <<attempt, proc>>
    BY <1>5 DEF Prepare
  <2>2. Quiet'
    BY <1>1, <2>1 DEF Quiet, Sender
  <2>3. OneSender' /\ LedgerIsStripes'
    BY <1>1, <2>1, <2>2 DEF OneSender, Quiet, LedgerIsStripes, Dead, Sent
  <2>4. RowFits(attempt)'
    BY <1>2, <2>1 DEF Inv, RowFits, Definitive
  <2>5. obligation' \in Obligation /\ stripe' \in StripeStatus
    BY <2>1 DEF Inv, Types, Obligation
  <2> QED
    BY <1>3, <1>4, <2>1, <2>3, <2>4, <2>5, StayInv
<1>6. CASE card
  <2>1. /\ obligation' = "PENDING" /\ attempt' = [attempt EXCEPT !.status = "NOT_CREATED"]
        /\ Goto(p, "collect")
    BY <1>6 DEF Prepare
  <2> DEFINE x == [proc[p] EXCEPT !.at = "collect", !.got = "none"]
  <2>2. x \in Place /\ Moves(p, x)
    BY <1>1, <2>1, GotoMoves DEF Inv, Step
  <2>3. x.at = "collect" /\ x.want = proc[p].want
    BY <1>1, TookFields DEF Inv
  <2> HIDE DEF x
  <2>4. Carries(x)
    BY <1>1, <2>3, WantsDue DEF Carries
  <2>5. /\ proc' \in [Procs -> Place]
        /\ \A q \in Procs : proc'[q] = proc[q] \/ Carries(proc[q])'
    BY <1>1, <1>3, <2>2, <2>4, MovedFits
  <2>6. ASSUME NEW q \in Procs, Sender(q)' PROVE q = p
    BY <1>1, <2>2, <2>6 DEF Inv, Types, Moves, Quiet, Sender
  <2>7. OneSender' /\ LedgerIsStripes'
    BY <1>1, <2>1, <2>6 DEF OneSender, LedgerIsStripes
  <2>8. attempt' \in Attempt
    BY <2>1 DEF Inv, RowFits, Attempt, AttemptStatus
  <2>9. /\ attempt'.status = "NOT_CREATED" /\ attempt'.persist = attempt.persist
        /\ attempt'.owner = attempt.owner
    BY <2>1 DEF Inv, RowFits, Attempt
  <2>10. attempt.persist # "PERSISTING"
    BY <1>2 DEF Inv, RowFits
  <2>11. RowFits(attempt)'
    BY <2>1, <2>8, <2>9, <2>10 DEF Inv, RowFits, Definitive
  <2>12. Types'
    BY <1>4, <2>1, <2>5 DEF Inv, Types, Obligation
  <2> QED
    BY <1>3, <2>5, <2>7, <2>11, <2>12, StepInv
<1> QED
  BY <1>5, <1>6

LEMMA CancelLateInv == ASSUME Inv, NEW p \in Collectors, CancelLate(p) PROVE Inv'
<1>1. booking.status = "UPCOMING" /\ UNCHANGED <<stripe, faults>>
  BY DEF CancelLate
<1>2. obligation = "none" /\ ~booking.claimed /\ booking.settlement = "NOT_APPLICABLE"
  BY <1>1 DEF Inv, Ledger
<1>3. ASSUME booking.due, NEW card \in BOOLEAN, Prepare(p, card),
             booking' = [booking EXCEPT !.status = "LATE_CANCELLATION",
                                        !.settlement = IF card THEN "PENDING" ELSE "FAILED"]
      PROVE  Inv'
  <2>1. PICK s \in {"PENDING", "FAILED"} :
          /\ obligation' = s
          /\ booking' = [booking EXCEPT !.status = "LATE_CANCELLATION", !.settlement = s]
    BY <1>3 DEF Prepare
  <2>2. /\ booking' \in Booking /\ booking'.status = "LATE_CANCELLATION"
        /\ booking'.settlement = s /\ booking'.due = booking.due
    BY <2>1 DEF Inv, Types, Booking
  <2>3. Ledger'
    BY <1>3, <2>1, <2>2 DEF Ledger, LedgerAgrees
  <2> QED
    BY <1>1, <1>3, <2>2, <2>3, PrepareInv
<1>4. CASE /\ ~booking.due /\ booking' = [booking EXCEPT !.status = "LATE_CANCELLATION"]
           /\ UNCHANGED <<obligation, attempt, proc>>
  <2>1. /\ booking' \in Booking /\ booking'.status = "LATE_CANCELLATION"
        /\ booking'.settlement = booking.settlement /\ booking'.due = booking.due
    BY <1>4 DEF Inv, Types, Booking
  <2>2. Ledger'
    BY <1>2, <1>4, <2>1 DEF Ledger, LedgerAgrees
  <2> QED
    BY <1>1, <1>4, <2>1, <2>2, BookingInv DEF Inv, Types
<1> QED
  BY <1>3, <1>4 DEF CancelLate

LEMMA ClaimNoShowInv == ASSUME Inv, NEW p \in Collectors, ClaimNoShow(p) PROVE Inv'
<1>1. /\ booking.status = "PENDING" /\ booking.due /\ UNCHANGED <<stripe, faults>>
      /\ booking' = [booking EXCEPT !.claimed = TRUE]
  BY DEF ClaimNoShow, Unclaimed
<1>2. PICK card \in BOOLEAN : Prepare(p, card)
  BY DEF ClaimNoShow
<1>3. booking' \in Booking /\ booking'.status = "PENDING" /\ booking'.due = booking.due
  BY <1>1 DEF Inv, Types, Booking
<1>4. booking'.claimed = TRUE /\ booking'.settlement = booking.settlement
  BY <1>1 DEF Inv, Types, Booking
<1>5. obligation' \in {"PENDING", "FAILED"}
  BY <1>2 DEF Prepare
<1>6. booking'.claimed = (obligation' # "none")
  BY <1>4, <1>5
<1>7. booking'.settlement = "NOT_APPLICABLE"
  BY <1>1, <1>4 DEF Inv, Ledger
<1>8. Ledger'
  BY <1>1, <1>3, <1>5, <1>6, <1>7 DEF Ledger, LedgerAgrees
<1> QED
  BY <1>1, <1>2, <1>3, <1>8, PrepareInv

\* Stripe moves a charge that was sent: one under way to its end, a failed one to canceled.
LEMMA StripeInv ==
    ASSUME Inv, UNCHANGED <<booking, obligation, attempt, proc, faults>>,
           \/ stripe = "PROCESSING" /\ stripe' \in {"SUCCEEDED", "FAILED"}
           \/ stripe \in {"REQUIRES_ACTION", "FAILED"} /\ stripe' = "CANCELED"
    PROVE  Inv'
<1>1. Sent /\ Quiet' /\ Sent'
  <2>1. Sent
    BY ChargedSent
  <2> QED
    BY <2>1 DEF Sent, Quiet, Sender
<1>2. Dead => Dead'
  BY <1>1 DEF Dead
<1>3. Kept
  BY <1>1, <1>2 DEF Kept
<1>4. OneSender' /\ LedgerIsStripes'
  BY <1>1, <1>2 DEF Inv, OneSender, Quiet, LedgerIsStripes
<1>5. RowFits(attempt)'
  BY <1>2 DEF Inv, RowFits, Definitive
<1>6. Ledger'
  BY DEF Inv, Ledger, LedgerAgrees
<1>7. /\ faults' \in 0..MaxFaults /\ booking' \in Booking /\ obligation' \in Obligation
      /\ stripe' \in StripeStatus
  BY DEF Inv, Types, StripeStatus
<1> QED
  BY <1>3, <1>4, <1>5, <1>6, <1>7, StayInv

LEMMA LeaseExpiresInv == ASSUME Inv, LeaseExpires PROVE Inv'
<1>1. /\ attempt' = [attempt EXCEPT !.live = FALSE]
      /\ UNCHANGED <<booking, obligation, stripe, proc>>
  BY DEF LeaseExpires
<1>2. faults' \in 0..MaxFaults
  BY FaultBound DEF LeaseExpires, Inv, Types
<1>3. Quiet => Quiet'
  BY <1>1 DEF Quiet, Sender
<1>4. Kept /\ Ledger' /\ LedgerIsStripes'
  BY <1>1, <1>3, SameLedger
<1>5. OneSender'
  BY <1>1 DEF Inv, OneSender, Sender
<1>6. RowFits([attempt EXCEPT !.live = FALSE])
  BY DEF Inv, RowFits, Attempt
<1>7. RowFits(attempt)'
  BY <1>1, <1>3, <1>6 DEF RowFits, Definitive, Dead, Sent
<1>8. booking' \in Booking /\ obligation' \in Obligation /\ stripe' \in StripeStatus
  BY <1>1 DEF Inv, Types
<1> QED
  BY <1>1, <1>2, <1>4, <1>5, <1>7, <1>8, StayInv

LEMMA CrashInv == ASSUME Inv, NEW p \in Procs, Crash(p) PROVE Inv'
<1>1. faults' \in 0..MaxFaults
  BY FaultBound DEF Crash
<1> QED
  BY <1>1, LeaveInv DEF Crash

-----------------------------------------------------------------------------
LEMMA StutterInv == ASSUME Inv, UNCHANGED vars PROVE Inv'
BY DEF vars, Inv, Types, RowFits, Definitive, OneSender, Ledger, LedgerAgrees, LedgerIsStripes,
       Carries, Dead, Sent, Quiet, Sender

LEMMA NextInv == ASSUME Inv, Next PROVE Inv'
<1>1. CASE MarkNoShow
  BY <1>1, MarkNoShowInv
<1>2. CASE StripeSettles \/ StripeCancels
  BY <1>2, StripeInv DEF StripeSettles, StripeCancels
<1>3. CASE LeaseExpires
  BY <1>3, LeaseExpiresInv
<1>4. ASSUME NEW p \in Collectors, CancelLate(p) \/ ClaimNoShow(p) \/ AutoWaive(p) PROVE Inv'
  BY <1>4, CancelLateInv, ClaimNoShowInv, NothingDueInv DEF AutoWaive
<1>5. ASSUME NEW p \in Admins, WaiveNothing(p) \/ Ask(p) PROVE Inv'
  BY <1>5, NothingDueInv, AskInv DEF WaiveNothing, Procs
<1>6. ASSUME NEW p \in Recovery, PickReconcile(p) \/ PickUnsent(p) \/ PickFailed(p) PROVE Inv'
  BY <1>6, StripeReadInv, PickUnsentInv, PickFailedInv DEF PickReconcile, Procs
<1>7. ASSUME NEW p \in Hooks, Deliver(p) PROVE Inv'
  BY <1>7, StripeReadInv DEF Deliver, Procs
<1>8. ASSUME NEW p \in Procs, Continue(p) PROVE Inv'
  BY <1>8, CollectInv, DispatchInv, MarkUnknownInv, RecordInv, LookupInv, CloseUnsentInv,
     ReadAttemptInv, JudgeInv, SettleSuccessInv, SettleFailureInv, ReadGateInv,
     ReadGateAttemptInv, InsertWaiverInv, ConvertFailedInv, ReverseNoShowInv
     DEF Continue, Converge
<1>9. ASSUME NEW p \in Procs, Crash(p) PROVE Inv'
  BY <1>9, CrashInv
<1> QED
  BY <1>1, <1>2, <1>3, <1>4, <1>5, <1>6, <1>7, <1>8, <1>9 DEF Next

\* The inductive invariant, from Init along every step.
THEOREM Invariance == Spec => []Inv
<1>1. Init => Inv
  BY InitInv
<1>2. Inv /\ [Next]_vars => Inv'
  BY NextInv, StutterInv
<1> QED
  BY <1>1, <1>2, PTL DEF Spec

-----------------------------------------------------------------------------
\* Every variable of the penalty has its type, the lease token stands just while the
\* success is persisted, and an attempt has its obligation (prepareObligation writes both).
THEOREM PenaltyTyped == Spec => []TypeOK
<1>1. Inv => TypeOK
  BY DEF Inv, Types, RowFits, TypeOK, Place, Value
<1> QED
  BY <1>1, Invariance, PTL

\* A fee the business forgave, by waiveFee or by a reversal of the no-show, was not paid
\* and will not be, whatever the charge that was sent for it is still doing.
THEOREM ForgivenIsUnpaid == Spec => []ForgivenUnpaid
<1>1. Inv => ForgivenUnpaid
  <2> SUFFICES ASSUME Inv, Forgiven PROVE ForgivenUnpaid
    BY DEF ForgivenUnpaid
  <2>1. obligation \in {"none", "FAILED", "WAIVED"}
    BY DEF Forgiven, Inv, Types, Obligation, Ledger, LedgerAgrees
  <2>2. Quiet /\ stripe \notin {"PROCESSING", "SUCCEEDED"}
    BY <2>1 DEF Inv, LedgerIsStripes, Dead, Sent
  <2> QED
    BY <2>2 DEF ForgivenUnpaid, Quiet, Sender, Sends, At
<1> QED
  BY <1>1, Invariance, PTL

\* The booking and the ledger tell the same, after every transaction of settleSuccess,
\* convergeFailure, the waiver and the reversal.
THEOREM BookingTellsLedger == Spec => []LedgerAgrees
<1>1. Inv => LedgerAgrees
  BY DEF Inv, Ledger
<1> QED
  BY <1>1, Invariance, PTL

\* What the ledger settled is what Stripe did: convergeAttempt never meets an obligation
\* that contradicts its result.
THEOREM LedgerTellsStripe == Spec => []OutcomeIsStripes
<1>1. Inv => OutcomeIsStripes
  BY DEF Inv, RowFits, LedgerIsStripes, Dead, OutcomeIsStripes
<1> QED
  BY <1>1, Invariance, PTL

\* The charge is sent once: the process that is about to call createAndConfirmPaymentIntent
\* is the only one that may, nothing was sent before, and the fee is undecided.
ChargedOnce ==
    \A p \in Procs : At(p, "dispatch") =>
        /\ stripe = "none" /\ obligation = "PENDING"
        /\ \A q \in Procs : At(q, "collect") \/ At(q, "dispatch") => q = p

THEOREM SentOnce == Spec => []ChargedOnce
<1>1. Inv => ChargedOnce
  BY DEF Inv, OneSender, Sender, Sends, ChargedOnce, At
<1> QED
  BY <1>1, Invariance, PTL

-----------------------------------------------------------------------------
(* The fee as the customer knows it *)

\* A fee is forgiven in the ledger, or with the no-show it was for.
LEMMA ForgivenIs ==
    ASSUME Inv
    PROVE  Forgiven <=> \/ obligation = "WAIVED"
                        \/ booking.status \in {"NO_SHOW_WAIVED", "NO_SHOW_CANCELLED"}
BY DEF Inv, Ledger, LedgerAgrees, Forgiven

\* While the booking may yet be claimed, or the fee is due, nothing is forgiven.
LEMMA UndecidedIsOpen ==
    ASSUME Inv, obligation = "PENDING" PROVE ~Forgiven
BY ForgivenIs DEF Inv, Ledger, LedgerAgrees

\* A step the customer does not see.
LEMMA Unseen ==
    ASSUME Forgiven' = Forgiven, obligation' = obligation, Charge' = Charge
    PROVE  UNCHANGED Promised!fvars
BY DEF Promised!fvars

LEMMA SameBooking ==
    ASSUME UNCHANGED <<booking, obligation, stripe>> PROVE UNCHANGED Promised!fvars
<1>1. Forgiven' = Forgiven /\ Charge' = Charge
  BY DEF Forgiven, Charge
<1> QED
  BY <1>1, Unseen

LEMMA PrepareMaps ==
    ASSUME Inv, Inv', NEW p \in Collectors, NEW card \in BOOLEAN, Prepare(p, card),
           booking.status \in {"UPCOMING", "PENDING"},
           booking'.status \in {"LATE_CANCELLATION", "PENDING"}, UNCHANGED stripe
    PROVE  Promised!Next
<1>1. obligation = "none" /\ obligation' \in {"PENDING", "FAILED"}
  BY DEF Prepare
<1>2. ~Forgiven
  BY <1>1, ForgivenIs
<1>3. ~Forgiven'
  BY <1>1 DEF Inv, Ledger, LedgerAgrees, Forgiven
<1>4. Charge' = Charge
  BY DEF Charge
<1> QED
  BY <1>1, <1>2, <1>3, <1>4 DEF Promised!Next, Promised!Claim

\* A fee that is open, or failed, is forgiven.
LEMMA ForgivingMaps ==
    ASSUME obligation \in {"none", "FAILED"}, ~Forgiven, Forgiven', UNCHANGED stripe
    PROVE  Promised!Next
<1>1. Charge' = Charge
  BY DEF Charge
<1> QED
  BY <1>1 DEF Promised!Next, Promised!Forgive

LEMMA NothingDueMaps ==
    ASSUME Inv, Unclaimed, ~booking.due, booking' = Waived, UNCHANGED <<obligation, stripe>>
    PROVE  Promised!Next
<1>1. booking.status = "PENDING" /\ obligation = "none"
  BY DEF Unclaimed, Inv, Ledger
<1>2. booking' = [booking EXCEPT !.status = "NO_SHOW_WAIVED"]
  BY <1>1 DEF Waived
<1>3. booking'.status = "NO_SHOW_WAIVED"
  BY <1>2, StatusWritten
<1>4. ~Forgiven /\ Forgiven'
  BY <1>1, <1>3, ForgivenIs DEF Forgiven
<1> QED
  BY <1>1, <1>4, ForgivingMaps

\* The charge is asked for while the fee is due.
LEMMA DispatchMaps == ASSUME Inv, NEW p \in Procs, Dispatch(p) PROVE [Promised!Next]_(Promised!fvars)
<1>1. stripe = "none" /\ obligation = "PENDING" /\ UNCHANGED <<booking, obligation>>
  BY DEF Dispatch, At, Inv, OneSender, Sender, Sends
<1>2. ~Forgiven /\ ~Forgiven'
  BY <1>1, UndecidedIsOpen DEF Forgiven
<1>3. CASE stripe' = stripe
  BY <1>1, <1>3, SameBooking
<1>4. CASE stripe' \in {"PROCESSING", "REQUIRES_ACTION", "FAILED", "SUCCEEDED"}
  <2>1. Charge = "none" /\ Charge' \in {"asked", "paid", "refused"}
    BY <1>1, <1>4 DEF Charge
  <2> QED
    BY <1>1, <1>2, <2>1 DEF Promised!Next, Promised!Ask
<1> QED
  BY <1>3, <1>4 DEF Dispatch

LEMMA StripeMaps ==
    ASSUME UNCHANGED <<booking, obligation>>,
           \/ stripe = "PROCESSING" /\ stripe' \in {"SUCCEEDED", "FAILED"}
           \/ stripe \in {"REQUIRES_ACTION", "FAILED"} /\ stripe' = "CANCELED"
    PROVE  [Promised!Next]_(Promised!fvars)
<1>1. Forgiven' = Forgiven
  BY DEF Forgiven
<1>2. CASE stripe = "PROCESSING" /\ stripe' \in {"SUCCEEDED", "FAILED"}
  <2>1. Charge = "asked" /\ Charge' \in {"paid", "refused"}
    BY <1>2 DEF Charge
  <2> QED
    BY <1>1, <2>1 DEF Promised!Next, Promised!Answer
<1>3. CASE stripe \in {"REQUIRES_ACTION", "FAILED"} /\ stripe' = "CANCELED"
  <2>1. Charge' = Charge
    BY <1>3 DEF Charge
  <2> QED
    BY <1>1, <2>1, Unseen
<1> QED
  BY <1>2, <1>3

\* The fee is collected when it was paid, by the holder of the lease.
LEMMA SettleSuccessMaps ==
    ASSUME Inv, Inv', NEW p \in Procs, SettleSuccess(p) PROVE [Promised!Next]_(Promised!fvars)
<1>1. CASE Holds(p) /\ MaySettle /\ obligation' = "SUCCEEDED"
  <2>1. stripe = "SUCCEEDED" /\ stripe' = stripe /\ obligation = "PENDING"
    BY <1>1, HolderPaid DEF SettleSuccess, MaySettle
  <2>2. ~Forgiven
    BY <2>1, UndecidedIsOpen
  <2>3. ~Forgiven'
    BY <1>1 DEF Inv, Ledger, LedgerAgrees, Forgiven
  <2>4. Charge = "paid" /\ Charge' = Charge
    BY <2>1 DEF Charge
  <2> QED
    BY <1>1, <2>1, <2>2, <2>3, <2>4 DEF Promised!Next, Promised!Collect
<1>2. CASE UNCHANGED <<booking, obligation, stripe>>
  BY <1>2, SameBooking
<1> QED
  BY <1>1, <1>2 DEF SettleSuccess

LEMMA SettleFailureMaps ==
    ASSUME Inv, Inv', NEW p \in Procs, SettleFailure(p) PROVE [Promised!Next]_(Promised!fvars)
<1>1. CASE MaySettle /\ obligation' = "FAILED" /\ booking' = LateSettled("FAILED")
  <2>1. /\ stripe' = stripe /\ obligation = "PENDING" /\ stripe \in StripeStatus
        /\ stripe \notin {"PROCESSING", "SUCCEEDED"}
    BY <1>1 DEF SettleFailure, MaySettle, At, Inv, Carries, Dead, Types
  <2>2. ~Forgiven
    BY <2>1, UndecidedIsOpen
  <2>3. booking'.status = booking.status
    BY <1>1 DEF LateSettled, Inv, Types, Booking
  <2>4. ~Forgiven'
    <3>1. booking.status \notin {"NO_SHOW_WAIVED", "NO_SHOW_CANCELLED"}
      BY <2>2, ForgivenIs
    <3> QED
      BY <1>1, <2>3, <3>1 DEF Inv, Ledger, LedgerAgrees, Forgiven
  <2>5. Charge \in {"none", "refused"} /\ Charge' = Charge
    BY <2>1 DEF Charge, StripeStatus
  <2> QED
    BY <1>1, <2>1, <2>2, <2>4, <2>5 DEF Promised!Next, Promised!Fail
<1>2. CASE UNCHANGED <<booking, obligation, stripe>>
  BY <1>2, SameBooking
<1> QED
  BY <1>1, <1>2 DEF SettleFailure

\* What a business forgives is undecided or has failed.
LEMMA InsertWaiverMaps ==
    ASSUME Inv, NEW p \in Procs, InsertWaiver(p) PROVE [Promised!Next]_(Promised!fvars)
<1>1. CASE obligation = "none" /\ Unclaimed /\ obligation' = "WAIVED"
  <2>1. ~Forgiven /\ Forgiven' /\ stripe' = stripe
    BY <1>1, ForgivenIs DEF InsertWaiver, Unclaimed, Forgiven
  <2> QED
    BY <1>1, <2>1, ForgivingMaps
<1>2. CASE UNCHANGED <<booking, obligation>>
  BY <1>2, SameBooking DEF InsertWaiver
<1> QED
  BY <1>1, <1>2 DEF InsertWaiver

LEMMA ConvertFailedMaps ==
    ASSUME Inv, NEW p \in Procs, ConvertFailed(p) PROVE [Promised!Next]_(Promised!fvars)
<1>1. CASE obligation = "FAILED" /\ MayWaive
  <2>1. ~Forgiven /\ obligation' = "WAIVED" /\ stripe' = stripe
    BY <1>1, ForgivenIs DEF ConvertFailed, MayWaive
  <2>2. Forgiven'
    BY <2>1 DEF Forgiven
  <2> QED
    BY <1>1, <2>1, <2>2, ForgivingMaps
<1>2. CASE ~(obligation = "FAILED" /\ MayWaive)
  BY <1>2, SameBooking DEF ConvertFailed
<1> QED
  BY <1>1, <1>2

LEMMA ReverseNoShowMaps ==
    ASSUME Inv, NEW p \in Procs, ReverseNoShow(p) PROVE [Promised!Next]_(Promised!fvars)
<1>1. CASE MayReverse(p)
  <2>1. booking' = [booking EXCEPT !.status = "NO_SHOW_CANCELLED"] /\ stripe' = stripe
    BY <1>1 DEF ReverseNoShow
  <2>2. booking'.status = "NO_SHOW_CANCELLED"
    BY <2>1, StatusWritten
  <2>3. booking.status = "PENDING" /\ obligation \in {"none", "FAILED"}
    BY <1>1 DEF ReverseNoShow, MayReverse, At, Inv, Carries, Ledger, LedgerAgrees
  <2>4. ~Forgiven /\ Forgiven'
    BY <2>2, <2>3, ForgivenIs DEF Forgiven
  <2> QED
    BY <2>1, <2>3, <2>4, ForgivingMaps
<1>2. CASE ~MayReverse(p)
  BY <1>2, SameBooking DEF ReverseNoShow
<1> QED
  BY <1>1, <1>2

LEMMA CollectorMaps ==
    ASSUME Inv, Inv', NEW p \in Collectors, CancelLate(p) \/ ClaimNoShow(p) \/ AutoWaive(p)
    PROVE  [Promised!Next]_(Promised!fvars)
<1>1. CASE CancelLate(p)
  <2>1. booking.status = "UPCOMING" /\ stripe' = stripe
    BY <1>1 DEF CancelLate
  <2>2. booking'.status = "LATE_CANCELLATION"
    BY <1>1 DEF CancelLate, Inv, Types, Booking
  <2>3. ASSUME NEW card \in BOOLEAN, Prepare(p, card) PROVE Promised!Next
    BY <2>1, <2>2, <2>3, PrepareMaps
  <2>4. CASE booking' = [booking EXCEPT !.status = "LATE_CANCELLATION"] /\ UNCHANGED obligation
    <3>1. ~Forgiven /\ obligation = "none" /\ booking'.settlement = "NOT_APPLICABLE"
      BY <2>1, <2>4, ForgivenIs DEF Inv, Ledger, Types, Booking
    <3>2. Forgiven' = Forgiven /\ Charge' = Charge
      BY <2>1, <2>2, <2>4, <3>1 DEF Forgiven, Charge
    <3> QED
      BY <2>4, <3>2, Unseen
  <2> QED
    BY <1>1, <2>3, <2>4 DEF CancelLate
<1>2. CASE ClaimNoShow(p)
  <2>1. booking.status = "PENDING" /\ booking'.status = "PENDING" /\ stripe' = stripe
    BY <1>2 DEF ClaimNoShow, Unclaimed, Inv, Types, Booking
  <2> QED
    BY <1>2, <2>1, PrepareMaps DEF ClaimNoShow
<1>3. CASE AutoWaive(p)
  BY <1>3, NothingDueMaps DEF AutoWaive
<1> QED
  BY <1>1, <1>2, <1>3

LEMMA MarkNoShowMaps == ASSUME Inv, MarkNoShow PROVE [Promised!Next]_(Promised!fvars)
<1>1. /\ booking.status = "UPCOMING" /\ booking' = [booking EXCEPT !.status = "PENDING"]
      /\ UNCHANGED <<obligation, stripe>>
  BY DEF MarkNoShow
<1>2. booking'.status = "PENDING" /\ booking'.settlement = booking.settlement
  BY <1>1, StatusWritten
<1>3. Forgiven' = Forgiven /\ Charge' = Charge
  BY <1>1, <1>2 DEF Forgiven, Charge
<1> QED
  BY <1>1, <1>3, Unseen

LEMMA StepMaps == Inv /\ Inv' /\ [Next]_vars => [Promised!Next]_(Promised!fvars)
<1> SUFFICES ASSUME Inv, Inv', [Next]_vars PROVE [Promised!Next]_(Promised!fvars)
  OBVIOUS
<1>1. CASE MarkNoShow
  BY <1>1, MarkNoShowMaps
<1>2. CASE StripeSettles \/ StripeCancels
  BY <1>2, StripeMaps DEF StripeSettles, StripeCancels
<1>3. CASE LeaseExpires
  BY <1>3, SameBooking DEF LeaseExpires
<1>4. ASSUME NEW p \in Collectors, CancelLate(p) \/ ClaimNoShow(p) \/ AutoWaive(p)
      PROVE  [Promised!Next]_(Promised!fvars)
  BY <1>4, CollectorMaps
<1>5. ASSUME NEW p \in Admins, WaiveNothing(p) \/ Ask(p) PROVE [Promised!Next]_(Promised!fvars)
  BY <1>5, NothingDueMaps, SameBooking DEF WaiveNothing, Ask
<1>6. ASSUME NEW p \in Procs,
             \/ PickReconcile(p) \/ PickUnsent(p) \/ PickFailed(p) \/ Deliver(p) \/ Crash(p)
             \/ Collect(p) \/ MarkUnknown(p) \/ Record(p) \/ Lookup(p) \/ CloseUnsent(p)
             \/ ReadAttempt(p) \/ Judge(p) \/ ReadGate(p) \/ ReadGateAttempt(p)
      PROVE  [Promised!Next]_(Promised!fvars)
  <2>1. UNCHANGED <<booking, obligation, stripe>>
    BY <1>6 DEF PickReconcile, PickUnsent, PickFailed, Deliver, Crash, Collect, MarkUnknown,
                Record, Lookup, CloseUnsent, ReadAttempt, Judge, ReadGate, ReadGateAttempt
  <2> QED
    BY <2>1, SameBooking
<1>7. ASSUME NEW p \in Procs, Continue(p) PROVE [Promised!Next]_(Promised!fvars)
  BY <1>6, <1>7, DispatchMaps, SettleSuccessMaps, SettleFailureMaps, InsertWaiverMaps,
     ConvertFailedMaps, ReverseNoShowMaps DEF Continue, Converge
<1>8. CASE UNCHANGED vars
  BY <1>8, SameBooking DEF vars
<1>9. Recovery \subseteq Procs /\ Hooks \subseteq Procs
  BY DEF Procs
<1> QED
  BY <1>1, <1>2, <1>3, <1>4, <1>5, <1>6, <1>7, <1>8, <1>9 DEF Next

\* The cancelling request, the workers, the webhooks and the business together implement the
\* fee: asked for once and only while it is due, collected when it was paid, failed or
\* forgiven only when it was not and will not be.
THEOREM KeepsTheFee == Spec => ImplementsFee
<1>1. Init => Promised!Init
  BY DEF Init, Promised!Init, Forgiven, Charge
<1>2. Inv /\ Inv' /\ [Next]_vars => [Promised!Next]_(Promised!fvars)
  BY StepMaps
<1> QED
  BY <1>1, <1>2, Invariance, PTL DEF Spec, ImplementsFee, Promised!Spec

=============================================================================
